----------------------------- MODULE I2cDriver -----------------------------
(***************************************************************************)
(* The I2C driver of the test program (driver/i2c/i2c.c): an I2C master    *)
(* made of two PIO ports, one statement that touches a port at a time, and *)
(* the EEPROM at the other end of the lines (module SpdEeprom).            *)
(*                                                                         *)
(* A function of the API is the list of the functions it calls, those of   *)
(* them are skipped that come after a byte that was not acknowledged.  The *)
(* four functions i2c_* are lists of port accesses with one loop over the  *)
(* bits of a byte.                                                         *)
(***************************************************************************)
EXTENDS Naturals, Sequences

CONSTANTS
  Bits, MemSize, DeviceAddr, MayNack,   \* see SpdEeprom
  Used,        \* the functions of the API the software calls
  Addrs,       \* the addresses it reads and writes
  Values,      \* the bytes it writes and the EEPROM may hold
  Lens,        \* the lengths of a multiple read
  MaxResets    \* bound: resets of the board

API == {"I2C_Write", "I2C_Read", "I2C_MultipleRead"}

ASSUME ConstantsAssumption ==
  /\ Bits \in Nat \ {0} /\ MemSize \in Nat \ {0}
  /\ DeviceAddr \in Nat /\ DeviceAddr % 2 = 0 /\ DeviceAddr + 1 < 2^Bits
  /\ MayNack \in BOOLEAN /\ Used \subseteq API
  /\ Addrs \subseteq 0..(2^Bits - 1) /\ Values \subseteq 0..(2^Bits - 1)
  /\ Lens \subseteq Nat \ {0} /\ MaxResets \in Nat

VARIABLES
  scl,       \* the data register of the SCL port
  dir, out,  \* the direction (TRUE: output) and data registers of the SDA port
  mode, count, shift, pointer, pending, mem, hold,   \* the EEPROM
  call,      \* the API function called last, and its arguments
  ok,        \* its bSuccess
  result,    \* the bytes it has stored through its pointer
  index,     \* the i2c_ function of it in progress
  line, bit, \* the port access of that which is next, and its i
  data,      \* the local Data of i2c_read
  resets     \* history: resets of the board

lineVars   == <<scl, dir, out>>
deviceVars == <<mode, count, shift, pointer, pending, mem, hold>>
driverVars == <<call, ok, result, index, line, bit, data>>
vars == <<lineVars, deviceVars, driverVars, resets>>

Device == INSTANCE SpdEeprom

\* SDA is pulled up, and low if either end holds it low.
Sda == ~hold /\ (dir => out)
-----------------------------------------------------------------------------
(* The functions as lists.                                                 *)

I2cStart == [fn |-> "i2c_start", arg |-> 0, ifOk |-> FALSE]
I2cStop  == [fn |-> "i2c_stop",  arg |-> 0, ifOk |-> FALSE]
I2cWrite(byte) == [fn |-> "i2c_write", arg |-> byte, ifOk |-> TRUE]
\* arg: bAck
I2cRead(ack)   == [fn |-> "i2c_read", arg |-> ack, ifOk |-> TRUE]

\* The restart of I2C_MultipleRead is skipped after a failure.
RestartIfOk == [I2cStart EXCEPT !.ifOk = TRUE]

\* Mutant: the last byte is acknowledged like the others, and the EEPROM
\* puts one more byte on the line.
Reads_AllAcked(len) == [n \in 1..len |-> I2cRead(1)]

Reads(len) == [n \in 1..len |-> I2cRead(IF n = len THEN 0 ELSE 1)]

I2C_Write(c) ==
  <<I2cStart, I2cWrite(DeviceAddr), I2cWrite(c.addr), I2cWrite(c.value),
    I2cStop>>

\* Mutant: the restart is forgotten.
I2C_Read_NoRestart(c) ==
  <<I2cStart, I2cWrite(DeviceAddr), I2cWrite(c.addr),
    I2cWrite(DeviceAddr + 1), I2cRead(0), I2cStop>>

I2C_Read(c) ==
  <<I2cStart, I2cWrite(DeviceAddr), I2cWrite(c.addr),
    I2cStart, I2cWrite(DeviceAddr + 1), I2cRead(0), I2cStop>>

I2C_MultipleRead(c) ==
  <<I2cStart, I2cWrite(DeviceAddr), I2cWrite(0),
    RestartIfOk, I2cWrite(DeviceAddr + 1)>> \o Reads(c.len) \o <<I2cStop>>

Body(c) ==
  CASE c.fn = "none"             -> <<>>
    [] c.fn = "I2C_Write"        -> I2C_Write(c)
    [] c.fn = "I2C_Read"         -> I2C_Read(c)
    [] c.fn = "I2C_MultipleRead" -> I2C_MultipleRead(c)

\* Mutant: the clock rises without SDA having been high.
StartLines_NotHigh ==
  <<"sda_out", "scl_high", "scl_high", "sda_low", "scl_low">>

StartLines == <<"sda_out", "sda_high", "scl_high", "sda_low", "scl_low">>

StopLines == <<"sda_out", "sda_low", "scl_high", "sda_high">>

\* Mutant: the bit is put on the line after the clock has risen.
WriteLines_BitLate ==
  <<"sda_out", "scl_low", "scl_high", "sda_bit", "scl_low",
    "sda_in", "scl_high", "get_ack", "scl_low">>

\* Mutant: SDA is not released for the acknowledge.
WriteLines_NotReleased ==
  <<"sda_out", "scl_low", "sda_bit", "scl_high", "scl_low",
    "sda_out", "scl_high", "get_ack", "scl_low">>

\* Mutant: the acknowledge is read before its clock.
WriteLines_AckEarly ==
  <<"sda_out", "scl_low", "sda_bit", "scl_high", "scl_low",
    "sda_in", "get_ack", "scl_high", "scl_low">>

\* Accesses 2 to 5 are a loop over the bits.
WriteLines ==
  <<"sda_out", "scl_low", "sda_bit", "scl_high", "scl_low",
    "sda_in", "scl_high", "get_ack", "scl_low">>

\* ... and here accesses 3 to 5.
ReadLines ==
  <<"sda_in", "scl_low", "scl_high", "get_bit", "scl_low",
    "scl_low", "sda_out", "sda_ack", "scl_high", "scl_low", "sda_low">>

Lines == [i2c_start |-> StartLines, i2c_stop |-> StopLines,
          i2c_write |-> WriteLines, i2c_read |-> ReadLines]

LoopFirst == [i2c_start |-> 0, i2c_stop |-> 0, i2c_write |-> 2, i2c_read |-> 3]
LoopLast  == [i2c_start |-> 0, i2c_stop |-> 0, i2c_write |-> 5, i2c_read |-> 5]

NoCall == [fn |-> "none"]
Calls ==
  {c \in [fn : {"I2C_Write"}, addr : Addrs, value : Values]
         \cup [fn : {"I2C_Read"}, addr : Addrs]
         \cup [fn : {"I2C_MultipleRead"}, len : Lens] : c.fn \in Used}

Returned == index > Len(Body(call))
Current == Body(call)[index]
Access == Lines[Current.fn][line]
-----------------------------------------------------------------------------
Init ==
  /\ scl = FALSE /\ dir = FALSE /\ out = FALSE
  /\ Device!Init /\ mem \in [0..(MemSize - 1) -> Values]
  /\ call = NoCall /\ ok = FALSE /\ result = <<>>
  /\ index = 1 /\ line = 1 /\ bit = 0 /\ data = 0 /\ resets = 0

\* The ports are written, and the device sees the edges.
SetScl(level) ==
  /\ scl' = level /\ UNCHANGED <<dir, out>>
  /\ CASE level /\ ~scl -> Device!ClockRises(Sda)
       [] ~level /\ scl -> Device!ClockFalls
       [] OTHER         -> UNCHANGED deviceVars

SetSda(d, o) ==
  /\ dir' = d /\ out' = o /\ UNCHANGED scl
  /\ LET after == ~hold /\ (d => o)
     IN  CASE scl /\ Sda /\ ~after -> Device!StartSeen
           [] scl /\ ~Sda /\ after -> Device!StopSeen
           [] OTHER                -> UNCHANGED deviceVars

WritePort ==
  \/ Access = "scl_high" /\ SetScl(TRUE)
  \/ Access = "scl_low"  /\ SetScl(FALSE)
  \/ Access = "sda_out"  /\ SetSda(TRUE, out)
  \/ Access = "sda_in"   /\ SetSda(FALSE, out)
  \/ Access = "sda_high" /\ SetSda(dir, TRUE)
  \/ Access = "sda_low"  /\ SetSda(dir, FALSE)
  \/ Access = "sda_bit"  /\ SetSda(dir, Device!BitOf(Current.arg, bit))
  \/ Access = "sda_ack"  /\ SetSda(dir, Current.arg = 0)

ReadPort ==
  /\ Access \in {"get_ack", "get_bit"}
  /\ UNCHANGED <<lineVars, deviceVars>>

\* The next function the API function calls.
NextIndex(success) ==
  CHOOSE n \in index + 1 .. Len(Body(call)) + 1 :
    /\ n <= Len(Body(call)) => (success \/ ~Body(call)[n].ifOk)
    /\ \A m \in index + 1 .. n - 1 : Body(call)[m].ifOk /\ ~success

LastLine == line = Len(Lines[Current.fn])

\* Round the loop, on to the next access, or back to the API function.
Advance(success) ==
  \/ /\ line = LoopLast[Current.fn] /\ bit < Bits - 1
     /\ line' = LoopFirst[Current.fn] /\ bit' = bit + 1 /\ UNCHANGED index
  \/ /\ line # LoopLast[Current.fn] \/ bit = Bits - 1
     /\ ~LastLine
     /\ line' = line + 1 /\ UNCHANGED <<bit, index>>
  \/ LastLine /\ line' = 1 /\ bit' = 0 /\ index' = NextIndex(success)

Start ==
  /\ ~Returned /\ Current.fn = "i2c_start"
  /\ WritePort /\ Advance(ok)
  /\ UNCHANGED <<call, ok, result, data, resets>>

Stop ==
  /\ ~Returned /\ Current.fn = "i2c_stop"
  /\ WritePort /\ Advance(ok)
  /\ UNCHANGED <<call, ok, result, data, resets>>

WriteByte ==
  /\ ~Returned /\ Current.fn = "i2c_write"
  /\ WritePort \/ ReadPort
  /\ ok' = IF Access = "get_ack" THEN ~Sda ELSE ok
  /\ Advance(ok)
  /\ UNCHANGED <<call, result, data, resets>>

ReadByte ==
  /\ ~Returned /\ Current.fn = "i2c_read"
  /\ WritePort \/ ReadPort
  /\ data' = IF Access = "get_bit" THEN Device!WithBit(data, Sda)
             ELSE IF LastLine THEN 0 ELSE data
  /\ result' = IF LastLine THEN Append(result, data) ELSE result
  /\ Advance(ok)
  /\ UNCHANGED <<call, ok, resets>>

Call ==
  /\ Returned /\ call' \in Calls
  /\ ok' = TRUE /\ result' = <<>> /\ data' = 0
  /\ index' = 1 /\ line' = 1 /\ bit' = 0
  /\ UNCHANGED <<lineVars, deviceVars, resets>>

\* The board is reset: the ports fall back to SCL low and SDA input, the
\* program starts again, and the EEPROM sees what that does to the lines.
\* SCL is driven and falls before SDA is pulled up.
Reset ==
  /\ resets < MaxResets /\ resets' = resets + 1
  /\ scl' = FALSE /\ dir' = FALSE /\ out' = FALSE
  /\ IF scl THEN Device!ClockFalls ELSE UNCHANGED deviceVars
  /\ call' = NoCall /\ ok' = FALSE /\ result' = <<>>
  /\ index' = 1 /\ line' = 1 /\ bit' = 0 /\ data' = 0

Step == Start \/ Stop \/ WriteByte \/ ReadByte
Next == Call \/ Step \/ Reset

\* The program goes on.
Spec == Init /\ [][Next]_vars /\ WF_vars(Step)
\* ... and makes one call after the other.
BusySpec == Spec /\ WF_vars(Call)
-----------------------------------------------------------------------------
(* Properties. *)

TypeOK ==
  /\ scl \in BOOLEAN /\ dir \in BOOLEAN /\ out \in BOOLEAN
  /\ mode \in Device!Modes /\ count \in 0..(Bits + 1) /\ shift \in Device!Byte
  /\ pointer \in 0..(MemSize - 1) /\ pending \in Seq(Device!Byte)
  /\ mem \in [0..(MemSize - 1) -> Device!Byte] /\ hold \in BOOLEAN
  /\ call \in Calls \cup {NoCall} /\ ok \in BOOLEAN
  /\ result \in Seq(Device!Byte) /\ data \in Device!Byte
  /\ index \in 1..(Len(Body(call)) + 1)
  /\ line \in Nat /\ bit \in 0..(Bits - 1) /\ resets \in 0..MaxResets

\* Every call leaves the bus free, also one that was given up at any byte:
\* both lines high and the EEPROM idle, so that the next start is seen.
BusReleased ==
  (Returned /\ call # NoCall /\ resets = 0) => scl /\ Sda /\ mode = "idle"

\* While the clock is high the driver never drives SDA high against an
\* EEPROM that holds it low: neither in the ninth clock of a byte it wrote
\* nor in the eight of a byte it reads.
NoFight == resets = 0 => ~(scl /\ hold /\ dir /\ out)

\* SDA changes while SCL is high only where a start or a stop condition is
\* meant, "make sure data change at clk low" (i2c.c:218, 268), with whatever
\* the last function left on the ports, resets included.
LineDiscipline ==
  [][(scl /\ scl' /\ Sda # Sda') =>
       \/ Current.fn = "i2c_start" /\ ~Sda'
       \/ Current.fn = "i2c_stop" /\ Sda']_vars

\* i2c_write: "return true if device response ack" (i2c.c:208).  When it has
\* read an acknowledge, the EEPROM has received the byte and answers it.
\* (After a reset it may read a data bit instead.)
AckMeansTaken ==
  [][(resets = 0 /\ ~Returned /\ Access = "get_ack" /\ ok') =>
       Device!Receiving /\ count = Bits + 1 /\ shift = Current.arg]_vars

\* The abstract access, whose results appear on return.
Promise == INSTANCE EepromAccess
  WITH busy <- ~Returned, answer <- IF Returned THEN result ELSE <<>>,
       ok <- Returned /\ ok, broken <- resets > 0,
       Bytes <- Device!Byte, Contents <- [0..(MemSize - 1) -> Values]

\* A call returns, having failed and changed nothing, or having done what it
\* is for.  After a reset nothing but I2C_Write changes the EEPROM, though
\* it may be waiting for data and take the first bytes of the next call for
\* that.
Implements == Promise!Spec

\* The EEPROM does not leave a byte unacknowledged that it could take.
Acknowledged ==
  (/\ scl /\ ~scl' /\ Device!Receiving /\ count = Bits
   /\ mode = "device" => shift \in {DeviceAddr, DeviceAddr + 1}) => hold'

\* A reset in the middle of a transfer may leave the EEPROM deaf to starts,
\* and the driver has no bus recovery; but software that goes on calling an
\* EEPROM that acknowledges gets it back in step, and from then on every call
\* succeeds with the right answer.
BackInStep ==
  <>[][Acknowledged]_vars =>
  <>[]((Returned /\ call # NoCall) => ok /\ result = Promise!Answer(call))
=============================================================================
