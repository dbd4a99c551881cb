----------------------------- MODULE SpdEeprom -----------------------------
(***************************************************************************)
(* The EEPROM of the memory module, as i2c.c uses it: an I2C device that   *)
(* watches SCL and SDA.  It is not part of the repository.  It follows the *)
(* edges of the lines, acknowledges a byte by holding SDA low for the      *)
(* ninth clock, and stores what it was sent when it sees the stop          *)
(* condition.  It has no reset: what happens on the board does not reach   *)
(* it but through the two lines.                                           *)
(***************************************************************************)
EXTENDS Naturals, Sequences

CONSTANTS
  Bits,        \* bits in a byte
  MemSize,     \* bytes in the EEPROM
  DeviceAddr,  \* its address on the bus, with the read bit clear
  MayNack      \* it may leave bytes unacknowledged: busy, or not there

VARIABLES
  mode,      \* "idle"; "device", "control" or "data": the byte it receives;
             \* "sending"
  count,     \* clocks of the current byte, the ninth included
  shift,     \* the byte received or sent
  pointer,   \* the address it reads or writes next
  pending,   \* data bytes received, not stored yet
  mem,       \* its contents
  hold       \* it holds SDA low

deviceVars == <<mode, count, shift, pointer, pending, mem, hold>>

Modes == {"idle", "device", "control", "data", "sending"}
Byte == 0..(2^Bits - 1)
Receiving == mode \in {"device", "control", "data"}

\* Bit n of a byte, the most significant being bit 0.
BitOf(byte, n) == (byte \div 2^(Bits - 1 - n)) % 2 = 1
WithBit(byte, bit) == (2 * byte + (IF bit THEN 1 ELSE 0)) % 2^Bits

Init ==
  /\ mode = "idle" /\ count = 0 /\ shift = 0 /\ pointer = 0
  /\ pending = <<>> /\ hold = FALSE

\* SDA falls while SCL is high.
StartSeen ==
  /\ mode' = "device" /\ count' = 0 /\ shift' = 0 /\ hold' = FALSE
  /\ pending' = <<>> /\ UNCHANGED <<pointer, mem>>

\* SDA rises while SCL is high.  Bytes are stored if the stop follows the
\* last of them at once; the clock that makes the stop is counted.
StopSeen ==
  /\ mode' = "idle" /\ count' = 0 /\ shift' = 0 /\ hold' = FALSE
  /\ pending' = <<>>
  /\ IF mode = "data" /\ count = 1
     THEN /\ mem' = [a \in DOMAIN mem |->
                       IF (a + MemSize - pointer) % MemSize < Len(pending)
                       THEN pending[((a + MemSize - pointer) % MemSize) + 1]
                       ELSE mem[a]]
          /\ pointer' = (pointer + Len(pending)) % MemSize
     ELSE UNCHANGED <<mem, pointer>>

\* SCL rises: a bit is taken in, or the master's acknowledge.
ClockRises(sda) ==
  /\ IF mode = "idle" \/ (mode = "sending" /\ count = Bits /\ sda)
     THEN mode' = "idle" /\ count' = 0 /\ shift' = 0
     ELSE /\ mode' = mode /\ count' = count + 1
          /\ shift' = IF Receiving /\ count < Bits
                      THEN WithBit(shift, sda) ELSE shift
  /\ UNCHANGED <<pointer, pending, mem, hold>>

\* After the last bit of a byte it received.
Acknowledge ==
  /\ Receiving /\ count = Bits
  /\ mode = "device" => shift \in {DeviceAddr, DeviceAddr + 1}
  /\ hold' = TRUE /\ UNCHANGED <<mode, count, shift, pointer, pending, mem>>

LeaveUnacknowledged ==
  /\ Receiving /\ count = Bits
  /\ MayNack \/ (mode = "device" /\ shift \notin {DeviceAddr, DeviceAddr + 1})
  /\ mode' = "idle" /\ count' = 0 /\ shift' = 0 /\ hold' = FALSE
  /\ UNCHANGED <<pointer, pending, mem>>

\* It puts the first bit of the next byte on the line.
SendNext ==
  /\ mode' = "sending" /\ count' = 0 /\ shift' = mem[pointer]
  /\ hold' = ~BitOf(mem[pointer], 0)
  /\ pointer' = (pointer + 1) % MemSize
  /\ UNCHANGED <<pending, mem>>

\* After the ninth clock of a byte it received.
TakeByte ==
  /\ Receiving /\ count = Bits + 1
  /\ IF mode = "device" /\ shift = DeviceAddr + 1
     THEN SendNext
     ELSE /\ mode' = IF mode = "device" THEN "control" ELSE "data"
          /\ pointer' = IF mode = "control" THEN shift % MemSize ELSE pointer
          /\ pending' = IF mode = "data" THEN Append(pending, shift) ELSE pending
          /\ count' = 0 /\ shift' = 0 /\ hold' = FALSE /\ UNCHANGED mem

\* The next bit, nothing for the ninth clock, or the next byte.
SendBit ==
  /\ mode = "sending"
  /\ IF count = Bits + 1
     THEN SendNext
     ELSE /\ hold' = (count < Bits /\ ~BitOf(shift, count))
          /\ UNCHANGED <<mode, count, shift, pointer, pending, mem>>

ClockFalls ==
  \/ Acknowledge \/ LeaveUnacknowledged \/ TakeByte \/ SendBit
  \/ /\ mode = "idle" \/ (Receiving /\ count < Bits)
     /\ UNCHANGED deviceVars
=============================================================================
