------------------------- MODULE I2cDriver_proofs -------------------------
(***************************************************************************)
(* Proofs about the I2C driver and the EEPROM at the other end of its      *)
(* lines, for every size of the EEPROM, every set of calls, addresses,     *)
(* values and lengths, and any number of resets.                           *)
(*                                                                         *)
(*   LineIsDisciplined   SDA changes under a high SCL only as a start or a *)
(*                       stop, for any number of bits in a byte            *)
(*                                                                         *)
(* and for bytes of eight bits, as in i2c.c                                *)
(*                                                                         *)
(*   I2cTypeCorrect      the type invariant                                *)
(*   BusIsReleased       every call leaves the bus free                    *)
(*   NobodyFights        the two ends never drive SDA against each other   *)
(*   AcksAreTrue         an acknowledge was given for the byte written     *)
(*   DriverKeepsPromise  the driver implements EepromAccess, but for its   *)
(*                       liveness                                          *)
(*                                                                         *)
(* The invariants build on each other: where the program is and what the   *)
(* last access left on the ports (PortInv), types (TypeInv), what the      *)
(* EEPROM makes of a byte even after a reset (HearInv), the EEPROM in step *)
(* with the driver (SyncInv), and the data on the way (DataInv).           *)
(***************************************************************************)
EXTENDS I2cDriver, Integers, TLAPS
-----------------------------------------------------------------------------
(* The functions of the API, one function they call after the other.       *)

\* How many functions a call makes, and which is the i-th.
Count(c) ==
  IF c.fn = "I2C_Write" THEN 5 ELSE IF c.fn = "I2C_Read" THEN 7 ELSE 6 + c.len

CellAddr(c) == IF c.fn = "I2C_MultipleRead" THEN 0 ELSE c.addr

FourthOf(c) ==
  IF c.fn = "I2C_Write" THEN I2cWrite(c.value)
  ELSE IF c.fn = "I2C_Read" THEN I2cStart ELSE RestartIfOk

FunctionAt(c, i) ==
  IF i = 1 THEN I2cStart
  ELSE IF i = Count(c) THEN I2cStop
  ELSE IF i = 2 THEN I2cWrite(DeviceAddr)
  ELSE IF i = 3 THEN I2cWrite(CellAddr(c))
  ELSE IF i = 4 THEN FourthOf(c)
  ELSE IF i = 5 THEN I2cWrite(DeviceAddr + 1)
  ELSE I2cRead(IF i = Count(c) - 1 THEN 0 ELSE 1)

Function == [fn : {"i2c_start", "i2c_stop", "i2c_write", "i2c_read"},
             arg : Nat, ifOk : BOOLEAN]

LEMMA FunctionTypes ==
  /\ I2cStart \in Function /\ I2cStop \in Function /\ RestartIfOk \in Function
  /\ \A b \in Nat : I2cWrite(b) \in Function /\ I2cRead(b) \in Function
BY DEF I2cStart, I2cStop, RestartIfOk, I2cWrite, I2cRead, Function

LEMMA CallKinds ==
  ASSUME NEW c \in Calls
  PROVE  \/ c.fn = "I2C_Write" /\ c.addr \in Addrs /\ c.value \in Values
         \/ c.fn = "I2C_Read" /\ c.addr \in Addrs
         \/ c.fn = "I2C_MultipleRead" /\ c.len \in Lens
BY DEF Calls

LEMMA CallTypes ==
  ASSUME NEW c \in Calls
  PROVE  /\ DeviceAddr \in Nat /\ CellAddr(c) \in Nat
         /\ c.fn = "I2C_Write" => c.value \in Nat
         /\ c.fn = "I2C_MultipleRead" => c.len \in Nat \ {0}
         /\ Count(c) \in Nat /\ Count(c) >= 5
<1>1. /\ DeviceAddr \in Nat
      /\ \A a \in Addrs : a \in Nat
      /\ \A v \in Values : v \in Nat
      /\ \A n \in Lens : n \in Nat \ {0}
  BY ConstantsAssumption
<1>2. QED
  BY <1>1, CallKinds DEF CellAddr, Count

LEMMA ReadsSeq ==
  ASSUME NEW n \in Nat \ {0}
  PROVE  /\ Reads(n) \in Seq(Function) /\ Len(Reads(n)) = n
         /\ \A k \in 1..n : Reads(n)[k] = I2cRead(IF k = n THEN 0 ELSE 1)
<1>1. \A k \in 1..n : I2cRead(IF k = n THEN 0 ELSE 1) \in Function
  BY FunctionTypes
<1>2. QED
  BY <1>1 DEF Reads

\* Two lists put together, element by element.
LEMMA Cat ==
  ASSUME NEW S, NEW a \in Seq(S), NEW b \in Seq(S)
  PROVE  /\ a \o b \in Seq(S) /\ Len(a \o b) = Len(a) + Len(b)
         /\ \A i \in 1..Len(a) : (a \o b)[i] = a[i]
         /\ \A i \in Len(a) + 1 .. Len(a) + Len(b) : (a \o b)[i] = b[i - Len(a)]
<1>1. a \o b \in Seq(S) 
  OBVIOUS
<1>2. Len(a \o b) = Len(a) + Len(b)
  OBVIOUS
<1>3. \A i \in 1..Len(a) : (a \o b)[i] = a[i]
  OBVIOUS
<1>4. \A i \in Len(a) + 1 .. Len(a) + Len(b) : (a \o b)[i] = b[i - Len(a)]
  OBVIOUS
<1>5. QED
  BY <1>1, <1>2, <1>3, <1>4

\* Three lists of functions.
LEMMA Joined ==
  ASSUME NEW a \in Seq(Function), NEW b \in Seq(Function), NEW c \in Seq(Function)
  PROVE  \E abc \in Seq(Function) :
           /\ abc = (a \o b) \o c
           /\ Len(abc) = Len(a) + Len(b) + Len(c)
           /\ \A i \in 1..Len(a) : abc[i] = a[i]
           /\ \A i \in Len(a) + 1 .. Len(a) + Len(b) : abc[i] = b[i - Len(a)]
           /\ \A i \in Len(a) + Len(b) + 1 .. Len(a) + Len(b) + Len(c) :
                abc[i] = c[i - (Len(a) + Len(b))]
<1>1. PICK ab \in Seq(Function) : ab = a \o b
  BY Cat, Zenon
<1>2. /\ Len(ab) = Len(a) + Len(b)
      /\ \A i \in 1..Len(a) : ab[i] = a[i]
      /\ \A i \in Len(a) + 1 .. Len(a) + Len(b) : ab[i] = b[i - Len(a)]
  BY <1>1, Cat, Zenon
<1>4. /\ ab \o c \in Seq(Function) /\ Len(ab \o c) = Len(ab) + Len(c)
      /\ \A i \in 1..Len(ab) : (ab \o c)[i] = ab[i]
      /\ \A i \in Len(ab) + 1 .. Len(ab) + Len(c) : (ab \o c)[i] = c[i - Len(ab)]
  BY Cat, Zenon
<1>5. /\ Len(a) \in Nat /\ Len(b) \in Nat /\ Len(c) \in Nat
  OBVIOUS
<1>6. PICK abc \in Seq(Function) : abc = ab \o c
  BY <1>4
<1>7. /\ Len(abc) = Len(ab) + Len(c)
      /\ \A i \in 1..Len(ab) : abc[i] = ab[i]
      /\ \A i \in Len(ab) + 1 .. Len(ab) + Len(c) : abc[i] = c[i - Len(ab)]
  BY <1>4, <1>6, Zenon
<1>8. \A i \in 1..Len(a) : abc[i] = a[i]
  BY <1>2, <1>5, <1>7
<1>9. \A i \in Len(a) + 1 .. Len(a) + Len(b) : abc[i] = b[i - Len(a)]
  BY <1>2, <1>5, <1>7
<1>10. /\ Len(abc) = Len(a) + Len(b) + Len(c)
       /\ \A i \in Len(a) + Len(b) + 1 .. Len(a) + Len(b) + Len(c) : abc[i] = c[i - (Len(a) + Len(b))]
  BY <1>2, <1>5, <1>7
<1>11. (a \o b) \o c = abc
  BY <1>1, <1>6
<1>12. QED
  BY <1>8, <1>9, <1>10, <1>11, Zenon

LEMMA Bodies ==
  ASSUME NEW c \in Calls
  PROVE  /\ Body(c) \in Seq(Function) /\ Len(Body(c)) = Count(c)
         /\ \A i \in 1..Count(c) : Body(c)[i] = FunctionAt(c, i)
<1>1. CASE c.fn = "I2C_Write"
  <2>1. Body(c) = <<I2cStart, I2cWrite(DeviceAddr), I2cWrite(c.addr), I2cWrite(c.value),
                    I2cStop>>
    BY <1>1 DEF Body, I2C_Write
  <2>2. c.addr \in Nat /\ c.value \in Nat /\ DeviceAddr \in Nat
    BY <1>1, CallTypes DEF CellAddr
  <2>3. Body(c) \in Seq(Function) /\ Len(Body(c)) = 5
    BY <2>1, <2>2, FunctionTypes
  <2>4. \A i \in 1..5 : Body(c)[i] = FunctionAt(c, i)
    BY <1>1, <2>1 DEF FunctionAt, Count, CellAddr, FourthOf
  <2>5. QED
    BY <1>1, <2>3, <2>4 DEF Count
<1>2. CASE c.fn = "I2C_Read"
  <2>1. Body(c) = <<I2cStart, I2cWrite(DeviceAddr), I2cWrite(c.addr),
                    I2cStart, I2cWrite(DeviceAddr + 1), I2cRead(0), I2cStop>>
    BY <1>2 DEF Body, I2C_Read
  <2>2. c.addr \in Nat /\ DeviceAddr \in Nat /\ DeviceAddr + 1 \in Nat
    BY <1>2, CallTypes DEF CellAddr
  <2>3. Body(c) \in Seq(Function) /\ Len(Body(c)) = 7
    BY <2>1, <2>2, FunctionTypes
  <2>4. \A i \in 1..7 : Body(c)[i] = FunctionAt(c, i)
    BY <1>2, <2>1 DEF FunctionAt, Count, CellAddr, FourthOf
  <2>5. QED
    BY <1>2, <2>3, <2>4 DEF Count
<1>3. CASE c.fn = "I2C_MultipleRead"
  <2> DEFINE head == <<I2cStart, I2cWrite(DeviceAddr), I2cWrite(0),
                       RestartIfOk, I2cWrite(DeviceAddr + 1)>>
             n == c.len
  <2>1. Body(c) = head \o Reads(n) \o <<I2cStop>>
    BY <1>3 DEF Body, I2C_MultipleRead
  <2>2. n \in Nat \ {0} /\ DeviceAddr \in Nat /\ DeviceAddr + 1 \in Nat
    BY <1>3, CallTypes
  <2>3. head \in Seq(Function) /\ Len(head) = 5
    BY <2>2, FunctionTypes
  <2>4. /\ head[1] = I2cStart /\ head[2] = I2cWrite(DeviceAddr) /\ head[3] = I2cWrite(0)
        /\ head[4] = RestartIfOk /\ head[5] = I2cWrite(DeviceAddr + 1)
    OBVIOUS
  <2>5. /\ Reads(n) \in Seq(Function) /\ Len(Reads(n)) = n
        /\ \A k \in 1..n : Reads(n)[k] = I2cRead(IF k = n THEN 0 ELSE 1)
    BY <2>2, ReadsSeq
  <2>6. <<I2cStop>> \in Seq(Function) /\ Len(<<I2cStop>>) = 1 /\ <<I2cStop>>[1] = I2cStop
    BY FunctionTypes
  <2>7. PICK r \in Seq(Function) : r = Reads(n)
    BY <2>5
  <2>8. PICK s \in Seq(Function) : s = <<I2cStop>>
    BY <2>6
  <2>9. PICK h \in Seq(Function) : h = head
    BY <2>3
  <2>10. PICK b \in Seq(Function) :
           /\ b = (h \o r) \o s
           /\ Len(b) = Len(h) + Len(r) + Len(s)
           /\ \A i \in 1..Len(h) : b[i] = h[i]
           /\ \A i \in Len(h) + 1 .. Len(h) + Len(r) : b[i] = r[i - Len(h)]
           /\ \A i \in Len(h) + Len(r) + 1 .. Len(h) + Len(r) + Len(s) :
                b[i] = s[i - (Len(h) + Len(r))]
    BY Joined, Zenon
  <2>11. Body(c) = b
    BY <2>1, <2>7, <2>8, <2>9, <2>10, Zenon
  <2>12. Len(h) = 5 /\ Len(r) = n /\ Len(s) = 1
    BY <2>3, <2>5, <2>6, <2>7, <2>8, <2>9, Zenon
  <2>13. \A k \in 1..n : r[k] = I2cRead(IF k = n THEN 0 ELSE 1)
    BY <2>5, <2>7, Zenon
  <2>14. s[1] = I2cStop
    BY <2>6, <2>8, Zenon
  <2>15. /\ h[1] = I2cStart /\ h[2] = I2cWrite(DeviceAddr) /\ h[3] = I2cWrite(0)
         /\ h[4] = RestartIfOk /\ h[5] = I2cWrite(DeviceAddr + 1)
    BY <2>4, <2>9, Zenon
  <2>16. Count(c) = 6 + n
    BY <1>3 DEF Count
  <2> HIDE DEF head, n
  <2>17. ASSUME NEW i \in 1..(6 + n) PROVE b[i] = FunctionAt(c, i)
    <3>1. CASE i <= 5
      <4>1. i = 1 \/ i = 2 \/ i = 3 \/ i = 4 \/ i = 5
        BY <2>2, <3>1
      <4>2. i # 6 + n
        BY <2>2, <3>1
      <4>3. FunctionAt(c, i) = h[i]
        BY <1>3, <2>15, <2>16, <4>1, <4>2 DEF FunctionAt, CellAddr, FourthOf
      <4>4. b[i] = h[i]
        <5>1. i \in 1..Len(h)
          BY <2>2, <2>12, <3>1
        <5>2. QED
          BY <2>10, <5>1, Zenon
      <4>5. QED
        BY <4>3, <4>4
    <3>2. CASE i > 5 /\ i <= 5 + n
      <4>1. i - 5 \in 1..n
        BY <2>2, <3>2
      <4>2. b[i] = r[i - 5]
        <5>1. Len(h) = 5 /\ i \in Len(h) + 1 .. Len(h) + Len(r)
          BY <2>2, <2>12, <3>2
        <5>2. b[i] = r[i - Len(h)]
          BY <2>10, <5>1, Zenon
        <5>3. QED
          BY <5>1, <5>2, Zenon
      <4>3. b[i] = I2cRead(IF i - 5 = n THEN 0 ELSE 1)
        <5>1. i - 5 \in 1..n
          BY <4>1
        <5>2. r[i - 5] = I2cRead(IF i - 5 = n THEN 0 ELSE 1)
          BY <2>13, <5>1, Zenon
        <5>3. QED
          BY <4>2, <5>2, Zenon
      <4>4. i # 1 /\ i # 2 /\ i # 3 /\ i # 4 /\ i # 5 /\ i # 6 + n
        BY <2>2, <3>2
      <4>5. i # Count(c)
        BY <2>16, <4>4
      <4>6. FunctionAt(c, i) = I2cRead(IF i = Count(c) - 1 THEN 0 ELSE 1)
        BY <4>4, <4>5, Zenon DEF FunctionAt
      <4>7. (i - 5 = n) = (i = Count(c) - 1)
        BY <2>2, <2>16
      <4>8. QED
        BY <4>3, <4>6, <4>7
    <3>3. CASE i > 5 + n
      <4>1. i = 6 + n /\ i # 1 /\ i - (5 + n) = 1 /\ i \in 5 + n + 1 .. 5 + n + 1
        BY <2>2, <3>3
      <4>2. b[i] = I2cStop
        <5>1. Len(h) + Len(r) = 5 + n /\ i \in Len(h) + Len(r) + 1 .. Len(h) + Len(r) + Len(s)
          BY <2>2, <2>12, <4>1
        <5>2. b[i] = s[i - (Len(h) + Len(r))]
          BY <2>10, <5>1, Zenon
        <5>3. QED
          BY <2>14, <4>1, <5>1, <5>2, Zenon
      <4>3. FunctionAt(c, i) = I2cStop
        BY <2>16, <4>1 DEF FunctionAt
      <4>4. QED
        BY <4>2, <4>3
    <3>4. QED
      BY <2>2, <3>1, <3>2, <3>3
  <2>18. Len(b) = 6 + n
    BY <2>2, <2>12, <2>10
  <2>19. QED
    BY <2>11, <2>16, <2>17, <2>18
<1>4. QED
  BY <1>1, <1>2, <1>3, CallKinds

\* What the i-th function of a call is.
KindAt(c, i) ==
  IF i = 1 \/ (i = 4 /\ c.fn # "I2C_Write") THEN "i2c_start"
  ELSE IF i = Count(c) THEN "i2c_stop"
  ELSE IF i <= 5 THEN "i2c_write" ELSE "i2c_read"

LEMMA Kinds ==
  ASSUME NEW c \in Calls, NEW i \in 1..Count(c)
  PROVE  /\ FunctionAt(c, i) \in Function
         /\ FunctionAt(c, i).fn = KindAt(c, i)
         /\ FunctionAt(c, i).ifOk = (i # 1 /\ i # Count(c) /\ ~(c.fn = "I2C_Read" /\ i = 4))
<1>1. /\ DeviceAddr \in Nat /\ DeviceAddr + 1 \in Nat /\ CellAddr(c) \in Nat
      /\ c.fn = "I2C_Write" => c.value \in Nat
      /\ Count(c) \in Nat /\ Count(c) >= 5
  BY CallTypes
<1>2. i \in Nat /\ i >= 1 /\ i <= Count(c)
  BY <1>1
<1>3. \/ c.fn = "I2C_Write" /\ Count(c) = 5
      \/ c.fn = "I2C_Read" /\ Count(c) = 7
      \/ c.fn = "I2C_MultipleRead" /\ Count(c) > 6
  BY CallKinds, CallTypes DEF Count
<1>4. FunctionAt(c, i) \in Function
  <2>1. /\ I2cWrite(DeviceAddr) \in Function /\ I2cWrite(CellAddr(c)) \in Function
        /\ I2cWrite(DeviceAddr + 1) \in Function
        /\ I2cRead(0) \in Function /\ I2cRead(1) \in Function
    BY <1>1, FunctionTypes
  <2>2. FourthOf(c) \in Function
    BY <1>1, FunctionTypes DEF FourthOf
  <2>3. I2cRead(IF i = Count(c) - 1 THEN 0 ELSE 1) \in Function
    BY <2>1
  <2>4. QED
    BY <2>1, <2>2, <2>3, FunctionTypes DEF FunctionAt
<1>5. CASE i = 1
  BY <1>4, <1>5 DEF FunctionAt, KindAt, I2cStart
<1>6. CASE i = Count(c)
  <2>1. i # 1 /\ ~(i = 4)
    BY <1>1, <1>6
  <2>2. FunctionAt(c, i) = I2cStop
    BY <1>6, <2>1 DEF FunctionAt
  <2>3. KindAt(c, i) = "i2c_stop"
    BY <1>6, <2>1 DEF KindAt
  <2>4. I2cStop.fn = "i2c_stop" /\ I2cStop.ifOk = FALSE
    BY DEF I2cStop
  <2>5. QED
    BY <1>4, <1>6, <2>2, <2>3, <2>4
<1>7. CASE i # 1 /\ i # Count(c) /\ (i = 2 \/ i = 3 \/ i = 5)
  <2>1. FunctionAt(c, i).fn = "i2c_write" /\ FunctionAt(c, i).ifOk = TRUE
    BY <1>7 DEF FunctionAt, I2cWrite
  <2>2. KindAt(c, i) = "i2c_write"
    BY <1>7 DEF KindAt
  <2>3. (i # 1 /\ i # Count(c) /\ ~(c.fn = "I2C_Read" /\ i = 4)) = TRUE
    BY <1>7
  <2>4. QED
    BY <1>4, <2>1, <2>2, <2>3
<1>8. CASE i = 4
  <2>1. i # Count(c)
    BY <1>1, <1>8
  <2>2. FunctionAt(c, i) = FourthOf(c)
    BY <1>8, <2>1 DEF FunctionAt
  <2>3. /\ I2cStart.fn = "i2c_start" /\ I2cStart.ifOk = FALSE
        /\ RestartIfOk.fn = "i2c_start" /\ RestartIfOk.ifOk = TRUE
        /\ \A b : I2cWrite(b).fn = "i2c_write" /\ I2cWrite(b).ifOk = TRUE
    BY DEF I2cStart, RestartIfOk, I2cWrite
  <2>4. i # 1 /\ i <= 5
    BY <1>8
  <2>5. CASE c.fn = "I2C_Write"
    BY <1>4, <1>8, <2>1, <2>2, <2>3, <2>4, <2>5 DEF FourthOf, KindAt
  <2>6. CASE c.fn = "I2C_Read"
    BY <1>4, <1>8, <2>1, <2>2, <2>3, <2>4, <2>6 DEF FourthOf, KindAt
  <2>7. CASE c.fn = "I2C_MultipleRead"
    BY <1>4, <1>8, <2>1, <2>2, <2>3, <2>4, <2>7 DEF FourthOf, KindAt
  <2>8. QED
    BY <1>3, <2>5, <2>6, <2>7, CallKinds
<1>9. CASE i > 5 /\ i # Count(c)
  <2>1. i # 1 /\ i # 2 /\ i # 3 /\ i # 4 /\ i # 5 /\ ~(i <= 5)
    BY <1>2, <1>9
  <2>2. FunctionAt(c, i).fn = "i2c_read" /\ FunctionAt(c, i).ifOk = TRUE
    BY <1>9, <2>1 DEF FunctionAt, I2cRead
  <2>3. KindAt(c, i) = "i2c_read"
    BY <1>9, <2>1 DEF KindAt
  <2>4. QED
    BY <1>4, <1>9, <2>1, <2>2, <2>3
<1>10. QED
  BY <1>2, <1>5, <1>6, <1>7, <1>8, <1>9

\* What a function is called with.
LEMMA Arguments ==
  ASSUME NEW c \in Calls, NEW i \in 1..Count(c)
  PROVE  /\ (i = 2) => FunctionAt(c, i).arg = DeviceAddr
         /\ (i = 3) => FunctionAt(c, i).arg = CellAddr(c)
         /\ (i = 4 /\ c.fn = "I2C_Write") => FunctionAt(c, i).arg = c.value
         /\ (i = 5 /\ c.fn # "I2C_Write") => FunctionAt(c, i).arg = DeviceAddr + 1
         /\ (KindAt(c, i) = "i2c_read") =>
              FunctionAt(c, i).arg = IF i = Count(c) - 1 THEN 0 ELSE 1
<1>1. Count(c) \in Nat /\ Count(c) >= 5 /\ i \in Nat
  BY CallTypes
<1>2. \/ c.fn = "I2C_Write" /\ Count(c) = 5
      \/ c.fn # "I2C_Write" /\ Count(c) > 5
  BY CallKinds, CallTypes DEF Count
<1>3. CASE i = 2 \/ i = 3 \/ i = 4 \/ i = 5
  <2>1. KindAt(c, i) # "i2c_read"
    BY <1>1, <1>3 DEF KindAt
  <2>2. ASSUME i # 5 \/ c.fn # "I2C_Write" PROVE i # Count(c)
    BY <1>1, <1>2, <1>3, <2>2
  <2>3. (i = 2) => FunctionAt(c, i).arg = DeviceAddr
    BY <2>2 DEF FunctionAt, I2cWrite
  <2>4. (i = 3) => FunctionAt(c, i).arg = CellAddr(c)
    BY <2>2 DEF FunctionAt, I2cWrite
  <2>5. (i = 4 /\ c.fn = "I2C_Write") => FunctionAt(c, i).arg = c.value
    BY <2>2 DEF FunctionAt, FourthOf, I2cWrite
  <2>6. (i = 5 /\ c.fn # "I2C_Write") => FunctionAt(c, i).arg = DeviceAddr + 1
    BY <2>2 DEF FunctionAt, I2cWrite
  <2>7. QED
    BY <2>1, <2>3, <2>4, <2>5, <2>6
<1>4. CASE i # 2 /\ i # 3 /\ i # 4 /\ i # 5
  BY <1>4 DEF KindAt, FunctionAt, I2cRead
<1>5. QED
  BY <1>3, <1>4
-----------------------------------------------------------------------------
(* Where the program is.                                                    *)

LEMMA NoCallAside == NoCall \notin Calls
BY DEF NoCall, Calls

\* The part of the type invariant that says where the program is.
Where ==
  /\ call \in Calls \cup {NoCall} /\ ok \in BOOLEAN
  /\ index \in 1..(Len(Body(call)) + 1)

LEMMA Running ==
  ASSUME Where, ~Returned
  PROVE  /\ call \in Calls /\ Count(call) \in Nat /\ Count(call) >= 5
         /\ index \in Nat /\ index >= 1 /\ index <= Count(call)
         /\ Current = FunctionAt(call, index) /\ Current \in Function
         /\ Current.fn = KindAt(call, index)
<1>1. call \in Calls
  <2>1. CASE call = NoCall
    <3>1. Len(Body(call)) = 0
      BY <2>1 DEF NoCall, Body
    <3>2. QED
      BY <3>1 DEF Where, Returned
  <2>2. QED
    BY <2>1 DEF Where
<1>2. Len(Body(call)) = Count(call) /\ Count(call) \in Nat /\ Count(call) >= 5
  BY <1>1, Bodies, CallTypes
<1>3. index \in Nat /\ index >= 1 /\ index <= Count(call)
  BY <1>2 DEF Where, Returned
<1>4. index \in 1..Count(call)
  BY <1>2, <1>3
<1>5. Current = FunctionAt(call, index)
  BY <1>1, <1>4, Bodies DEF Current
<1>6. QED
  BY <1>1, <1>2, <1>3, <1>4, <1>5, Kinds

LEMMA Resting ==
  ASSUME Where, Returned, call # NoCall
  PROVE  call \in Calls /\ Count(call) \in Nat /\ Count(call) >= 5 /\ index = Count(call) + 1
<1>1. call \in Calls
  BY DEF Where
<1>2. Len(Body(call)) = Count(call) /\ Count(call) \in Nat /\ Count(call) >= 5
  BY <1>1, Bodies, CallTypes
<1>3. QED
  BY <1>1, <1>2 DEF Where, Returned

\* The function that comes next: the following one, or after a failure the
\* next of those that are called all the same.
Successor(success) ==
  IF success \/ index >= Count(call) - 1 THEN index + 1
  ELSE IF call.fn = "I2C_Read" /\ index <= 3 THEN 4 ELSE Count(call)

LEMMA NextFunction ==
  ASSUME Where, ~Returned, NEW success \in BOOLEAN
  PROVE  NextIndex(success) = Successor(success)
<1> DEFINE S == index + 1 .. Len(Body(call)) + 1
           IsNext(n) ==
             /\ n <= Len(Body(call)) => (success \/ ~Body(call)[n].ifOk)
             /\ \A m \in index + 1 .. n - 1 : Body(call)[m].ifOk /\ ~success
           t == Successor(success)
<1>1. /\ call \in Calls /\ Count(call) \in Nat /\ Count(call) >= 5
      /\ index \in Nat /\ index >= 1 /\ index <= Count(call)
      /\ Len(Body(call)) = Count(call)
  BY Running, Bodies
<1>2. /\ call.fn = "I2C_Read" => Count(call) = 7
      /\ t \in index + 1 .. Count(call) + 1
      /\ t > index + 1 => ~success /\ t <= Count(call)
  <2>1. call.fn = "I2C_Read" => Count(call) = 7
    BY DEF Count
  <2>2. CASE success \/ index >= Count(call) - 1
    BY <1>1, <2>1, <2>2 DEF Successor
  <2>3. CASE ~success /\ index < Count(call) - 1
    BY <1>1, <2>1, <2>3 DEF Successor
  <2>4. QED
    BY <1>1, <2>2, <2>3
<1>3. \A n \in 1..Count(call) :
        Body(call)[n].ifOk = (n # 1 /\ n # Count(call) /\ ~(call.fn = "I2C_Read" /\ n = 4))
  BY <1>1, Bodies, Kinds
<1>4. t <= Count(call) => (success \/ ~Body(call)[t].ifOk)
  <2>1. SUFFICES ASSUME ~success, t <= Count(call)
                 PROVE  ~Body(call)[t].ifOk
    OBVIOUS
  <2>2. t = Count(call) \/ (t = 4 /\ call.fn = "I2C_Read")
    <3>1. CASE index >= Count(call) - 1
      <4>1. t = index + 1
        BY <3>1 DEF Successor
      <4>2. QED
        BY <1>1, <2>1, <3>1, <4>1
    <3>2. CASE ~(index >= Count(call) - 1)
      BY <2>1, <3>2 DEF Successor
    <3>3. QED
      BY <3>1, <3>2
  <2>3. t \in 1..Count(call)
    BY <1>1, <1>2, <2>1
  <2> HIDE DEF t
  <2>4. QED
    BY <1>3, <2>2, <2>3
<1>5. ASSUME NEW m \in index + 1 .. t - 1 PROVE Body(call)[m].ifOk /\ ~success
  <2>1. m \in Nat /\ m >= index + 1 /\ m < t
    BY <1>1, <1>2, <1>5
  <2>2. t > index + 1 /\ m \in 1..Count(call) /\ m # 1 /\ m # Count(call)
    BY <1>1, <1>2, <2>1
  <2>3. ~success
    BY <1>2, <2>2
  <2>4. ~(index >= Count(call) - 1)
    BY <1>1, <2>1 DEF Successor
  <2>5. ~(call.fn = "I2C_Read" /\ m = 4)
    <3>1. ASSUME call.fn = "I2C_Read", m = 4 PROVE FALSE
      <4>1. index <= 3
        BY <1>1, <2>1, <3>1
      <4>2. t = 4
        BY <2>3, <2>4, <3>1, <4>1 DEF Successor
      <4>3. QED
        BY <2>1, <3>1, <4>2
    <3>2. QED
      BY <3>1
  <2>6. Body(call)[m].ifOk
    BY <1>3, <2>2, <2>5
  <2>7. QED
    BY <2>3, <2>6
<1>6. t \in S /\ IsNext(t)
  BY <1>1, <1>2, <1>4, <1>5
<1>7. ASSUME NEW a \in S, NEW b \in S, IsNext(a), IsNext(b), a < b PROVE FALSE
  <2>1. a \in index + 1 .. b - 1 /\ a <= Len(Body(call))
    BY <1>1, <1>7
  <2>2. QED
    BY <1>7, <2>1
<1>8. NextIndex(success) \in S /\ IsNext(NextIndex(success))
  <2> HIDE DEF t
  <2>1. \E n \in index + 1 .. Len(Body(call)) + 1 :
          /\ n <= Len(Body(call)) => (success \/ ~Body(call)[n].ifOk)
          /\ \A m \in index + 1 .. n - 1 : Body(call)[m].ifOk /\ ~success
    BY <1>6
  <2>2. NextIndex(success) \in index + 1 .. Len(Body(call)) + 1
    BY <2>1 DEF NextIndex
  <2>3. NextIndex(success) <= Len(Body(call)) =>
          (success \/ ~Body(call)[NextIndex(success)].ifOk)
    BY <2>1 DEF NextIndex
  <2>4. \A m \in index + 1 .. NextIndex(success) - 1 : Body(call)[m].ifOk /\ ~success
    BY <2>1 DEF NextIndex
  <2>5. QED
    BY <2>2, <2>3, <2>4
<1> HIDE DEF S, IsNext, t
<1>9. PICK n \in S : IsNext(n) /\ n = NextIndex(success)
  BY <1>8
<1>10. n \in Nat /\ t \in Nat
  BY <1>1, <1>2 DEF S
<1>11. ~(n < t) /\ ~(t < n)
  BY <1>6, <1>7, <1>9
<1>12. n = t
  BY <1>10, <1>11
<1>13. QED
  BY <1>9, <1>12 DEF t
-----------------------------------------------------------------------------
(* What a step of each of the i2c_ functions is.                            *)

Goes(l)  == line' = l /\ bit' = bit /\ index' = index
Loops(l) == bit < Bits - 1 /\ line' = l /\ bit' = bit + 1 /\ index' = index
Leaves   == line' = 1 /\ bit' = 0 /\ index' = Successor(ok)

StartSteps ==
  /\ UNCHANGED <<call, ok, result, data, resets>>
  /\ \/ line = 1 /\ SetSda(TRUE, out) /\ Goes(2)
     \/ line = 2 /\ SetSda(dir, TRUE) /\ Goes(3)
     \/ line = 3 /\ SetScl(TRUE) /\ Goes(4)
     \/ line = 4 /\ SetSda(dir, FALSE) /\ Goes(5)
     \/ line = 5 /\ SetScl(FALSE) /\ Leaves

StopSteps ==
  /\ UNCHANGED <<call, ok, result, data, resets>>
  /\ \/ line = 1 /\ SetSda(TRUE, out) /\ Goes(2)
     \/ line = 2 /\ SetSda(dir, FALSE) /\ Goes(3)
     \/ line = 3 /\ SetScl(TRUE) /\ Goes(4)
     \/ line = 4 /\ SetSda(dir, TRUE) /\ Leaves

WriteSteps ==
  /\ UNCHANGED <<call, result, data, resets>>
  /\ ok' = IF line = 8 THEN ~Sda ELSE ok
  /\ \/ line = 1 /\ SetSda(TRUE, out) /\ Goes(2)
     \/ line = 2 /\ SetScl(FALSE) /\ Goes(3)
     \/ line = 3 /\ SetSda(dir, Device!BitOf(Current.arg, bit)) /\ Goes(4)
     \/ line = 4 /\ SetScl(TRUE) /\ Goes(5)
     \/ line = 5 /\ SetScl(FALSE) /\ Loops(2)
     \/ line = 5 /\ SetScl(FALSE) /\ bit = Bits - 1 /\ Goes(6)
     \/ line = 6 /\ SetSda(FALSE, out) /\ Goes(7)
     \/ line = 7 /\ SetScl(TRUE) /\ Goes(8)
     \/ line = 8 /\ UNCHANGED <<lineVars, deviceVars>> /\ Goes(9)
     \/ line = 9 /\ SetScl(FALSE) /\ Leaves

ReadSteps ==
  /\ UNCHANGED <<call, ok, resets>>
  /\ data' = IF line = 4 THEN Device!WithBit(data, Sda) ELSE IF line = 11 THEN 0 ELSE data
  /\ result' = IF line = 11 THEN Append(result, data) ELSE result
  /\ \/ line = 1 /\ SetSda(FALSE, out) /\ Goes(2)
     \/ line = 2 /\ SetScl(FALSE) /\ Goes(3)
     \/ line = 3 /\ SetScl(TRUE) /\ Goes(4)
     \/ line = 4 /\ UNCHANGED <<lineVars, deviceVars>> /\ Goes(5)
     \/ line = 5 /\ SetScl(FALSE) /\ Loops(3)
     \/ line = 5 /\ SetScl(FALSE) /\ bit = Bits - 1 /\ Goes(6)
     \/ line = 6 /\ SetScl(FALSE) /\ Goes(7)
     \/ line = 7 /\ SetSda(TRUE, out) /\ Goes(8)
     \/ line = 8 /\ SetSda(dir, Current.arg = 0) /\ Goes(9)
     \/ line = 9 /\ SetScl(TRUE) /\ Goes(10)
     \/ line = 10 /\ SetScl(FALSE) /\ Goes(11)
     \/ line = 11 /\ SetSda(dir, FALSE) /\ Leaves

LEMMA LineLists ==
  /\ Lines["i2c_start"] = StartLines /\ Len(StartLines) = 5
  /\ Lines["i2c_stop"] = StopLines /\ Len(StopLines) = 4
  /\ Lines["i2c_write"] = WriteLines /\ Len(WriteLines) = 9
  /\ Lines["i2c_read"] = ReadLines /\ Len(ReadLines) = 11
  /\ LoopFirst["i2c_start"] = 0 /\ LoopFirst["i2c_stop"] = 0
  /\ LoopFirst["i2c_write"] = 2 /\ LoopFirst["i2c_read"] = 3
  /\ LoopLast["i2c_start"] = 0 /\ LoopLast["i2c_stop"] = 0
  /\ LoopLast["i2c_write"] = 5 /\ LoopLast["i2c_read"] = 5
<1>1. /\ Lines["i2c_start"] = StartLines /\ Lines["i2c_stop"] = StopLines
      /\ Lines["i2c_write"] = WriteLines /\ Lines["i2c_read"] = ReadLines
  BY DEF Lines
<1>2. /\ Len(StartLines) = 5 /\ Len(StopLines) = 4
      /\ Len(WriteLines) = 9 /\ Len(ReadLines) = 11
  BY DEF StartLines, StopLines, WriteLines, ReadLines
<1>3. QED
  BY <1>1, <1>2 DEF LoopFirst, LoopLast

\* Where the access is not the last of its function, the loop is the only
\* other way.
LEMMA Advances ==
  ASSUME Where, ~Returned, line \in Nat, Advance(ok)
  PROVE  /\ LastLine => Leaves \/ line = LoopLast[Current.fn]
         /\ (~LastLine /\ line # LoopLast[Current.fn]) => Goes(line + 1)
         /\ (~LastLine /\ line = LoopLast[Current.fn]) =>
              \/ Loops(LoopFirst[Current.fn])
              \/ bit = Bits - 1 /\ Goes(line + 1)
         /\ (LastLine /\ line # LoopLast[Current.fn]) => Leaves
<1>1. NextIndex(ok) = Successor(ok)
  BY NextFunction DEF Where
<1>2. QED
  BY <1>1 DEF Advance, Goes, Loops, Leaves

LEMMA StartMoves ==
  ASSUME Where, Start, line \in 1..5
  PROVE  StartSteps
<1>1. ~Returned /\ Current.fn = "i2c_start" /\ WritePort /\ Advance(ok)
  BY DEF Start
<1>2. /\ Access = StartLines[line] /\ line \in Nat /\ line # LoopLast[Current.fn]
      /\ (line = 5) => LastLine
      /\ (line # 5) => ~LastLine
  BY <1>1, LineLists DEF Access, LastLine
<1>3. (line = 5) => Leaves
  BY <1>1, <1>2, Advances, Zenon
<1>4. (line # 5) => Goes(line + 1)
  BY <1>1, <1>2, Advances, Zenon
<1>5. CASE line = 1
  <2>1. Access = "sda_out" /\ Goes(2)
    BY <1>2, <1>4, <1>5 DEF StartLines
  <2>2. QED
    BY <1>1, <1>5, <2>1 DEF Start, StartSteps, WritePort
<1>6. CASE line = 2
  <2>1. Access = "sda_high" /\ Goes(3)
    BY <1>2, <1>4, <1>6 DEF StartLines
  <2>2. QED
    BY <1>1, <1>6, <2>1 DEF Start, StartSteps, WritePort
<1>7. CASE line = 3
  <2>1. Access = "scl_high" /\ Goes(4)
    BY <1>2, <1>4, <1>7 DEF StartLines
  <2>2. QED
    BY <1>1, <1>7, <2>1 DEF Start, StartSteps, WritePort
<1>8. CASE line = 4
  <2>1. Access = "sda_low" /\ Goes(5)
    BY <1>2, <1>4, <1>8 DEF StartLines
  <2>2. QED
    BY <1>1, <1>8, <2>1 DEF Start, StartSteps, WritePort
<1>9. CASE line = 5
  <2>1. Access = "scl_low"
    BY <1>2, <1>9 DEF StartLines
  <2>2. QED
    BY <1>1, <1>3, <1>9, <2>1 DEF Start, StartSteps, WritePort
<1>10. QED
  BY <1>5, <1>6, <1>7, <1>8, <1>9

LEMMA StopMoves ==
  ASSUME Where, Stop, line \in 1..4
  PROVE  StopSteps
<1>1. ~Returned /\ Current.fn = "i2c_stop" /\ WritePort /\ Advance(ok)
  BY DEF Stop
<1>2. /\ Access = StopLines[line] /\ line \in Nat /\ line # LoopLast[Current.fn]
      /\ (line = 4) => LastLine
      /\ (line # 4) => ~LastLine
  BY <1>1, LineLists DEF Access, LastLine
<1>3. (line = 4) => Leaves
  BY <1>1, <1>2, Advances, Zenon
<1>4. (line # 4) => Goes(line + 1)
  BY <1>1, <1>2, Advances, Zenon
<1>5. CASE line = 1
  <2>1. Access = "sda_out" /\ Goes(2)
    BY <1>2, <1>4, <1>5 DEF StopLines
  <2>2. QED
    BY <1>1, <1>5, <2>1 DEF Stop, StopSteps, WritePort
<1>6. CASE line = 2
  <2>1. Access = "sda_low" /\ Goes(3)
    BY <1>2, <1>4, <1>6 DEF StopLines
  <2>2. QED
    BY <1>1, <1>6, <2>1 DEF Stop, StopSteps, WritePort
<1>7. CASE line = 3
  <2>1. Access = "scl_high" /\ Goes(4)
    BY <1>2, <1>4, <1>7 DEF StopLines
  <2>2. QED
    BY <1>1, <1>7, <2>1 DEF Stop, StopSteps, WritePort
<1>8. CASE line = 4
  <2>1. Access = "sda_high"
    BY <1>2, <1>8 DEF StopLines
  <2>2. QED
    BY <1>1, <1>3, <1>8, <2>1 DEF Stop, StopSteps, WritePort
<1>9. QED
  BY <1>5, <1>6, <1>7, <1>8

LEMMA WriteMoves ==
  ASSUME Where, WriteByte, line \in 1..9
  PROVE  WriteSteps
<1>1. ~Returned /\ Current.fn = "i2c_write" /\ (WritePort \/ ReadPort) /\ Advance(ok)
  BY DEF WriteByte
<1>2. /\ Access = WriteLines[line] /\ line \in Nat
      /\ LoopFirst[Current.fn] = 2 /\ LoopLast[Current.fn] = 5
      /\ (line = 9) => LastLine /\ line # LoopLast[Current.fn]
      /\ (line # 9 /\ line # 5) => ~LastLine /\ line # LoopLast[Current.fn]
      /\ (line = 5) => ~LastLine /\ line = LoopLast[Current.fn]
  BY <1>1, LineLists DEF Access, LastLine
<1>3. (line = 9) => Leaves
  BY <1>1, <1>2, Advances, Zenon
<1>4. (line # 9 /\ line # 5) => Goes(line + 1)
  BY <1>1, <1>2, Advances, Zenon
<1>5. (line = 5) => Loops(2) \/ (bit = Bits - 1 /\ Goes(6))
  <2>1. (line = 5) => Loops(LoopFirst[Current.fn]) \/ (bit = Bits - 1 /\ Goes(line + 1))
    BY <1>1, <1>2, Advances, Zenon
  <2>2. QED
    BY <1>2, <2>1
<1>6. /\ UNCHANGED <<call, result, data, resets>>
      /\ ok' = IF line = 8 THEN ~Sda ELSE ok
  <2>1. (Access = "get_ack") = (line = 8)
    BY <1>2 DEF WriteLines
  <2>2. QED
    BY <2>1 DEF WriteByte
<1>7. CASE line = 1
  <2>1. Access = "sda_out" /\ Goes(2)
    BY <1>2, <1>4, <1>7 DEF WriteLines
  <2>2. QED
    BY <1>1, <1>6, <1>7, <2>1 DEF WriteSteps, WritePort, ReadPort
<1>8. CASE line = 2
  <2>1. Access = "scl_low" /\ Goes(3)
    BY <1>2, <1>4, <1>8 DEF WriteLines
  <2>2. QED
    BY <1>1, <1>6, <1>8, <2>1 DEF WriteSteps, WritePort, ReadPort
<1>9. CASE line = 3
  <2>1. Access = "sda_bit" /\ Goes(4)
    BY <1>2, <1>4, <1>9 DEF WriteLines
  <2>2. QED
    BY <1>1, <1>6, <1>9, <2>1 DEF WriteSteps, WritePort, ReadPort
<1>10. CASE line = 4
  <2>1. Access = "scl_high" /\ Goes(5)
    BY <1>2, <1>4, <1>10 DEF WriteLines
  <2>2. QED
    BY <1>1, <1>6, <1>10, <2>1 DEF WriteSteps, WritePort, ReadPort
<1>11. CASE line = 5
  <2>1. Access = "scl_low"
    BY <1>2, <1>4, <1>11 DEF WriteLines
  <2>2. QED
    BY <1>1, <1>5, <1>6, <1>11, <2>1 DEF WriteSteps, WritePort, ReadPort
<1>12. CASE line = 6
  <2>1. Access = "sda_in" /\ Goes(7)
    BY <1>2, <1>4, <1>12 DEF WriteLines
  <2>2. QED
    BY <1>1, <1>6, <1>12, <2>1 DEF WriteSteps, WritePort, ReadPort
<1>13. CASE line = 7
  <2>1. Access = "scl_high" /\ Goes(8)
    BY <1>2, <1>4, <1>13 DEF WriteLines
  <2>2. QED
    BY <1>1, <1>6, <1>13, <2>1 DEF WriteSteps, WritePort, ReadPort
<1>14. CASE line = 8
  <2>1. Access = "get_ack" /\ Goes(9)
    BY <1>2, <1>4, <1>14 DEF WriteLines
  <2>2. QED
    BY <1>1, <1>6, <1>14, <2>1 DEF WriteSteps, WritePort, ReadPort
<1>15. CASE line = 9
  <2>1. Access = "scl_low"
    BY <1>2, <1>4, <1>15 DEF WriteLines
  <2>2. QED
    BY <1>1, <1>3, <1>6, <1>15, <2>1 DEF WriteSteps, WritePort, ReadPort
<1>16. QED
  BY <1>7, <1>8, <1>9, <1>10, <1>11, <1>12, <1>13, <1>14, <1>15

LEMMA ReadMoves ==
  ASSUME Where, ReadByte, line \in 1..11
  PROVE  ReadSteps
<1>1. ~Returned /\ Current.fn = "i2c_read" /\ (WritePort \/ ReadPort) /\ Advance(ok)
  BY DEF ReadByte
<1>2. /\ Access = ReadLines[line] /\ line \in Nat
      /\ LoopFirst[Current.fn] = 3 /\ LoopLast[Current.fn] = 5
      /\ (line = 11) => LastLine /\ line # LoopLast[Current.fn]
      /\ (line # 11 /\ line # 5) => ~LastLine /\ line # LoopLast[Current.fn]
      /\ (line = 5) => ~LastLine /\ line = LoopLast[Current.fn]
  BY <1>1, LineLists DEF Access, LastLine
<1>3. (line = 11) => Leaves
  BY <1>1, <1>2, Advances, Zenon
<1>4. (line # 11 /\ line # 5) => Goes(line + 1)
  BY <1>1, <1>2, Advances, Zenon
<1>5. (line = 5) => Loops(3) \/ (bit = Bits - 1 /\ Goes(6))
  <2>1. (line = 5) => Loops(LoopFirst[Current.fn]) \/ (bit = Bits - 1 /\ Goes(line + 1))
    BY <1>1, <1>2, Advances, Zenon
  <2>2. QED
    BY <1>2, <2>1
<1>6. /\ UNCHANGED <<call, ok, resets>>
      /\ data' = IF line = 4 THEN Device!WithBit(data, Sda) ELSE IF line = 11 THEN 0 ELSE data
      /\ result' = IF line = 11 THEN Append(result, data) ELSE result
  <2>1. (line = 4) => Access = "get_bit"
    BY <1>2 DEF ReadLines
  <2>2. (line # 4) => Access # "get_bit"
    BY <1>2 DEF ReadLines
  <2>3. ((line = 11) => LastLine) /\ ((line # 11) => ~LastLine)
    BY <1>2
  <2>4. QED
    BY <2>1, <2>2, <2>3 DEF ReadByte
<1>7. CASE line = 1
  <2>1. Access = "sda_in" /\ Goes(2)
    BY <1>2, <1>4, <1>7 DEF ReadLines
  <2>2. QED
    BY <1>1, <1>6, <1>7, <2>1 DEF ReadSteps, WritePort, ReadPort
<1>8. CASE line = 2
  <2>1. Access = "scl_low" /\ Goes(3)
    BY <1>2, <1>4, <1>8 DEF ReadLines
  <2>2. QED
    BY <1>1, <1>6, <1>8, <2>1 DEF ReadSteps, WritePort, ReadPort
<1>9. CASE line = 3
  <2>1. Access = "scl_high" /\ Goes(4)
    BY <1>2, <1>4, <1>9 DEF ReadLines
  <2>2. QED
    BY <1>1, <1>6, <1>9, <2>1 DEF ReadSteps, WritePort, ReadPort
<1>10. CASE line = 4
  <2>1. Access = "get_bit" /\ Goes(5)
    BY <1>2, <1>4, <1>10 DEF ReadLines
  <2>2. QED
    BY <1>1, <1>6, <1>10, <2>1 DEF ReadSteps, WritePort, ReadPort
<1>11. CASE line = 5
  <2>1. Access = "scl_low"
    BY <1>2, <1>4, <1>11 DEF ReadLines
  <2>2. QED
    BY <1>1, <1>5, <1>6, <1>11, <2>1 DEF ReadSteps, WritePort, ReadPort
<1>12. CASE line = 6
  <2>1. Access = "scl_low" /\ Goes(7)
    BY <1>2, <1>4, <1>12 DEF ReadLines
  <2>2. QED
    BY <1>1, <1>6, <1>12, <2>1 DEF ReadSteps, WritePort, ReadPort
<1>13. CASE line = 7
  <2>1. Access = "sda_out" /\ Goes(8)
    BY <1>2, <1>4, <1>13 DEF ReadLines
  <2>2. QED
    BY <1>1, <1>6, <1>13, <2>1 DEF ReadSteps, WritePort, ReadPort
<1>14. CASE line = 8
  <2>1. Access = "sda_ack" /\ Goes(9)
    BY <1>2, <1>4, <1>14 DEF ReadLines
  <2>2. QED
    BY <1>1, <1>6, <1>14, <2>1 DEF ReadSteps, WritePort, ReadPort
<1>15. CASE line = 9
  <2>1. Access = "scl_high" /\ Goes(10)
    BY <1>2, <1>4, <1>15 DEF ReadLines
  <2>2. QED
    BY <1>1, <1>6, <1>15, <2>1 DEF ReadSteps, WritePort, ReadPort
<1>16. CASE line = 10
  <2>1. Access = "scl_low" /\ Goes(11)
    BY <1>2, <1>4, <1>16 DEF ReadLines
  <2>2. QED
    BY <1>1, <1>6, <1>16, <2>1 DEF ReadSteps, WritePort, ReadPort
<1>17. CASE line = 11
  <2>1. Access = "sda_low"
    BY <1>2, <1>4, <1>17 DEF ReadLines
  <2>2. QED
    BY <1>1, <1>3, <1>6, <1>17, <2>1 DEF ReadSteps, WritePort, ReadPort
<1>18. QED
  BY <1>7, <1>8, <1>9, <1>10, <1>11, <1>12, <1>13, <1>14, <1>15, <1>16, <1>17
-----------------------------------------------------------------------------
(* The line of the program, the bit of the byte and the success so far.     *)

Position ==
  /\ \/ Current.fn = "i2c_start" /\ line \in 1..5 /\ bit = 0
     \/ Current.fn = "i2c_stop" /\ line \in 1..4 /\ bit = 0
     \/ /\ Current.fn = "i2c_write" /\ line \in 1..9
        /\ line < 2 => bit = 0
        /\ line > 5 => bit = Bits - 1
     \/ /\ Current.fn = "i2c_read" /\ line \in 1..11
        /\ line < 3 => bit = 0
        /\ line > 5 => bit = Bits - 1
  /\ (index = 1 \/ Current.ifOk) => ok \/ (Current.fn = "i2c_write" /\ line = 9)

Flow ==
  /\ Where
  /\ scl \in BOOLEAN /\ dir \in BOOLEAN /\ out \in BOOLEAN
  /\ line \in Nat /\ bit \in 0..(Bits - 1)
  /\ ~Returned => Position

LEMMA SamePlace ==
  ASSUME Where, ~Returned, call' = call, index' = index, ok' \in BOOLEAN
  PROVE  Where' /\ ~Returned' /\ Current' = Current
BY DEF Where, Returned, Current

LEMMA NextPlace ==
  ASSUME Where, ~Returned, call' = call, ok' = ok, Leaves
  PROVE  /\ Where' /\ index' \in Nat /\ index' >= 2
         /\ Current.fn = "i2c_stop" => Returned' /\ index' = Count(call) + 1
         /\ Current.fn # "i2c_stop" =>
              /\ ~Returned' /\ index' \in 1..Count(call)
              /\ Current' = FunctionAt(call, index') /\ Current' \in Function
              /\ Current'.fn = KindAt(call, index')
              /\ Current'.ifOk => ok
<1>1. /\ call \in Calls /\ Count(call) \in Nat /\ Count(call) >= 5
      /\ index \in Nat /\ index >= 1 /\ index <= Count(call)
      /\ Current.fn = KindAt(call, index) /\ Len(Body(call)) = Count(call)
  BY Running, Bodies
<1>2. call.fn = "I2C_Read" => Count(call) = 7
  BY DEF Count
<1>3. (Current.fn = "i2c_stop") = (index = Count(call))
  BY <1>1, <1>2, CallKinds DEF KindAt, Count
<1>4. index' = Successor(ok) /\ ok \in BOOLEAN
  BY DEF Leaves, Where
<1>5. index' \in Nat /\ index' >= 2 /\ index' <= Count(call) + 1
  <2>1. CASE ok \/ index >= Count(call) - 1
    BY <1>1, <1>4, <2>1 DEF Successor
  <2>2. CASE ~ok /\ index < Count(call) - 1
    BY <1>1, <1>4, <2>2 DEF Successor
  <2>3. QED
    BY <1>1, <2>1, <2>2
<1>6. Where' /\ (Returned' = (index' > Count(call)))
  BY <1>1, <1>5 DEF Where, Returned
<1>7. CASE Current.fn = "i2c_stop"
  <2>1. index' = Count(call) + 1
    BY <1>1, <1>3, <1>4, <1>7 DEF Successor
  <2>2. index' > Count(call)
    BY <1>1, <2>1
  <2>3. Where' /\ Returned'
    BY <1>6, <2>2
  <2>4. index' \in Nat /\ index' >= 2
    BY <1>5
  <2>5. QED
    BY <1>7, <2>1, <2>3, <2>4, Zenon
<1>8. CASE Current.fn # "i2c_stop"
  <2>1. index < Count(call)
    BY <1>1, <1>3, <1>8
  <2>2. index' \in 1..Count(call) /\ ~(index' > Count(call))
    <3>1. CASE ok \/ index >= Count(call) - 1
      BY <1>1, <1>4, <2>1, <3>1 DEF Successor
    <3>2. CASE ~ok /\ index < Count(call) - 1
      BY <1>1, <1>4, <2>1, <3>2 DEF Successor
    <3>3. QED
      BY <1>1, <3>1, <3>2
  <2>3. ~Returned'
    BY <1>6, <2>2
  <2>4. Current' = FunctionAt(call, index')
    <3>1. Current' = Body(call)[index']
      BY Zenon DEF Current
    <3>2. Body(call)[index'] = FunctionAt(call, index')
      BY <1>1, <2>2, Bodies
    <3>3. QED
      BY <3>1, <3>2
  <2>5. /\ FunctionAt(call, index') \in Function
        /\ FunctionAt(call, index').fn = KindAt(call, index')
        /\ FunctionAt(call, index').ifOk =
             (index' # 1 /\ index' # Count(call) /\ ~(call.fn = "I2C_Read" /\ index' = 4))
    BY <1>1, <2>2, Kinds
  <2>6. ASSUME ~ok PROVE index' = Count(call) \/ (call.fn = "I2C_Read" /\ index' = 4)
    <3>1. CASE index >= Count(call) - 1
      BY <1>1, <1>4, <2>1, <2>6, <3>1 DEF Successor
    <3>2. CASE ~(index >= Count(call) - 1)
      BY <1>4, <2>6, <3>2 DEF Successor
    <3>3. QED
      BY <3>1, <3>2
  <2>7. Current'.ifOk => ok
    BY <2>4, <2>5, <2>6
  <2>8. QED
    BY <1>5, <1>6, <1>8, <2>2, <2>3, <2>4, <2>5, <2>7
<1>9. QED
  BY <1>7, <1>8

\* A call begins with i2c_start.
LEMMA FirstPlace ==
  ASSUME Call
  PROVE  /\ Where' /\ ~Returned' /\ call' \in Calls /\ index' = 1 /\ ok' = TRUE
         /\ Current' = I2cStart /\ Current'.fn = "i2c_start"
<1>1. call' \in Calls /\ index' = 1 /\ ok' = TRUE
  BY DEF Call
<1>2. Count(call') \in Nat /\ Count(call') >= 5 /\ Len(Body(call')) = Count(call')
  BY <1>1, CallTypes, Bodies
<1>3. 1 \in 1..Count(call')
  BY <1>2
<1>4. Body(call')[1] = FunctionAt(call', 1)
  BY <1>1, <1>3, Bodies
<1>5. FunctionAt(call', 1) = I2cStart /\ I2cStart.fn = "i2c_start"
  BY DEF FunctionAt, I2cStart
<1>6. Where' /\ ~Returned'
  BY <1>1, <1>2 DEF Where, Returned
<1>7. Current' = Body(call')[1]
  BY <1>1 DEF Current
<1>8. Current' = I2cStart
  BY <1>4, <1>5, <1>7
<1>9. Current'.fn = "i2c_start"
  BY <1>5, <1>8
<1>10. QED
  BY <1>1, <1>6, <1>8, <1>9, Zenon

LEMMA NoPlace ==
  ASSUME call' = NoCall, index' = 1, ok' = FALSE
  PROVE  Where' /\ Returned'
<1>1. Body(call') = <<>> /\ Len(Body(call')) = 0
  BY DEF NoCall, Body
<1>2. Len(Body(call)') = 0
  BY <1>1
<1>3. Returned'
  BY <1>2 DEF Returned
<1>4. (call \in Calls \cup {NoCall})' /\ (ok \in BOOLEAN)'
  OBVIOUS
<1>5. (index \in 1..(Len(Body(call)) + 1))'
  BY <1>2
<1>6. QED
  BY <1>3, <1>4, <1>5 DEF Where

\* At the first line of the function that comes next.
LEMMA FirstLine ==
  ASSUME Where, ~Returned, call' = call, ok' = ok, Leaves, ~Returned'
  PROVE  Position'
<1>1. /\ index' \in Nat /\ index' >= 2 /\ Current'.fn = KindAt(call, index')
      /\ Current'.ifOk => ok
  BY NextPlace
<1>2. index' # 1
  BY <1>1
<1>3. line' = 1 /\ bit' = 0
  BY DEF Leaves
<1>4. Current'.fn \in {"i2c_start", "i2c_stop", "i2c_write", "i2c_read"}
  BY <1>1 DEF KindAt
<1>5. QED
  BY <1>1, <1>2, <1>3, <1>4 DEF Position

LEMMA PortsTyped ==
  ASSUME scl \in BOOLEAN, dir \in BOOLEAN, out \in BOOLEAN
  PROVE  /\ \A level \in BOOLEAN :
              SetScl(level) => scl' \in BOOLEAN /\ dir' \in BOOLEAN /\ out' \in BOOLEAN
         /\ \A d, o \in BOOLEAN :
              SetSda(d, o) => scl' \in BOOLEAN /\ dir' \in BOOLEAN /\ out' \in BOOLEAN
BY DEF SetScl, SetSda

LEMMA StartFlow ==
  ASSUME Flow, Start
  PROVE  Flow'
<1>1. Where /\ ~Returned /\ Current.fn = "i2c_start" /\ line \in 1..5 /\ bit = 0
      /\ scl \in BOOLEAN /\ dir \in BOOLEAN /\ out \in BOOLEAN
      /\ ok \in BOOLEAN /\ Position /\ bit \in 0..(Bits - 1)
  BY DEF Flow, Start, Position, Where
<1>2. StartSteps /\ call' = call /\ ok' = ok
  BY <1>1, StartMoves DEF StartSteps
<1>3. scl' \in BOOLEAN /\ dir' \in BOOLEAN /\ out' \in BOOLEAN
  BY <1>1, <1>2, PortsTyped DEF StartSteps
<1>4. CASE line # 5
  <2>1. \/ line = 1 /\ Goes(2)
        \/ line = 2 /\ Goes(3)
        \/ line = 3 /\ Goes(4)
        \/ line = 4 /\ Goes(5)
    BY <1>2, <1>4, Zenon DEF StartSteps
  <2>2. index' = index /\ bit' = bit /\ line' \in 2..5
    BY <1>1, <2>1 DEF Goes
  <2>3. Where' /\ ~Returned' /\ Current' = Current
    BY <1>1, <1>2, <2>2, SamePlace
  <2>4. Position'
    BY <1>1, <1>2, <2>2, <2>3 DEF Position
  <2>5. QED
    BY <1>1, <1>3, <2>2, <2>3, <2>4 DEF Flow
<1>5. CASE line = 5
  <2>1. Leaves /\ line' = 1 /\ bit' = 0
    BY <1>2, <1>5 DEF StartSteps, Leaves
  <2>2. Where' /\ (~Returned' => Position')
    BY <1>1, <1>2, <2>1, NextPlace, FirstLine
  <2>3. QED
    BY <1>1, <1>3, <2>1, <2>2 DEF Flow
<1>6. QED
  BY <1>4, <1>5

LEMMA StopFlow ==
  ASSUME Flow, Stop
  PROVE  Flow'
<1>1. Where /\ ~Returned /\ Current.fn = "i2c_stop" /\ line \in 1..4 /\ bit = 0
      /\ scl \in BOOLEAN /\ dir \in BOOLEAN /\ out \in BOOLEAN
      /\ ok \in BOOLEAN /\ Position /\ bit \in 0..(Bits - 1)
  BY DEF Flow, Stop, Position, Where
<1>2. StopSteps /\ call' = call /\ ok' = ok
  BY <1>1, StopMoves DEF StopSteps
<1>3. scl' \in BOOLEAN /\ dir' \in BOOLEAN /\ out' \in BOOLEAN
  BY <1>1, <1>2, PortsTyped DEF StopSteps
<1>4. CASE line # 4
  <2>1. \/ line = 1 /\ Goes(2)
        \/ line = 2 /\ Goes(3)
        \/ line = 3 /\ Goes(4)
    BY <1>2, <1>4, Zenon DEF StopSteps
  <2>2. index' = index /\ bit' = bit /\ line' \in 2..4
    BY <1>1, <2>1 DEF Goes
  <2>3. Where' /\ ~Returned' /\ Current' = Current
    BY <1>1, <1>2, <2>2, SamePlace
  <2>4. Position'
    BY <1>1, <1>2, <2>2, <2>3 DEF Position
  <2>5. QED
    BY <1>1, <1>3, <2>2, <2>3, <2>4 DEF Flow
<1>5. CASE line = 4
  <2>1. Leaves /\ line' = 1 /\ bit' = 0
    BY <1>2, <1>5 DEF StopSteps, Leaves
  <2>2. Where' /\ (~Returned' => Position')
    BY <1>1, <1>2, <2>1, NextPlace, FirstLine
  <2>3. QED
    BY <1>1, <1>3, <2>1, <2>2 DEF Flow
<1>6. QED
  BY <1>4, <1>5

LEMMA WriteFlow ==
  ASSUME Flow, WriteByte
  PROVE  Flow'
<1>1. /\ Where /\ ~Returned /\ Current.fn = "i2c_write" /\ line \in 1..9
      /\ line < 2 => bit = 0
      /\ line > 5 => bit = Bits - 1
      /\ scl \in BOOLEAN /\ dir \in BOOLEAN /\ out \in BOOLEAN
      /\ ok \in BOOLEAN /\ Position /\ bit \in 0..(Bits - 1) /\ Bits \in Nat
  BY ConstantsAssumption DEF Flow, WriteByte, Position, Where
<1>2. /\ WriteSteps /\ call' = call /\ ok' \in BOOLEAN
      /\ line # 8 => ok' = ok
  BY <1>1, WriteMoves DEF WriteSteps
<1>3. scl' \in BOOLEAN /\ dir' \in BOOLEAN /\ out' \in BOOLEAN
  <2>1. Device!BitOf(Current.arg, bit) \in BOOLEAN
    BY DEF Device!BitOf
  <2>2. QED
    BY <1>1, <1>2, <2>1, PortsTyped DEF WriteSteps, lineVars
<1>4. CASE line # 9
  <2>1. \/ line = 1 /\ Goes(2)
        \/ line = 2 /\ Goes(3)
        \/ line = 3 /\ Goes(4)
        \/ line = 4 /\ Goes(5)
        \/ line = 6 /\ Goes(7)
        \/ line = 7 /\ Goes(8)
        \/ line = 8 /\ Goes(9)
        \/ line = 5 /\ Loops(2)
        \/ line = 5 /\ bit = Bits - 1 /\ Goes(6)
    BY <1>2, <1>4, Zenon DEF WriteSteps
  <2>2. /\ index' = index /\ line' \in 2..9 /\ bit' \in 0..(Bits - 1)
        /\ line' < 2 => bit' = 0
        /\ line' > 5 => bit' = Bits - 1
        /\ line' = 9 \/ ok' = ok
    BY <1>1, <1>2, <2>1 DEF Goes, Loops
  <2>3. Where' /\ ~Returned' /\ Current' = Current
    BY <1>1, <1>2, <2>2, SamePlace
  <2>4. Position'
    BY <1>1, <1>4, <2>2, <2>3 DEF Position
  <2>5. QED
    BY <1>3, <2>2, <2>3, <2>4 DEF Flow
<1>5. CASE line = 9
  <2>1. Leaves /\ line' = 1 /\ bit' = 0
    BY <1>2, <1>5 DEF WriteSteps, Leaves
  <2>2. Where' /\ (~Returned' => Position')
    BY <1>1, <1>2, <1>5, <2>1, NextPlace, FirstLine
  <2>3. QED
    BY <1>1, <1>3, <2>1, <2>2 DEF Flow
<1>6. QED
  BY <1>4, <1>5

LEMMA ReadFlow ==
  ASSUME Flow, ReadByte
  PROVE  Flow'
<1>1. /\ Where /\ ~Returned /\ Current.fn = "i2c_read" /\ line \in 1..11
      /\ line < 3 => bit = 0
      /\ line > 5 => bit = Bits - 1
      /\ scl \in BOOLEAN /\ dir \in BOOLEAN /\ out \in BOOLEAN
      /\ ok \in BOOLEAN /\ Position /\ bit \in 0..(Bits - 1) /\ Bits \in Nat
  BY ConstantsAssumption DEF Flow, ReadByte, Position, Where
<1>2. ReadSteps /\ call' = call /\ ok' = ok
  BY <1>1, ReadMoves DEF ReadSteps
<1>3. scl' \in BOOLEAN /\ dir' \in BOOLEAN /\ out' \in BOOLEAN
  BY <1>1, <1>2, PortsTyped DEF ReadSteps, lineVars
<1>4. CASE line # 11
  <2>1. \/ line = 1 /\ Goes(2)
        \/ line = 2 /\ Goes(3)
        \/ line = 3 /\ Goes(4)
        \/ line = 4 /\ Goes(5)
        \/ line = 6 /\ Goes(7)
        \/ line = 7 /\ Goes(8)
        \/ line = 8 /\ Goes(9)
        \/ line = 9 /\ Goes(10)
        \/ line = 10 /\ Goes(11)
        \/ line = 5 /\ Loops(3)
        \/ line = 5 /\ bit = Bits - 1 /\ Goes(6)
    BY <1>2, <1>4, ZenonT(30) DEF ReadSteps
  <2>2. /\ index' = index /\ line' \in 2..11 /\ bit' \in 0..(Bits - 1)
        /\ line' < 3 => bit' = 0
        /\ line' > 5 => bit' = Bits - 1
    BY <1>1, <2>1 DEF Goes, Loops
  <2>3. Where' /\ ~Returned' /\ Current' = Current
    BY <1>1, <1>2, <2>2, SamePlace
  <2>4. Position'
    BY <1>1, <1>2, <2>2, <2>3 DEF Position
  <2>5. QED
    BY <1>3, <2>2, <2>3, <2>4 DEF Flow
<1>5. CASE line = 11
  <2>1. Leaves /\ line' = 1 /\ bit' = 0
    BY <1>2, <1>5 DEF ReadSteps, Leaves
  <2>2. Where' /\ (~Returned' => Position')
    BY <1>1, <1>2, <2>1, NextPlace, FirstLine
  <2>3. QED
    BY <1>1, <1>3, <2>1, <2>2 DEF Flow
<1>6. QED
  BY <1>4, <1>5

LEMMA FlowBegins ==
  ASSUME Init
  PROVE  Flow
<1>1. Body(call) = <<>> /\ Len(Body(call)) = 0
  BY DEF Init, NoCall, Body
<1>2. call = NoCall /\ index = 1 /\ ok = FALSE
  BY DEF Init
<1>3. Where /\ Returned
  <2>1. index > Len(Body(call)) /\ index \in 1..(Len(Body(call)) + 1)
    BY <1>1, <1>2
  <2>2. QED
    BY <1>2, <2>1 DEF Where, Returned
<1>4. 0 \in 0..(Bits - 1)
  BY ConstantsAssumption
<1>5. QED
  BY <1>3, <1>4 DEF Init, Flow

LEMMA FlowKept ==
  ASSUME Flow, [Next]_vars
  PROVE  Flow'
<1>1. ASSUME Call PROVE Flow'
  <2>1. /\ Where' /\ ~Returned' /\ index' = 1 /\ ok' = TRUE /\ Current'.fn = "i2c_start"
    BY <1>1, FirstPlace
  <2>2. line' = 1 /\ bit' = 0 /\ 0 \in 0..(Bits - 1)
    BY <1>1, ConstantsAssumption DEF Call
  <2>3. Position'
    BY <2>1, <2>2 DEF Position
  <2>4. QED
    BY <1>1, <2>1, <2>2, <2>3 DEF Call, Flow, lineVars
<1>2. ASSUME Reset PROVE Flow'
  <2>1. Where' /\ Returned'
    BY <1>2, NoPlace DEF Reset
  <2>2. 0 \in 0..(Bits - 1)
    BY ConstantsAssumption
  <2>3. QED
    BY <1>2, <2>1, <2>2 DEF Reset, Flow
<1>3. ASSUME UNCHANGED vars PROVE Flow'
  BY <1>3 DEF Flow, Where, Returned, Current, Position, vars, lineVars, driverVars
<1>4. QED
  BY <1>1, <1>2, <1>3, StartFlow, StopFlow, WriteFlow, ReadFlow DEF Next, Step
-----------------------------------------------------------------------------
(* The two ports, at every line of the program, whatever the EEPROM does    *)
(* and whenever the board is reset.                                         *)

StartPorts ==
  /\ line \in 1..3 => (scl => dir /\ out /\ index = 1)
  /\ line > 1 => dir
  /\ line \in 3..4 => out
  /\ line \in 4..5 => scl
  /\ line = 5 => ~out

StopPorts ==
  /\ line \in 1..3 => ~scl
  /\ line > 1 => dir
  /\ line > 2 => ~out
  /\ line = 4 => scl

WritePorts ==
  /\ line \in 1..4 \/ line \in 6..7 => ~scl
  /\ line = 5 \/ line \in 8..9 => scl
  /\ line \in 2..6 => dir
  /\ line \in 7..9 => ~dir
  /\ line \in 4..5 => out = Device!BitOf(Current.arg, bit)

ReadPorts ==
  /\ line \in 1..3 \/ line \in 6..9 \/ line = 11 => ~scl
  /\ line \in 4..5 \/ line = 10 => scl
  /\ line \in 2..7 => ~dir
  /\ line \in 8..11 => dir
  /\ line \in 9..10 => out = (Current.arg = 0)

\* Idle, or as a call has left them.
RestingPorts == IF call = NoCall THEN ~scl ELSE scl /\ dir /\ out

Ports ==
  /\ Returned => RestingPorts
  /\ (~Returned /\ Current.fn = "i2c_start") => StartPorts
  /\ (~Returned /\ Current.fn = "i2c_stop") => StopPorts
  /\ (~Returned /\ Current.fn = "i2c_write") => WritePorts
  /\ (~Returned /\ Current.fn = "i2c_read") => ReadPorts

PortInv == Flow /\ Ports

LEMMA EntryPorts ==
  ASSUME ~Returned', line' = 1, scl' = FALSE
  PROVE  Ports'
BY DEF Ports, StartPorts, StopPorts, WritePorts, ReadPorts

LEMMA StartPortsKept ==
  ASSUME PortInv, Start
  PROVE  Ports'
<1>1. /\ Where /\ ~Returned /\ Current.fn = "i2c_start" /\ line \in 1..5
      /\ scl \in BOOLEAN /\ dir \in BOOLEAN /\ out \in BOOLEAN
      /\ ok \in BOOLEAN /\ StartPorts
  BY DEF PortInv, Flow, Start, Position, Where, Ports
<1>2. StartSteps /\ call' = call /\ ok' = ok
  BY <1>1, StartMoves DEF StartSteps
<1>3. ASSUME index' = index, line' \in 2..5, StartPorts' PROVE Ports'
  <2>1. ~Returned' /\ Current' = Current
    BY <1>1, <1>2, <1>3, SamePlace
  <2>2. QED
    BY <1>1, <1>3, <2>1 DEF Ports
<1>4. CASE line = 1 /\ SetSda(TRUE, out) /\ Goes(2)
  <2>1. StartPorts'
    BY <1>1, <1>4 DEF StartPorts, SetSda, Goes
  <2>2. QED
    BY <1>3, <1>4, <2>1 DEF Goes
<1>5. CASE line = 2 /\ SetSda(dir, TRUE) /\ Goes(3)
  <2>1. StartPorts'
    BY <1>1, <1>5 DEF StartPorts, SetSda, Goes
  <2>2. QED
    BY <1>3, <1>5, <2>1 DEF Goes
<1>6. CASE line = 3 /\ SetScl(TRUE) /\ Goes(4)
  <2>1. StartPorts'
    BY <1>1, <1>6 DEF StartPorts, SetScl, Goes
  <2>2. QED
    BY <1>3, <1>6, <2>1 DEF Goes
<1>7. CASE line = 4 /\ SetSda(dir, FALSE) /\ Goes(5)
  <2>1. StartPorts'
    BY <1>1, <1>7 DEF StartPorts, SetSda, Goes
  <2>2. QED
    BY <1>3, <1>7, <2>1 DEF Goes
<1>8. CASE line = 5 /\ SetScl(FALSE) /\ Leaves
  <2>1. scl' = FALSE /\ line' = 1
    BY <1>8 DEF SetScl, Leaves
  <2>2. ~Returned'
    BY <1>1, <1>2, <1>8, NextPlace
  <2>3. QED
    BY <2>1, <2>2, EntryPorts
<1>9. QED
  BY <1>2, <1>4, <1>5, <1>6, <1>7, <1>8, Zenon DEF StartSteps

LEMMA StopPortsKept ==
  ASSUME PortInv, Stop
  PROVE  Ports'
<1>1. /\ Where /\ ~Returned /\ Current.fn = "i2c_stop" /\ line \in 1..4
      /\ scl \in BOOLEAN /\ dir \in BOOLEAN /\ out \in BOOLEAN
      /\ ok \in BOOLEAN /\ StopPorts
  BY DEF PortInv, Flow, Stop, Position, Where, Ports
<1>2. StopSteps /\ call' = call /\ ok' = ok
  BY <1>1, StopMoves DEF StopSteps
<1>3. ASSUME index' = index, line' \in 2..4, StopPorts' PROVE Ports'
  <2>1. ~Returned' /\ Current' = Current
    BY <1>1, <1>2, <1>3, SamePlace
  <2>2. QED
    BY <1>1, <1>3, <2>1 DEF Ports
<1>4. CASE line = 1 /\ SetSda(TRUE, out) /\ Goes(2)
  <2>1. StopPorts'
    BY <1>1, <1>4 DEF StopPorts, SetSda, Goes
  <2>2. QED
    BY <1>3, <1>4, <2>1 DEF Goes
<1>5. CASE line = 2 /\ SetSda(dir, FALSE) /\ Goes(3)
  <2>1. StopPorts'
    BY <1>1, <1>5 DEF StopPorts, SetSda, Goes
  <2>2. QED
    BY <1>3, <1>5, <2>1 DEF Goes
<1>6. CASE line = 3 /\ SetScl(TRUE) /\ Goes(4)
  <2>1. StopPorts'
    BY <1>1, <1>6 DEF StopPorts, SetScl, Goes
  <2>2. QED
    BY <1>3, <1>6, <2>1 DEF Goes
<1>7. CASE line = 4 /\ SetSda(dir, TRUE) /\ Leaves
  <2>1. scl' /\ dir' /\ out'
    BY <1>1, <1>7 DEF StopPorts, SetSda
  <2>2. Returned' /\ call' # NoCall
    BY <1>1, <1>2, <1>7, NextPlace, Running, NoCallAside
  <2>3. QED
    BY <2>1, <2>2 DEF Ports, RestingPorts
<1>8. QED
  BY <1>2, <1>4, <1>5, <1>6, <1>7, Zenon DEF StopSteps

LEMMA WritePortsKept ==
  ASSUME PortInv, WriteByte
  PROVE  Ports'
<1>1. /\ Where /\ ~Returned /\ Current.fn = "i2c_write" /\ line \in 1..9
      /\ scl \in BOOLEAN /\ dir \in BOOLEAN /\ out \in BOOLEAN
      /\ ok \in BOOLEAN /\ WritePorts
  BY DEF PortInv, Flow, WriteByte, Position, Where, Ports
<1>2. /\ WriteSteps /\ call' = call /\ ok' \in BOOLEAN
      /\ line # 8 => ok' = ok
  BY <1>1, WriteMoves DEF WriteSteps
<1>3. ASSUME index' = index, WritePorts' PROVE Ports'
  <2>1. ~Returned' /\ Current' = Current
    BY <1>1, <1>2, <1>3, SamePlace
  <2>2. QED
    BY <1>1, <1>3, <2>1 DEF Ports
<1>4. ASSUME index' = index PROVE Current' = Current
  BY <1>1, <1>2, <1>4, SamePlace
<1>5. CASE line = 1 /\ SetSda(TRUE, out) /\ Goes(2)
  <2>1. index' = index /\ Current' = Current
    BY <1>4, <1>5 DEF Goes
  <2>2. WritePorts'
    BY <1>1, <1>5, <2>1 DEF WritePorts, SetSda, Goes
  <2>3. QED
    BY <1>3, <2>1, <2>2
<1>6. CASE line = 2 /\ SetScl(FALSE) /\ Goes(3)
  <2>1. index' = index /\ Current' = Current
    BY <1>4, <1>6 DEF Goes
  <2>2. WritePorts'
    BY <1>1, <1>6, <2>1 DEF WritePorts, SetScl, Goes
  <2>3. QED
    BY <1>3, <2>1, <2>2
<1>7. CASE line = 3 /\ SetSda(dir, Device!BitOf(Current.arg, bit)) /\ Goes(4)
  <2>1. index' = index /\ Current' = Current
    BY <1>4, <1>7 DEF Goes
  <2>2. WritePorts'
    BY <1>1, <1>7, <2>1 DEF WritePorts, SetSda, Goes
  <2>3. QED
    BY <1>3, <2>1, <2>2
<1>8. CASE line = 4 /\ SetScl(TRUE) /\ Goes(5)
  <2>1. index' = index /\ Current' = Current
    BY <1>4, <1>8 DEF Goes
  <2>2. WritePorts'
    BY <1>1, <1>8, <2>1 DEF WritePorts, SetScl, Goes
  <2>3. QED
    BY <1>3, <2>1, <2>2
<1>9. CASE line = 5 /\ SetScl(FALSE) /\ Loops(2)
  <2>1. index' = index /\ Current' = Current
    BY <1>4, <1>9 DEF Loops
  <2>2. WritePorts'
    BY <1>1, <1>9, <2>1 DEF WritePorts, SetScl, Loops
  <2>3. QED
    BY <1>3, <2>1, <2>2
<1>10. CASE line = 5 /\ SetScl(FALSE) /\ bit = Bits - 1 /\ Goes(6)
  <2>1. index' = index /\ Current' = Current
    BY <1>4, <1>10 DEF Goes
  <2>2. WritePorts'
    BY <1>1, <1>10, <2>1 DEF WritePorts, SetScl, Goes
  <2>3. QED
    BY <1>3, <2>1, <2>2
<1>11. CASE line = 6 /\ SetSda(FALSE, out) /\ Goes(7)
  <2>1. index' = index /\ Current' = Current
    BY <1>4, <1>11 DEF Goes
  <2>2. WritePorts'
    BY <1>1, <1>11, <2>1 DEF WritePorts, SetSda, Goes
  <2>3. QED
    BY <1>3, <2>1, <2>2
<1>12. CASE line = 7 /\ SetScl(TRUE) /\ Goes(8)
  <2>1. index' = index /\ Current' = Current
    BY <1>4, <1>12 DEF Goes
  <2>2. WritePorts'
    BY <1>1, <1>12, <2>1 DEF WritePorts, SetScl, Goes
  <2>3. QED
    BY <1>3, <2>1, <2>2
<1>13. CASE line = 8 /\ UNCHANGED <<lineVars, deviceVars>> /\ Goes(9)
  <2>1. index' = index /\ Current' = Current
    BY <1>4, <1>13 DEF Goes
  <2>2. WritePorts'
    BY <1>1, <1>13, <2>1 DEF WritePorts, lineVars, Goes
  <2>3. QED
    BY <1>3, <2>1, <2>2
<1>14. CASE line = 9 /\ SetScl(FALSE) /\ Leaves
  <2>1. scl' = FALSE /\ line' = 1
    BY <1>14 DEF SetScl, Leaves
  <2>2. ~Returned'
    BY <1>1, <1>2, <1>14, NextPlace
  <2>3. QED
    BY <2>1, <2>2, EntryPorts
<1>15. QED
  BY <1>2, <1>5, <1>6, <1>7, <1>8, <1>9, <1>10, <1>11, <1>12, <1>13, <1>14, Zenon DEF WriteSteps

LEMMA ReadPortsKept ==
  ASSUME PortInv, ReadByte
  PROVE  Ports'
<1>1. /\ Where /\ ~Returned /\ Current.fn = "i2c_read" /\ line \in 1..11
      /\ scl \in BOOLEAN /\ dir \in BOOLEAN /\ out \in BOOLEAN
      /\ ok \in BOOLEAN /\ ReadPorts
  BY DEF PortInv, Flow, ReadByte, Position, Where, Ports
<1>2. ReadSteps /\ call' = call /\ ok' = ok
  BY <1>1, ReadMoves DEF ReadSteps
<1>3. ASSUME index' = index, ReadPorts' PROVE Ports'
  <2>1. ~Returned' /\ Current' = Current
    BY <1>1, <1>2, <1>3, SamePlace
  <2>2. QED
    BY <1>1, <1>3, <2>1 DEF Ports
<1>4. ASSUME index' = index PROVE Current' = Current
  BY <1>1, <1>2, <1>4, SamePlace
<1>5. CASE line = 1 /\ SetSda(FALSE, out) /\ Goes(2)
  <2>1. index' = index /\ Current' = Current
    BY <1>4, <1>5 DEF Goes
  <2>2. ReadPorts'
    BY <1>1, <1>5, <2>1 DEF ReadPorts, SetSda, Goes
  <2>3. QED
    BY <1>3, <2>1, <2>2
<1>6. CASE line = 2 /\ SetScl(FALSE) /\ Goes(3)
  <2>1. index' = index /\ Current' = Current
    BY <1>4, <1>6 DEF Goes
  <2>2. ReadPorts'
    BY <1>1, <1>6, <2>1 DEF ReadPorts, SetScl, Goes
  <2>3. QED
    BY <1>3, <2>1, <2>2
<1>7. CASE line = 3 /\ SetScl(TRUE) /\ Goes(4)
  <2>1. index' = index /\ Current' = Current
    BY <1>4, <1>7 DEF Goes
  <2>2. ReadPorts'
    BY <1>1, <1>7, <2>1 DEF ReadPorts, SetScl, Goes
  <2>3. QED
    BY <1>3, <2>1, <2>2
<1>8. CASE line = 4 /\ UNCHANGED <<lineVars, deviceVars>> /\ Goes(5)
  <2>1. index' = index /\ Current' = Current
    BY <1>4, <1>8 DEF Goes
  <2>2. ReadPorts'
    BY <1>1, <1>8, <2>1 DEF ReadPorts, lineVars, Goes
  <2>3. QED
    BY <1>3, <2>1, <2>2
<1>9. CASE line = 5 /\ SetScl(FALSE) /\ Loops(3)
  <2>1. index' = index /\ Current' = Current
    BY <1>4, <1>9 DEF Loops
  <2>2. ReadPorts'
    BY <1>1, <1>9, <2>1 DEF ReadPorts, SetScl, Loops
  <2>3. QED
    BY <1>3, <2>1, <2>2
<1>10. CASE line = 5 /\ SetScl(FALSE) /\ bit = Bits - 1 /\ Goes(6)
  <2>1. index' = index /\ Current' = Current
    BY <1>4, <1>10 DEF Goes
  <2>2. ReadPorts'
    BY <1>1, <1>10, <2>1 DEF ReadPorts, SetScl, Goes
  <2>3. QED
    BY <1>3, <2>1, <2>2
<1>11. CASE line = 6 /\ SetScl(FALSE) /\ Goes(7)
  <2>1. index' = index /\ Current' = Current
    BY <1>4, <1>11 DEF Goes
  <2>2. ReadPorts'
    BY <1>1, <1>11, <2>1 DEF ReadPorts, SetScl, Goes
  <2>3. QED
    BY <1>3, <2>1, <2>2
<1>12. CASE line = 7 /\ SetSda(TRUE, out) /\ Goes(8)
  <2>1. index' = index /\ Current' = Current
    BY <1>4, <1>12 DEF Goes
  <2>2. ReadPorts'
    BY <1>1, <1>12, <2>1 DEF ReadPorts, SetSda, Goes
  <2>3. QED
    BY <1>3, <2>1, <2>2
<1>13. CASE line = 8 /\ SetSda(dir, Current.arg = 0) /\ Goes(9)
  <2>1. index' = index /\ Current' = Current
    BY <1>4, <1>13 DEF Goes
  <2>2. ReadPorts'
    BY <1>1, <1>13, <2>1 DEF ReadPorts, SetSda, Goes
  <2>3. QED
    BY <1>3, <2>1, <2>2
<1>14. CASE line = 9 /\ SetScl(TRUE) /\ Goes(10)
  <2>1. index' = index /\ Current' = Current
    BY <1>4, <1>14 DEF Goes
  <2>2. ReadPorts'
    BY <1>1, <1>14, <2>1 DEF ReadPorts, SetScl, Goes
  <2>3. QED
    BY <1>3, <2>1, <2>2
<1>15. CASE line = 10 /\ SetScl(FALSE) /\ Goes(11)
  <2>1. index' = index /\ Current' = Current
    BY <1>4, <1>15 DEF Goes
  <2>2. ReadPorts'
    BY <1>1, <1>15, <2>1 DEF ReadPorts, SetScl, Goes
  <2>3. QED
    BY <1>3, <2>1, <2>2
<1>16. CASE line = 11 /\ SetSda(dir, FALSE) /\ Leaves
  <2>1. scl' = FALSE /\ line' = 1
    BY <1>1, <1>16 DEF SetSda, Leaves, ReadPorts
  <2>2. ~Returned'
    BY <1>1, <1>2, <1>16, NextPlace
  <2>3. QED
    BY <2>1, <2>2, EntryPorts
<1>17. QED
  BY <1>2, <1>5, <1>6, <1>7, <1>8, <1>9, <1>10, <1>11, <1>12, <1>13, <1>14, <1>15, <1>16, Zenon DEF ReadSteps

LEMMA PortInvKept ==
  ASSUME PortInv, [Next]_vars
  PROVE  PortInv'
<1>1. Flow'
  BY FlowKept DEF PortInv
<1>2. ASSUME Call PROVE Ports'
  <2>1. ~Returned' /\ Current'.fn = "i2c_start" /\ index' = 1 /\ line' = 1
    BY <1>2, FirstPlace DEF Call
  <2>2. scl => dir /\ out
    BY <1>2 DEF PortInv, Ports, RestingPorts, Call
  <2>3. QED
    BY <1>2, <2>1, <2>2 DEF Call, Ports, StartPorts, lineVars
<1>3. ASSUME Reset PROVE Ports'
  BY <1>3, NoPlace DEF Reset, Ports, RestingPorts
<1>4. ASSUME UNCHANGED vars PROVE Ports'
  BY <1>4 DEF PortInv, Ports, RestingPorts, StartPorts, StopPorts, WritePorts, ReadPorts,
              Returned, Current, vars, lineVars, driverVars
<1>5. QED
  BY <1>1, <1>2, <1>3, <1>4, StartPortsKept, StopPortsKept, WritePortsKept, ReadPortsKept
     DEF Next, Step, PortInv

LEMMA PortInvBegins ==
  ASSUME Init
  PROVE  PortInv
<1>1. Body(call) = <<>> /\ Len(Body(call)) = 0
  BY DEF Init, NoCall, Body
<1>2. Returned
  BY <1>1 DEF Init, Returned
<1>3. QED
  BY <1>2, FlowBegins DEF Init, PortInv, Ports, RestingPorts

LEMMA SdaKept ==
  ASSUME NEW d, NEW o, SetSda(d, o), (d => o) = (dir => out)
  PROVE  Sda' = Sda
<1>1. dir' = d /\ out' = o /\ UNCHANGED hold
  BY DEF SetSda, Sda, deviceVars
<1>2. QED
  BY <1>1 DEF Sda

LEMMA SdaUnderScl ==
  ASSUME SetScl(TRUE), scl
  PROVE  Sda' = Sda
BY DEF SetScl, Sda, deviceVars

LEMMA Disciplined ==
  ASSUME PortInv, [Next]_vars, scl, scl', Sda # Sda'
  PROVE  \/ Current.fn = "i2c_start" /\ ~Sda'
         \/ Current.fn = "i2c_stop" /\ Sda'
<1>1. scl \in BOOLEAN /\ dir \in BOOLEAN /\ out \in BOOLEAN /\ Where
  BY DEF PortInv, Flow
<1>2. ~SetScl(FALSE)
  BY DEF SetScl
<1>3. ASSUME Start PROVE Current.fn = "i2c_start" /\ ~Sda'
  <2>1. ~Returned /\ Current.fn = "i2c_start" /\ line \in 1..5 /\ StartPorts
    BY <1>3 DEF PortInv, Flow, Start, Position, Ports
  <2>2. StartSteps
    BY <1>1, <1>3, <2>1, StartMoves
  <2>3. \/ line = 1 /\ SetSda(TRUE, out)
        \/ line = 2 /\ SetSda(dir, TRUE)
        \/ line = 3 /\ SetScl(TRUE)
        \/ line = 4 /\ SetSda(dir, FALSE)
    BY <1>2, <2>2, Zenon DEF StartSteps
  <2>4. CASE line \in 1..3
    <3>1. dir /\ out
      BY <2>1, <2>4 DEF StartPorts
    <3>2. SetSda(TRUE, out) \/ SetSda(dir, TRUE) \/ SetScl(TRUE)
      <4>1. line # 4
        BY <2>4
      <4>2. QED
        BY <2>3, <4>1, Zenon
    <3>3. Sda' = Sda
      BY <3>1, <3>2, SdaKept, SdaUnderScl
    <3>4. QED
      BY <3>3
  <2>5. CASE line = 4
    <3>1. line # 1 /\ line # 2 /\ line # 3
      BY <2>5
    <3>2. SetSda(dir, FALSE)
      BY <2>3, <3>1, Zenon
    <3>3. dir' /\ ~out'
      BY <2>1, <2>5, <3>2 DEF StartPorts, SetSda
    <3>4. QED
      BY <2>1, <3>3 DEF Sda
  <2>6. line = 1 \/ line = 2 \/ line = 3 \/ line = 4
    BY <2>3, Zenon
  <2>7. QED
    BY <2>4, <2>5, <2>6
<1>4. ASSUME Stop PROVE Current.fn = "i2c_stop" /\ Sda'
  <2>1. ~Returned /\ Current.fn = "i2c_stop" /\ line \in 1..4 /\ StopPorts
    BY <1>4 DEF PortInv, Flow, Stop, Position, Ports
  <2>2. line = 4
    BY <2>1 DEF StopPorts
  <2>3. dir /\ ~out
    BY <2>1, <2>2 DEF StopPorts
  <2>4. ~Sda
    BY <2>3 DEF Sda
  <2>5. Sda'
    BY <2>4 DEF Sda
  <2>6. QED
    BY <2>1, <2>5
<1>5. ASSUME WriteByte PROVE FALSE
  <2>1. ~Returned /\ Current.fn = "i2c_write" /\ line \in 1..9 /\ WritePorts
    BY <1>5 DEF PortInv, Flow, WriteByte, Position, Ports
  <2>2. WriteSteps
    BY <1>1, <1>5, <2>1, WriteMoves
  <2>3. line = 5 \/ line \in 8..9
    BY <2>1 DEF WritePorts
  <2>4. line # 1 /\ line # 2 /\ line # 3 /\ line # 4 /\ line # 6 /\ line # 7
    BY <2>3
  <2>5. UNCHANGED <<lineVars, deviceVars>>
    BY <1>2, <2>2, <2>4, Zenon DEF WriteSteps
  <2>6. QED
    BY <2>5 DEF Sda, lineVars, deviceVars
<1>6. ASSUME ReadByte PROVE FALSE
  <2>1. ~Returned /\ Current.fn = "i2c_read" /\ line \in 1..11 /\ ReadPorts
    BY <1>6 DEF PortInv, Flow, ReadByte, Position, Ports
  <2>2. ReadSteps
    BY <1>1, <1>6, <2>1, ReadMoves
  <2>3. line \in 4..5 \/ line = 10
    BY <2>1 DEF ReadPorts
  <2>4. /\ line # 1 /\ line # 2 /\ line # 3 /\ line # 6 /\ line # 7 /\ line # 8
        /\ line # 9 /\ line # 11
    BY <2>3
  <2>5. UNCHANGED <<lineVars, deviceVars>>
    BY <1>2, <2>2, <2>4, Zenon DEF ReadSteps
  <2>6. QED
    BY <2>5 DEF Sda, lineVars, deviceVars
<1>7. ASSUME Call \/ Reset \/ UNCHANGED vars PROVE FALSE
  BY <1>7 DEF Call, Reset, vars, Sda, lineVars, deviceVars
<1>8. QED
  BY <1>3, <1>4, <1>5, <1>6, <1>7 DEF Next, Step

\* For bytes of any width, and however often the board is reset: while SCL
\* is high, SDA changes only where i2c_start or i2c_stop mean it to (i2c.c).
THEOREM LineIsDisciplined == Spec => LineDiscipline
<1>1. Init => PortInv
  BY PortInvBegins
<1>2. PortInv /\ [Next]_vars => PortInv'
  BY PortInvKept
<1>3. PortInv /\ [Next]_vars =>
        [(scl /\ scl' /\ Sda # Sda') =>
           \/ Current.fn = "i2c_start" /\ ~Sda'
           \/ Current.fn = "i2c_stop" /\ Sda']_vars
  BY Disciplined
<1>4. QED
  BY <1>1, <1>2, <1>3, PTL DEF Spec, LineDiscipline
-----------------------------------------------------------------------------
(* The bits of a byte.  From here on a byte has the eight bits over which   *)
(* the loops of i2c_write and i2c_read go.                                  *)

EightBits == Bits = 8

\* The n first bits of a byte, the most significant first.
Top(byte, n) == byte \div 2^(Bits - n)

LEMMA ByteValues ==
  ASSUME EightBits
  PROVE  Device!Byte = 0..255 /\ 2^Bits = 256
BY DEF EightBits, Device!Byte

LEMMA TopBits ==
  ASSUME EightBits, NEW x \in Device!Byte
  PROVE  Top(x, 0) = 0 /\ Top(x, Bits) = x
<1>1. x \in 0..255 /\ Bits = 8
  BY ByteValues DEF EightBits
<1>2. 2^(Bits - 0) = 256 /\ 2^(Bits - Bits) = 1
  BY <1>1
<1>3. QED
  BY <1>1, <1>2, Z3 DEF Top

\* Of the bits of x those of weight 2w and more, and the next.
LEMMA Halving ==
  ASSUME NEW x \in 0..255, NEW w \in {1, 2, 4, 8, 16, 32, 64, 128}
  PROVE  (2 * (x \div (2 * w)) + (IF (x \div w) % 2 = 1 THEN 1 ELSE 0)) % 256 = x \div w
<1>1. CASE w = 1
  <2>1. (2 * (x \div 2) + (IF (x \div 1) % 2 = 1 THEN 1 ELSE 0)) % 256 = x \div 1
    BY Z3
  <2>2. QED
    BY <1>1, <2>1
<1>2. CASE w = 2
  <2>1. (2 * (x \div 4) + (IF (x \div 2) % 2 = 1 THEN 1 ELSE 0)) % 256 = x \div 2
    BY Z3
  <2>2. QED
    BY <1>2, <2>1
<1>3. CASE w = 4
  <2>1. (2 * (x \div 8) + (IF (x \div 4) % 2 = 1 THEN 1 ELSE 0)) % 256 = x \div 4
    BY Z3
  <2>2. QED
    BY <1>3, <2>1
<1>4. CASE w = 8
  <2>1. (2 * (x \div 16) + (IF (x \div 8) % 2 = 1 THEN 1 ELSE 0)) % 256 = x \div 8
    BY Z3
  <2>2. QED
    BY <1>4, <2>1
<1>5. CASE w = 16
  <2>1. (2 * (x \div 32) + (IF (x \div 16) % 2 = 1 THEN 1 ELSE 0)) % 256 = x \div 16
    BY Z3
  <2>2. QED
    BY <1>5, <2>1
<1>6. CASE w = 32
  <2>1. (2 * (x \div 64) + (IF (x \div 32) % 2 = 1 THEN 1 ELSE 0)) % 256 = x \div 32
    BY Z3
  <2>2. QED
    BY <1>6, <2>1
<1>7. CASE w = 64
  <2>1. (2 * (x \div 128) + (IF (x \div 64) % 2 = 1 THEN 1 ELSE 0)) % 256 = x \div 64
    BY Z3
  <2>2. QED
    BY <1>7, <2>1
<1>8. CASE w = 128
  <2>1. (2 * (x \div 256) + (IF (x \div 128) % 2 = 1 THEN 1 ELSE 0)) % 256 = x \div 128
    BY Z3
  <2>2. QED
    BY <1>8, <2>1
<1>9. QED
  BY <1>1, <1>2, <1>3, <1>4, <1>5, <1>6, <1>7, <1>8

\* The bits come in one after the other.
LEMMA NextBit ==
  ASSUME EightBits, NEW x \in Device!Byte, NEW n \in 0..(Bits - 1)
  PROVE  Device!WithBit(Top(x, n), Device!BitOf(x, n)) = Top(x, n + 1)
<1>1. x \in 0..255 /\ Bits = 8 /\ 2^Bits = 256
  BY ByteValues DEF EightBits
<1>2. \E w \in {1, 2, 4, 8, 16, 32, 64, 128} :
        2^(Bits - n) = 2 * w /\ 2^(Bits - 1 - n) = w /\ 2^(Bits - (n + 1)) = w
  <2>1. n = 0 \/ n = 1 \/ n = 2 \/ n = 3 \/ n = 4 \/ n = 5 \/ n = 6 \/ n = 7
    BY <1>1
  <2>2. CASE n = 0
    <3>1. 2^(Bits - n) = 2 * 128 /\ 2^(Bits - 1 - n) = 128 /\ 2^(Bits - (n + 1)) = 128
      BY <1>1, <2>2
    <3>2. QED
      BY <3>1
  <2>3. CASE n = 1
    <3>1. 2^(Bits - n) = 2 * 64 /\ 2^(Bits - 1 - n) = 64 /\ 2^(Bits - (n + 1)) = 64
      BY <1>1, <2>3
    <3>2. QED
      BY <3>1
  <2>4. CASE n = 2
    <3>1. 2^(Bits - n) = 2 * 32 /\ 2^(Bits - 1 - n) = 32 /\ 2^(Bits - (n + 1)) = 32
      BY <1>1, <2>4
    <3>2. QED
      BY <3>1
  <2>5. CASE n = 3
    <3>1. 2^(Bits - n) = 2 * 16 /\ 2^(Bits - 1 - n) = 16 /\ 2^(Bits - (n + 1)) = 16
      BY <1>1, <2>5
    <3>2. QED
      BY <3>1
  <2>6. CASE n = 4
    <3>1. 2^(Bits - n) = 2 * 8 /\ 2^(Bits - 1 - n) = 8 /\ 2^(Bits - (n + 1)) = 8
      BY <1>1, <2>6
    <3>2. QED
      BY <3>1
  <2>7. CASE n = 5
    <3>1. 2^(Bits - n) = 2 * 4 /\ 2^(Bits - 1 - n) = 4 /\ 2^(Bits - (n + 1)) = 4
      BY <1>1, <2>7
    <3>2. QED
      BY <3>1
  <2>8. CASE n = 6
    <3>1. 2^(Bits - n) = 2 * 2 /\ 2^(Bits - 1 - n) = 2 /\ 2^(Bits - (n + 1)) = 2
      BY <1>1, <2>8
    <3>2. QED
      BY <3>1
  <2>9. CASE n = 7
    <3>1. 2^(Bits - n) = 2 * 1 /\ 2^(Bits - 1 - n) = 1 /\ 2^(Bits - (n + 1)) = 1
      BY <1>1, <2>9
    <3>2. QED
      BY <3>1
  <2>10. QED
    BY <2>1, <2>2, <2>3, <2>4, <2>5, <2>6, <2>7, <2>8, <2>9
<1>3. PICK w \in {1, 2, 4, 8, 16, 32, 64, 128} :
        2^(Bits - n) = 2 * w /\ 2^(Bits - 1 - n) = w /\ 2^(Bits - (n + 1)) = w
  BY <1>2
<1>4. (2 * (x \div (2 * w)) + (IF (x \div w) % 2 = 1 THEN 1 ELSE 0)) % 256 = x \div w
  BY <1>1, Halving
<1>5. QED
  BY <1>1, <1>3, <1>4, Zenon DEF Top, Device!BitOf, Device!WithBit

LEMMA WithBitByte ==
  ASSUME EightBits, NEW x \in Device!Byte, NEW b
  PROVE  Device!WithBit(x, b) \in Device!Byte
<1>1. x \in 0..255 /\ 2^Bits = 256 /\ Device!Byte = 0..255
  BY ByteValues
<1>2. QED
  BY <1>1, Z3 DEF Device!WithBit

LEMMA ZeroByte ==
  ASSUME EightBits
  PROVE  0 \in Device!Byte /\ \A x \in Device!Byte : x \in Nat
BY ByteValues
-----------------------------------------------------------------------------
(* The EEPROM by itself.                                                    *)

Fresh == count = 0 /\ shift = 0 /\ ~hold

DeviceInv ==
  /\ mode \in Device!Modes /\ hold \in BOOLEAN
  /\ count \in 0..(Bits + 1) /\ (~scl => count <= Bits)
  /\ shift \in Device!Byte
  /\ pointer \in 0..(MemSize - 1) /\ pending \in Seq(Device!Byte)
  /\ mem \in [0..(MemSize - 1) -> Device!Byte]
  /\ mode = "idle" => Fresh

\* A step of the program, or a reset, is at most one edge to it.
DeviceMove ==
  \/ UNCHANGED deviceVars /\ scl' = scl
  \/ ~scl /\ scl' /\ Device!ClockRises(Sda)
  \/ scl /\ ~scl' /\ Device!ClockFalls
  \/ scl /\ scl' /\ Device!StartSeen
  \/ scl /\ scl' /\ Device!StopSeen

LEMMA SclMoves ==
  ASSUME scl \in BOOLEAN, NEW level \in BOOLEAN, SetScl(level)
  PROVE  DeviceMove
BY DEF SetScl, DeviceMove

LEMMA SdaMoves ==
  ASSUME scl \in BOOLEAN, NEW d \in BOOLEAN, NEW o \in BOOLEAN, SetSda(d, o)
  PROVE  DeviceMove
BY DEF SetSda, DeviceMove

LEMMA DeviceMoves ==
  ASSUME Flow, [Next]_vars
  PROVE  DeviceMove
<1>1. scl \in BOOLEAN /\ dir \in BOOLEAN /\ out \in BOOLEAN
  BY DEF Flow
<1>2. ASSUME WritePort PROVE DeviceMove
  <2>1. Device!BitOf(Current.arg, bit) \in BOOLEAN /\ (Current.arg = 0) \in BOOLEAN
    BY DEF Device!BitOf
  <2>2. QED
    BY <1>1, <1>2, <2>1, SclMoves, SdaMoves DEF WritePort
<1>3. ASSUME ReadPort \/ Call \/ UNCHANGED vars PROVE DeviceMove
  BY <1>3 DEF ReadPort, Call, vars, lineVars, DeviceMove
<1>4. ASSUME Reset PROVE DeviceMove
  BY <1>1, <1>4 DEF Reset, DeviceMove
<1>5. QED
  BY <1>2, <1>3, <1>4 DEF Next, Step, Start, Stop, WriteByte, ReadByte

LEMMA RiseKeeps ==
  ASSUME EightBits, DeviceInv, ~scl, scl', Device!ClockRises(Sda)
  PROVE  DeviceInv'
<1>1. /\ UNCHANGED <<pointer, pending, mem, hold>>
      /\ Bits \in Nat /\ 0 \in Device!Byte /\ count \in 0..Bits
  BY ConstantsAssumption, ZeroByte DEF Device!ClockRises, DeviceInv
<1>2. CASE mode = "idle" \/ (mode = "sending" /\ count = Bits /\ Sda)
  <2>1. mode' = "idle" /\ count' = 0 /\ shift' = 0 /\ ~hold
    BY <1>2 DEF Device!ClockRises, DeviceInv, Fresh, Sda
  <2>2. QED
    BY <1>1, <2>1 DEF DeviceInv, Fresh, Device!Modes
<1>3. CASE ~(mode = "idle" \/ (mode = "sending" /\ count = Bits /\ Sda))
  <2>1. /\ mode' = mode /\ count' = count + 1 /\ mode' # "idle"
        /\ shift' = shift \/ shift' = Device!WithBit(shift, Sda)
    BY <1>3 DEF Device!ClockRises
  <2>2. shift' \in Device!Byte
    BY <2>1, WithBitByte DEF DeviceInv
  <2>3. QED
    BY <1>1, <2>1, <2>2 DEF DeviceInv
<1>4. QED
  BY <1>2, <1>3

LEMMA SendNextKeeps ==
  ASSUME DeviceInv, Device!SendNext
  PROVE  DeviceInv'
<1>1. MemSize \in Nat /\ MemSize > 0 /\ Bits \in Nat /\ pointer \in 0..(MemSize - 1)
  BY ConstantsAssumption DEF DeviceInv
<1>2. pointer' \in 0..(MemSize - 1)
  <2>1. pointer' = (pointer + 1) % MemSize
    BY DEF Device!SendNext
  <2>2. QED
    BY <1>1, <2>1, Z3
<1>3. mem[pointer] \in Device!Byte
  BY <1>1 DEF DeviceInv
<1>4. /\ mode' = "sending" /\ count' = 0 /\ shift' = mem[pointer] /\ hold' \in BOOLEAN
      /\ pending' = pending /\ mem' = mem
  BY DEF Device!SendNext, Device!BitOf
<1>5. QED
  BY <1>1, <1>2, <1>3, <1>4 DEF DeviceInv, Device!Modes

LEMMA TakeByteKeeps ==
  ASSUME EightBits, DeviceInv, Device!TakeByte
  PROVE  DeviceInv'
<1>1. CASE mode = "device" /\ shift = DeviceAddr + 1
  BY <1>1, SendNextKeeps DEF Device!TakeByte
<1>2. CASE ~(mode = "device" /\ shift = DeviceAddr + 1)
  <2>1. /\ mode' = IF mode = "device" THEN "control" ELSE "data"
        /\ pointer' = IF mode = "control" THEN shift % MemSize ELSE pointer
        /\ pending' = IF mode = "data" THEN Append(pending, shift) ELSE pending
        /\ count' = 0 /\ shift' = 0 /\ hold' = FALSE /\ UNCHANGED mem
    BY <1>2 DEF Device!TakeByte
  <2>2. MemSize \in Nat /\ MemSize > 0 /\ Bits \in Nat /\ shift \in Nat /\ 0 \in Device!Byte
    BY ConstantsAssumption, ZeroByte DEF DeviceInv
  <2>3. shift % MemSize \in 0..(MemSize - 1)
    BY <2>2, Z3
  <2>4. pointer' \in 0..(MemSize - 1)
    BY <2>1, <2>3 DEF DeviceInv
  <2>5. pending' \in Seq(Device!Byte)
    BY <2>1 DEF DeviceInv
  <2>6. QED
    BY <2>1, <2>2, <2>4, <2>5 DEF DeviceInv, Device!Modes
<1>3. QED
  BY <1>1, <1>2

LEMMA FallKeeps ==
  ASSUME EightBits, DeviceInv, scl, ~scl', Device!ClockFalls
  PROVE  DeviceInv'
<1>1. Bits \in Nat /\ 0 \in Device!Byte /\ count \in 0..(Bits + 1)
  BY ConstantsAssumption, ZeroByte DEF DeviceInv
<1>2. CASE Device!Acknowledge
  BY <1>1, <1>2 DEF Device!Acknowledge, Device!Receiving, DeviceInv
<1>3. CASE Device!LeaveUnacknowledged
  <2>1. /\ mode' = "idle" /\ count' = 0 /\ shift' = 0 /\ hold' = FALSE
        /\ pointer' = pointer /\ pending' = pending /\ mem' = mem
    BY <1>3 DEF Device!LeaveUnacknowledged
  <2>2. Fresh'
    BY <2>1 DEF Fresh
  <2>3. count' \in 0..(Bits + 1) /\ count' <= Bits /\ shift' \in Device!Byte
    BY <1>1, <2>1
  <2>4. QED
    BY <2>1, <2>2, <2>3 DEF DeviceInv, Device!Modes
<1>4. CASE Device!TakeByte
  BY <1>4, TakeByteKeeps
<1>5. CASE Device!SendBit
  <2>1. CASE count = Bits + 1
    BY <1>5, <2>1, SendNextKeeps DEF Device!SendBit
  <2>2. CASE count # Bits + 1
    BY <1>1, <1>5, <2>2 DEF Device!SendBit, DeviceInv
  <2>3. QED
    BY <2>1, <2>2
<1>6. CASE (mode = "idle" \/ (Device!Receiving /\ count < Bits)) /\ UNCHANGED deviceVars
  BY <1>1, <1>6 DEF DeviceInv, deviceVars, Fresh
<1>7. QED
  BY <1>2, <1>3, <1>4, <1>5, <1>6 DEF Device!ClockFalls, deviceVars, Device!deviceVars

LEMMA SeenKeeps ==
  ASSUME EightBits, DeviceInv, Device!StartSeen \/ Device!StopSeen
  PROVE  DeviceInv'
<1>1. Bits \in Nat /\ 0 \in Device!Byte /\ MemSize \in Nat /\ MemSize > 0
  BY ConstantsAssumption, ZeroByte
<1>2. CASE Device!StartSeen
  <2>1. /\ mode' = "device" /\ count' = 0 /\ shift' = 0 /\ hold' = FALSE
        /\ pending' = <<>> /\ pointer' = pointer /\ mem' = mem
    BY <1>2 DEF Device!StartSeen
  <2>2. QED
    BY <1>1, <2>1 DEF DeviceInv, Device!Modes
<1>3. CASE Device!StopSeen
  <2>1. mode' = "idle" /\ count' = 0 /\ shift' = 0 /\ hold' = FALSE /\ pending' = <<>>
    BY <1>3 DEF Device!StopSeen
  <2>2. pointer' \in 0..(MemSize - 1) /\ mem' \in [0..(MemSize - 1) -> Device!Byte]
    <3>1. CASE mode = "data" /\ count = 1
      <4>1. pointer' = (pointer + Len(pending)) % MemSize
        BY <1>3, <3>1 DEF Device!StopSeen
      <4>2. pointer \in Nat /\ Len(pending) \in Nat
        BY <1>1 DEF DeviceInv
      <4>3. pointer' \in 0..(MemSize - 1)
        BY <1>1, <4>1, <4>2, Z3
      <4>4. DOMAIN mem = 0..(MemSize - 1)
        BY DEF DeviceInv
      <4>5. ASSUME NEW a \in 0..(MemSize - 1)
            PROVE  (IF (a + MemSize - pointer) % MemSize < Len(pending)
                    THEN pending[((a + MemSize - pointer) % MemSize) + 1]
                    ELSE mem[a]) \in Device!Byte
        <5>1. (a + MemSize - pointer) % MemSize \in Nat
          BY <1>1, Z3 DEF DeviceInv
        <5>2. QED
          BY <5>1 DEF DeviceInv
      <4>6. mem' \in [0..(MemSize - 1) -> Device!Byte]
        BY <1>3, <3>1, <4>4, <4>5 DEF Device!StopSeen
      <4>7. QED
        BY <4>3, <4>6
    <3>2. CASE ~(mode = "data" /\ count = 1)
      BY <1>3, <3>2 DEF Device!StopSeen, DeviceInv
    <3>3. QED
      BY <3>1, <3>2
  <2>3. QED
    BY <1>1, <2>1, <2>2 DEF DeviceInv, Device!Modes, Fresh
<1>4. QED
  BY <1>2, <1>3

LEMMA DeviceBegins ==
  ASSUME EightBits, Init
  PROVE  DeviceInv
<1>1. /\ Bits \in Nat /\ 0 \in Device!Byte /\ MemSize \in Nat /\ MemSize > 0
      /\ Values \subseteq Device!Byte
  BY ConstantsAssumption, ZeroByte DEF Device!Byte
<1>2. mem \in [0..(MemSize - 1) -> Device!Byte]
  BY <1>1 DEF Init
<1>3. /\ mode = "idle" /\ count = 0 /\ shift = 0 /\ pointer = 0
      /\ pending = <<>> /\ hold = FALSE
  BY DEF Init, Device!Init
<1>4. Fresh
  BY <1>3 DEF Fresh
<1>5. pending \in Seq(Device!Byte) /\ pointer \in 0..(MemSize - 1)
  BY <1>1, <1>3
<1>6. count \in 0..(Bits + 1) /\ count <= Bits /\ shift \in Device!Byte
  BY <1>1, <1>3
<1>7. QED
  BY <1>2, <1>3, <1>4, <1>5, <1>6 DEF DeviceInv, Device!Modes

LEMMA DeviceKept ==
  ASSUME EightBits, Flow, DeviceInv, [Next]_vars
  PROVE  DeviceInv'
<1>1. DeviceMove
  BY DeviceMoves
<1>2. ASSUME UNCHANGED deviceVars, scl' = scl PROVE DeviceInv'
  BY <1>2 DEF DeviceInv, deviceVars, Fresh
<1>3. QED
  BY <1>1, <1>2, RiseKeeps, FallKeeps, SeenKeeps DEF DeviceMove
-----------------------------------------------------------------------------
(* Types.                                                                   *)

DriverTypes ==
  result \in Seq(Device!Byte) /\ data \in Device!Byte /\ resets \in 0..MaxResets

TypeInv == PortInv /\ DeviceInv /\ DriverTypes

LEMMA DriverTypesKept ==
  ASSUME EightBits, DriverTypes, [Next]_vars
  PROVE  DriverTypes'
<1>1. 0 \in Device!Byte
  BY ZeroByte
<1>2. CASE Start \/ Stop \/ WriteByte \/ UNCHANGED vars
  BY <1>2 DEF Start, Stop, WriteByte, vars, driverVars, DriverTypes
<1>3. CASE ReadByte
  <2>1. data' = Device!WithBit(data, Sda) \/ data' = 0 \/ data' = data
    BY <1>3 DEF ReadByte
  <2>2. data' \in Device!Byte
    BY <1>1, <2>1, WithBitByte DEF DriverTypes
  <2>3. result' = Append(result, data) \/ result' = result
    BY <1>3 DEF ReadByte
  <2>4. result' \in Seq(Device!Byte)
    BY <2>3 DEF DriverTypes
  <2>5. resets' = resets
    BY <1>3 DEF ReadByte
  <2>6. QED
    BY <2>2, <2>4, <2>5 DEF DriverTypes
<1>4. CASE Call
  <2>1. result' = <<>> /\ data' = 0 /\ resets' = resets
    BY <1>4 DEF Call
  <2>2. QED
    BY <1>1, <2>1 DEF DriverTypes
<1>5. CASE Reset
  <2>1. result' = <<>> /\ data' = 0 /\ resets' = resets + 1 /\ resets < MaxResets
    BY <1>5 DEF Reset
  <2>2. MaxResets \in Nat
    BY ConstantsAssumption
  <2>3. QED
    BY <1>1, <2>1, <2>2 DEF DriverTypes
<1>6. QED
  BY <1>2, <1>3, <1>4, <1>5 DEF Next, Step

LEMMA TypeInvBegins ==
  ASSUME EightBits, Init
  PROVE  TypeInv
<1>1. 0 \in Device!Byte /\ MaxResets \in Nat
  BY ZeroByte, ConstantsAssumption
<1>2. result = <<>> /\ data = 0 /\ resets = 0
  BY DEF Init
<1>3. DriverTypes
  BY <1>1, <1>2 DEF DriverTypes
<1>4. QED
  BY <1>3, PortInvBegins, DeviceBegins DEF TypeInv

LEMMA TypeInvKept ==
  ASSUME EightBits, TypeInv, [Next]_vars
  PROVE  TypeInv'
BY PortInvKept, DeviceKept, DriverTypesKept DEF TypeInv, PortInv

\* The types, for every address, value, length and number of resets.
THEOREM I2cTypeCorrect == ASSUME EightBits PROVE Spec => []TypeOK
<1>1. Init => TypeInv
  BY TypeInvBegins
<1>2. TypeInv /\ [Next]_vars => TypeInv'
  BY TypeInvKept
<1>3. TypeInv => TypeOK
  BY DEF TypeInv, PortInv, Flow, Where, DeviceInv, DriverTypes, TypeOK
<1>4. QED
  BY <1>1, <1>2, <1>3, PTL DEF Spec

\* A byte that is written is a byte.
LEMMA ArgumentByte ==
  ASSUME EightBits, NEW c \in Calls, NEW i \in 1..Count(c), KindAt(c, i) = "i2c_write"
  PROVE  FunctionAt(c, i).arg \in Device!Byte
<1>1. Count(c) \in Nat /\ Count(c) >= 5
  BY CallTypes
<1>2. \/ i = 2 \/ i = 3
      \/ i = 4 /\ c.fn = "I2C_Write"
      \/ i = 5 /\ c.fn # "I2C_Write"
  <2>1. i # 1 /\ i # Count(c) /\ i <= 5 /\ (i = 4 => c.fn = "I2C_Write")
    BY DEF KindAt
  <2>2. c.fn = "I2C_Write" => Count(c) = 5
    BY DEF Count
  <2>3. QED
    BY <1>1, <2>1, <2>2
<1>3. /\ DeviceAddr \in Device!Byte /\ DeviceAddr + 1 \in Device!Byte /\ 0 \in Device!Byte
      /\ Addrs \subseteq Device!Byte /\ Values \subseteq Device!Byte
  BY ConstantsAssumption, ByteValues
<1>4. CellAddr(c) \in Device!Byte /\ (c.fn = "I2C_Write" => c.value \in Device!Byte)
  BY <1>3, CallKinds DEF CellAddr
<1>5. QED
  BY <1>2, <1>3, <1>4, Arguments
-----------------------------------------------------------------------------
(* The functions of a call in order, and what the EEPROM does at an edge.   *)

LEMMA KindsInOrder ==
  ASSUME NEW c \in Calls
  PROVE  /\ Count(c) \in Nat
         /\ KindAt(c, 1) = "i2c_start"
         /\ KindAt(c, 2) = "i2c_write" /\ KindAt(c, 3) = "i2c_write"
         /\ c.fn = "I2C_Write" =>
              Count(c) = 5 /\ KindAt(c, 4) = "i2c_write" /\ KindAt(c, 5) = "i2c_stop"
         /\ c.fn # "I2C_Write" =>
              /\ Count(c) >= 7 /\ KindAt(c, 4) = "i2c_start" /\ KindAt(c, 5) = "i2c_write"
              /\ \A i \in 6..(Count(c) - 1) : KindAt(c, i) = "i2c_read"
         /\ KindAt(c, Count(c)) = "i2c_stop"
<1>1. /\ Count(c) \in Nat
      /\ c.fn = "I2C_Write" => Count(c) = 5
      /\ c.fn # "I2C_Write" => Count(c) >= 7
  BY CallKinds, CallTypes DEF Count
<1>2. Count(c) >= 5
  BY <1>1
<1>3. KindAt(c, 1) = "i2c_start" /\ KindAt(c, 2) = "i2c_write" /\ KindAt(c, 3) = "i2c_write"
  BY <1>1, <1>2 DEF KindAt
<1>4. c.fn = "I2C_Write" => KindAt(c, 4) = "i2c_write" /\ KindAt(c, 5) = "i2c_stop"
  BY <1>1 DEF KindAt
<1>5. c.fn # "I2C_Write" => KindAt(c, 4) = "i2c_start" /\ KindAt(c, 5) = "i2c_write"
  BY <1>1 DEF KindAt
<1>6. ASSUME c.fn # "I2C_Write", NEW i \in 6..(Count(c) - 1)
      PROVE  KindAt(c, i) = "i2c_read"
  <2>1. i # 1 /\ i # 4 /\ i # Count(c) /\ ~(i <= 5)
    BY <1>1, <1>6
  <2>2. QED
    BY <2>1 DEF KindAt
<1>7. KindAt(c, Count(c)) = "i2c_stop"
  <2>1. Count(c) # 1 /\ Count(c) # 4
    BY <1>1, <1>2
  <2>2. QED
    BY <2>1 DEF KindAt
<1>8. QED
  BY <1>1, <1>3, <1>4, <1>5, <1>6, <1>7

LEMMA AfterSuccess ==
  ASSUME Where, ~Returned, ok, call' = call, ok' = ok, Leaves
  PROVE  index' = index + 1
BY DEF Leaves, Successor

LEMMA AfterFailure ==
  ASSUME Where, ~Returned, ~ok, call' = call, ok' = ok, Leaves, Current.fn # "i2c_stop"
  PROVE  \/ /\ call.fn = "I2C_Read" /\ index <= 3 /\ index' = 4
            /\ ~Returned' /\ Current'.fn = "i2c_start"
         \/ index' = Count(call) /\ ~Returned' /\ Current'.fn = "i2c_stop"
<1>1. /\ ~Returned' /\ Current'.fn = KindAt(call, index')
      /\ call \in Calls /\ Count(call) \in Nat /\ index \in Nat /\ index <= Count(call)
      /\ index' \in 1..Count(call)
  BY NextPlace, Running
<1>2. CASE index >= Count(call) - 1
  <2>1. index' = index + 1
    BY <1>2 DEF Leaves, Successor
  <2>2. index' = Count(call)
    BY <1>1, <1>2, <2>1
  <2>3. QED
    BY <1>1, <2>2, KindsInOrder
<1>3. CASE ~(index >= Count(call) - 1)
  <2>1. index' = IF call.fn = "I2C_Read" /\ index <= 3 THEN 4 ELSE Count(call)
    BY <1>3 DEF Leaves, Successor
  <2>2. QED
    BY <1>1, <2>1, KindsInOrder
<1>4. QED
  BY <1>2, <1>3

LEMMA Rises ==
  ASSUME DeviceInv, NEW sda, Device!ClockRises(sda)
  PROVE  /\ mode = "idle" => UNCHANGED deviceVars
         /\ Device!Receiving =>
              /\ mode' = mode /\ count' = count + 1 /\ hold' = hold
              /\ shift' = IF count < Bits THEN Device!WithBit(shift, sda) ELSE shift
         /\ (mode = "sending" /\ ~(count = Bits /\ sda)) =>
              mode' = mode /\ count' = count + 1 /\ shift' = shift /\ hold' = hold
         /\ (mode = "sending" /\ count = Bits /\ sda) =>
              mode' = "idle" /\ count' = 0 /\ shift' = 0 /\ hold' = hold
         /\ ~Device!Receiving => ~Device!Receiving'
         /\ pointer' = pointer /\ pending' = pending /\ mem' = mem
<1>1. /\ UNCHANGED <<pointer, pending, mem, hold>>
      /\ IF mode = "idle" \/ (mode = "sending" /\ count = Bits /\ sda)
         THEN mode' = "idle" /\ count' = 0 /\ shift' = 0
         ELSE /\ mode' = mode /\ count' = count + 1
              /\ shift' = IF Device!Receiving /\ count < Bits
                          THEN Device!WithBit(shift, sda) ELSE shift
  BY DEF Device!ClockRises
<1>2. mode = "idle" => UNCHANGED deviceVars
  BY <1>1 DEF DeviceInv, Fresh, deviceVars
<1>3. Device!Receiving => mode # "idle" /\ mode # "sending"
  BY DEF Device!Receiving
<1>4. mode = "sending" => ~Device!Receiving /\ mode # "idle"
  BY DEF Device!Receiving
<1>5. ~Device!Receiving => ~Device!Receiving'
  BY <1>1 DEF Device!Receiving
<1>6. Device!Receiving =>
        /\ mode' = mode /\ count' = count + 1 /\ hold' = hold
        /\ shift' = IF count < Bits THEN Device!WithBit(shift, sda) ELSE shift
  BY <1>1, <1>3
<1>7. (mode = "sending" /\ ~(count = Bits /\ sda)) =>
        mode' = mode /\ count' = count + 1 /\ shift' = shift /\ hold' = hold
  BY <1>1, <1>4
<1>8. (mode = "sending" /\ count = Bits /\ sda) =>
        mode' = "idle" /\ count' = 0 /\ shift' = 0 /\ hold' = hold
  BY <1>1
<1>9. QED
  BY <1>1, <1>2, <1>5, <1>6, <1>7, <1>8

LEMMA Falls ==
  ASSUME DeviceInv, Device!ClockFalls
  PROVE  /\ mode = "idle" => UNCHANGED deviceVars
         /\ (Device!Receiving /\ count < Bits) => UNCHANGED deviceVars
         /\ (Device!Receiving /\ count = Bits) =>
              \/ /\ mode' = mode /\ count' = count /\ shift' = shift /\ hold' = TRUE
                 /\ pointer' = pointer /\ pending' = pending /\ mem' = mem
              \/ /\ mode' = "idle" /\ pointer' = pointer /\ pending' = pending /\ mem' = mem
         /\ (Device!Receiving /\ count = Bits + 1) => Device!TakeByte
         /\ mode = "sending" => Device!SendBit
         /\ ~Device!Receiving => ~Device!Receiving'
<1>1. Bits \in Nat /\ count \in Nat /\ mode \in Device!Modes
  BY ConstantsAssumption DEF DeviceInv
<1>2. \/ Device!Acknowledge \/ Device!LeaveUnacknowledged \/ Device!TakeByte \/ Device!SendBit
      \/ (mode = "idle" \/ (Device!Receiving /\ count < Bits)) /\ UNCHANGED deviceVars
  BY DEF Device!ClockFalls, deviceVars, Device!deviceVars
<1>3. Device!Receiving => mode # "idle" /\ mode # "sending"
  BY DEF Device!Receiving
<1>4. Device!Acknowledge =>
        /\ Device!Receiving /\ count = Bits
        /\ mode' = mode /\ count' = count /\ shift' = shift /\ hold' = TRUE
        /\ pointer' = pointer /\ pending' = pending /\ mem' = mem
  BY DEF Device!Acknowledge
<1>5. Device!LeaveUnacknowledged =>
        /\ Device!Receiving /\ count = Bits
        /\ mode' = "idle" /\ pointer' = pointer /\ pending' = pending /\ mem' = mem
  BY DEF Device!LeaveUnacknowledged
<1>6. Device!TakeByte => Device!Receiving /\ count = Bits + 1
  BY DEF Device!TakeByte
<1>7. Device!SendBit => mode = "sending"
  BY DEF Device!SendBit
<1>8. (count < Bits => count # Bits /\ count # Bits + 1) /\ (count = Bits => count # Bits + 1)
  BY <1>1
<1>9. (count = Bits => ~(count < Bits)) /\ (count = Bits + 1 => ~(count < Bits))
  BY <1>1
<1>10. Device!SendBit => ~Device!Receiving'
  BY DEF Device!SendBit, Device!SendNext, Device!Receiving
<1>11. UNCHANGED deviceVars => (Device!Receiving' => Device!Receiving)
  BY DEF deviceVars, Device!Receiving
<1>12. mode = "idle" => ~Device!Receiving /\ mode # "sending"
  BY DEF Device!Receiving
<1>13. mode = "sending" => ~Device!Receiving /\ mode # "idle"
  BY DEF Device!Receiving
<1>14. QED
  BY <1>2, <1>3, <1>4, <1>5, <1>6, <1>7, <1>8, <1>9, <1>10, <1>11, <1>12, <1>13, Zenon

\* After a falling edge the EEPROM holds SDA for the acknowledge or not at
\* all, if it receives.
Settled == count \in 0..Bits /\ (count = Bits => hold) /\ (count < Bits => ~hold)

LEMMA FallSettles ==
  ASSUME DeviceInv, Device!ClockFalls, Device!Receiving', count < Bits => ~hold
  PROVE  Device!Receiving /\ Settled'
<1>1. Device!Receiving
  BY Falls, Zenon
<1>2. Bits \in Nat /\ Bits > 0 /\ count \in 0..(Bits + 1)
  BY ConstantsAssumption DEF DeviceInv
<1>3. CASE count < Bits
  <2>1. UNCHANGED deviceVars
    BY <1>1, <1>3, Falls, Zenon
  <2>2. QED
    BY <1>1, <1>2, <1>3, <2>1 DEF Settled, deviceVars
<1>4. CASE count = Bits
  <2>1. mode' # "idle"
    BY DEF Device!Receiving
  <2>2. count' = count /\ hold' = TRUE
    BY <1>1, <1>4, <2>1, Falls, Zenon
  <2>3. QED
    BY <1>1, <1>2, <1>4, <2>2 DEF Settled
<1>5. CASE count = Bits + 1
  <2>1. Device!TakeByte
    BY <1>1, <1>5, Falls, Zenon
  <2>2. mode' # "sending"
    BY DEF Device!Receiving
  <2>3. count' = 0 /\ hold' = FALSE
    BY <2>1, <2>2 DEF Device!TakeByte, Device!SendNext
  <2>4. QED
    BY <1>1, <1>2, <2>3 DEF Settled
<1>6. QED
  BY <1>2, <1>3, <1>4, <1>5
-----------------------------------------------------------------------------
(* What an EEPROM hears that is receiving, resets included: it is in step   *)
(* with the driver within a byte, though it may take the byte for another   *)
(* one of the transfer.                                                     *)

\* What it may take the i-th function's byte for.
Heard(i) ==
  IF i = 2 THEN {"device", "control", "data"}
  ELSE IF i = 3 THEN {"control", "data"}
  ELSE IF i = 4 THEN {"data"}
  ELSE {"device"}

StartHeard ==
  /\ line \in 1..3 => IF index = 1 THEN ~scl /\ Settled ELSE mode = "data" /\ Fresh
  /\ line = 4 => (hold => index = 1 /\ count = Bits + 1)
  /\ line = 5 => \/ mode = "device" /\ Fresh
                 \/ index = 1 /\ hold /\ count = Bits + 1

WriteHeard ==
  /\ mode \in Heard(index)
  /\ line \in 1..4 => ~hold /\ count = bit /\ shift = Top(Current.arg, bit)
  /\ line = 5 => ~hold /\ count = bit + 1 /\ shift = Top(Current.arg, bit + 1)
  /\ line \in 6..7 => hold /\ count = Bits /\ shift = Current.arg
  /\ line \in 8..9 => hold /\ count = Bits + 1 /\ shift = Current.arg
  /\ line = 9 => ok

StopHeard ==
  /\ line \in 1..3 => Fresh
  /\ line = 4 => ~hold
  /\ IF call.fn = "I2C_Write" THEN ok ELSE mode = "device" /\ ~ok

Listening ==
  Device!Receiving =>
    /\ Returned => call = NoCall /\ Settled
    /\ ~Returned => Current.fn # "i2c_read"
    /\ (~Returned /\ Current.fn = "i2c_start") => StartHeard
    /\ (~Returned /\ Current.fn = "i2c_write") => WriteHeard
    /\ (~Returned /\ Current.fn = "i2c_stop") => StopHeard

HearInv == TypeInv /\ Listening

\* A byte begins.
LEMMA EntersWrite ==
  ASSUME EightBits, Where, ~Returned, call' = call, ok' = ok, Leaves,
         Current.fn # "i2c_stop", Current'.fn = "i2c_write", mode' \in Heard(index'), Fresh'
  PROVE  WriteHeard'
<1>1. /\ index' \in 1..Count(call) /\ Current' = FunctionAt(call, index')
      /\ Current'.fn = KindAt(call, index')
  BY NextPlace
<1>2. call \in Calls
  BY Running
<1>3. Current'.arg \in Device!Byte
  BY <1>1, <1>2, ArgumentByte
<1>4. Top(Current'.arg, 0) = 0
  BY <1>3, TopBits
<1>5. line' = 1 /\ bit' = 0
  BY DEF Leaves
<1>6. count' = 0 /\ shift' = 0 /\ ~hold'
  BY DEF Fresh
<1>7. (mode \in Heard(index))'
  BY DEF Heard
<1>8. QED
  BY <1>4, <1>5, <1>6, <1>7 DEF WriteHeard

LEMMA StartHears ==
  ASSUME EightBits, HearInv, Start
  PROVE  Listening'
<1> SUFFICES ASSUME Device!Receiving'
             PROVE  Listening'
  BY DEF Listening
<1>1. /\ Where /\ ~Returned /\ Current.fn = "i2c_start" /\ line \in 1..5
      /\ scl \in BOOLEAN /\ dir \in BOOLEAN /\ out \in BOOLEAN /\ ok \in BOOLEAN
      /\ StartPorts /\ DeviceInv /\ (index = 1 => ok) /\ Bits \in Nat /\ Bits > 0
  BY ConstantsAssumption
     DEF HearInv, TypeInv, PortInv, Flow, Start, Position, Where, Ports
<1>2. StartSteps /\ call' = call /\ ok' = ok
  BY <1>1, StartMoves DEF StartSteps
<1>3. Device!Receiving => StartHeard
  BY <1>1 DEF HearInv, Listening
<1>4. ASSUME index' = index, StartHeard' PROVE Listening'
  <2>1. ~Returned' /\ Current' = Current
    BY <1>1, <1>2, <1>4, SamePlace
  <2>2. QED
    BY <1>1, <1>4, <2>1 DEF Listening
<1>5. ASSUME UNCHANGED deviceVars PROVE Device!Receiving
  BY <1>5 DEF deviceVars, Device!Receiving
<1>6. ASSUME UNCHANGED deviceVars, scl' = scl, index' = index, line \in 1..2, line' \in 2..3
      PROVE  Listening'
  <2>1. StartHeard
    BY <1>3, <1>5, <1>6
  <2>2. StartHeard'
    BY <1>1, <1>6, <2>1 DEF StartHeard, Settled, Fresh, deviceVars
  <2>3. QED
    BY <1>4, <1>6, <2>2
<1>7. CASE line = 1 /\ SetSda(TRUE, out) /\ Goes(2)
  <2>1. scl => dir /\ out
    BY <1>1, <1>7 DEF StartPorts
  <2>2. UNCHANGED deviceVars /\ scl' = scl /\ index' = index /\ line' = 2
    BY <1>7, <2>1 DEF SetSda, Sda, Goes
  <2>3. QED
    BY <1>6, <1>7, <2>2
<1>8. CASE line = 2 /\ SetSda(dir, TRUE) /\ Goes(3)
  <2>1. scl => dir /\ out
    BY <1>1, <1>8 DEF StartPorts
  <2>2. UNCHANGED deviceVars /\ scl' = scl /\ index' = index /\ line' = 3
    BY <1>8, <2>1 DEF SetSda, Sda, Goes
  <2>3. QED
    BY <1>6, <1>8, <2>2
<1>9. CASE line = 3 /\ SetScl(TRUE) /\ Goes(4)
  <2>1. index' = index /\ line' = 4
    BY <1>9 DEF Goes
  <2>2. CASE scl
    <3>1. UNCHANGED deviceVars
      BY <1>9, <2>2 DEF SetScl
    <3>2. StartHeard
      BY <1>3, <1>5, <3>1
    <3>3. QED
      BY <1>1, <1>9, <2>2, <3>2 DEF StartHeard, StartPorts
  <2>3. CASE ~scl
    <3>1. Device!ClockRises(Sda)
      BY <1>9, <2>3 DEF SetScl
    <3>2. /\ Device!Receiving /\ count' = count + 1 /\ hold' = hold
      BY <1>1, <3>1, Rises, Zenon
    <3>3. StartHeard
      BY <1>3, <3>2
    <3>4. hold => index = 1 /\ count = Bits
      BY <1>1, <1>9, <3>3 DEF StartHeard, Settled, Fresh
    <3>5. StartHeard'
      BY <1>1, <2>1, <3>2, <3>4 DEF StartHeard
    <3>6. QED
      BY <1>4, <2>1, <3>5
  <2>4. QED
    BY <2>2, <2>3
<1>10. CASE line = 4 /\ SetSda(dir, FALSE) /\ Goes(5)
  <2>1. index' = index /\ line' = 5
    BY <1>10 DEF Goes
  <2>2. scl /\ dir /\ out
    BY <1>1, <1>10 DEF StartPorts
  <2>3. CASE hold
    <3>1. UNCHANGED deviceVars
      BY <1>10, <2>2, <2>3 DEF SetSda, Sda
    <3>2. StartHeard
      BY <1>3, <1>5, <3>1
    <3>3. index = 1 /\ hold /\ count = Bits + 1
      BY <1>10, <2>3, <3>2 DEF StartHeard
    <3>4. StartHeard'
      BY <2>1, <3>1, <3>3 DEF StartHeard, deviceVars
    <3>5. QED
      BY <1>4, <2>1, <3>4
  <2>4. CASE ~hold
    <3>1. Device!StartSeen
      BY <1>10, <2>2, <2>4 DEF SetSda, Sda
    <3>2. mode' = "device" /\ count' = 0 /\ shift' = 0 /\ hold' = FALSE
      BY <3>1 DEF Device!StartSeen
    <3>3. StartHeard'
      BY <2>1, <3>2 DEF StartHeard, Fresh
    <3>4. QED
      BY <1>4, <2>1, <3>3
  <2>5. QED
    BY <2>3, <2>4
<1>11. CASE line = 5 /\ SetScl(FALSE) /\ Leaves
  <2>1. scl
    BY <1>1, <1>11 DEF StartPorts
  <2>2. Device!ClockFalls
    BY <1>11, <2>1 DEF SetScl
  <2>3. Device!Receiving
    BY <1>1, <2>2, Falls, Zenon
  <2>4. \/ mode = "device" /\ Fresh
        \/ index = 1 /\ hold /\ count = Bits + 1
    BY <1>3, <1>11, <2>3 DEF StartHeard
  <2>5. /\ mode' \in {"device", "control", "data"} /\ Fresh'
        /\ index # 1 => mode' = "device"
    <3>1. CASE mode = "device" /\ Fresh
      <4>1. count < Bits
        BY <1>1, <3>1 DEF Fresh
      <4>2. UNCHANGED deviceVars
        BY <1>1, <2>2, <2>3, <4>1, Falls, Zenon
      <4>3. QED
        BY <3>1, <4>2 DEF deviceVars, Fresh
    <3>2. CASE index = 1 /\ hold /\ count = Bits + 1
      <4>1. Device!TakeByte
        BY <1>1, <2>2, <2>3, <3>2, Falls, Zenon
      <4>2. mode' # "sending"
        BY DEF Device!Receiving
      <4>3. QED
        BY <3>2, <4>1, <4>2 DEF Device!TakeByte, Device!SendNext, Fresh
    <3>3. QED
      BY <2>4, <3>1, <3>2
  <2>6. /\ call \in Calls /\ index \in Nat /\ index >= 1 /\ index <= Count(call)
        /\ KindAt(call, index) = "i2c_start"
    BY <1>1, Running
  <2>7. index = 1 \/ (index = 4 /\ call.fn # "I2C_Write")
    BY <2>6 DEF KindAt
  <2>8. /\ ~Returned' /\ Current'.fn = KindAt(call, index')
    BY <1>1, <1>2, <1>11, NextPlace
  <2>9. CASE ok
    <3>1. index' = index + 1
      BY <1>1, <1>2, <1>11, <2>9, AfterSuccess
    <3>2. index' = 2 \/ (index' = 5 /\ index # 1)
      BY <2>7, <3>1
    <3>3. Current'.fn = "i2c_write"
      BY <2>6, <2>7, <2>8, <3>1, <3>2, KindsInOrder
    <3>4. mode' \in Heard(index')
      BY <2>5, <3>2 DEF Heard
    <3>5. WriteHeard'
      BY <1>1, <1>2, <1>11, <2>5, <3>3, <3>4, EntersWrite
    <3>6. QED
      BY <2>8, <3>3, <3>5 DEF Listening
  <2>10. CASE ~ok
    <3>1. index = 4 /\ call.fn # "I2C_Write" /\ mode' = "device"
      BY <1>1, <2>5, <2>7, <2>10
    <3>2. Current'.fn = "i2c_stop" /\ ~Returned'
      BY <1>1, <1>2, <1>11, <2>10, <3>1, AfterFailure
    <3>3. StopHeard'
      BY <1>2, <1>11, <2>5, <2>10, <3>1 DEF StopHeard, Leaves
    <3>4. QED
      BY <3>2, <3>3 DEF Listening
  <2>11. QED
    BY <2>9, <2>10
<1>12. QED
  BY <1>2, <1>7, <1>8, <1>9, <1>10, <1>11, Zenon DEF StartSteps

LEMMA StopHears ==
  ASSUME EightBits, HearInv, Stop
  PROVE  Listening'
<1> SUFFICES ASSUME Device!Receiving'
             PROVE  Listening'
  BY DEF Listening
<1>1. /\ Where /\ ~Returned /\ Current.fn = "i2c_stop" /\ line \in 1..4
      /\ scl \in BOOLEAN /\ StopPorts /\ DeviceInv
  BY DEF HearInv, TypeInv, PortInv, Flow, Stop, Position, Ports
<1>2. StopSteps /\ call' = call /\ ok' = ok
  BY <1>1, StopMoves DEF StopSteps
<1>3. Device!Receiving => StopHeard
  BY <1>1 DEF HearInv, Listening
<1>4. ASSUME index' = index, StopHeard' PROVE Listening'
  <2>1. ok' \in BOOLEAN
    BY <1>1, <1>2 DEF Where
  <2>2. ~Returned' /\ Current' = Current
    BY <1>1, <1>2, <1>4, <2>1, SamePlace
  <2>3. QED
    BY <1>1, <1>4, <2>2 DEF Listening
<1>5. ASSUME UNCHANGED deviceVars PROVE Device!Receiving
  BY <1>5 DEF deviceVars, Device!Receiving
<1>6. ASSUME UNCHANGED deviceVars, index' = index, line \in 1..2, line' \in 2..3
      PROVE  Listening'
  <2>1. StopHeard
    BY <1>3, <1>5, <1>6
  <2>2. StopHeard'
    BY <1>2, <1>6, <2>1 DEF StopHeard, Fresh, deviceVars
  <2>3. QED
    BY <1>4, <1>6, <2>2
<1>7. CASE line = 1 /\ SetSda(TRUE, out) /\ Goes(2)
  <2>1. UNCHANGED deviceVars /\ index' = index /\ line' = 2
    BY <1>1, <1>7 DEF SetSda, StopPorts, Goes
  <2>2. QED
    BY <1>6, <1>7, <2>1
<1>8. CASE line = 2 /\ SetSda(dir, FALSE) /\ Goes(3)
  <2>1. UNCHANGED deviceVars /\ index' = index /\ line' = 3
    BY <1>1, <1>8 DEF SetSda, StopPorts, Goes
  <2>2. QED
    BY <1>6, <1>8, <2>1
<1>9. CASE line = 3 /\ SetScl(TRUE) /\ Goes(4)
  <2>1. Device!ClockRises(Sda)
    BY <1>1, <1>9 DEF SetScl, StopPorts
  <2>2. Device!Receiving /\ mode' = mode /\ hold' = hold
    BY <1>1, <2>1, Rises, Zenon
  <2>3. StopHeard /\ line = 3
    BY <1>3, <1>9, <2>2
  <2>4. index' = index /\ line' = 4
    BY <1>9 DEF Goes
  <2>5. StopHeard'
    BY <1>2, <2>2, <2>3, <2>4 DEF StopHeard, Fresh
  <2>6. QED
    BY <1>4, <2>4, <2>5
<1>10. CASE line = 4 /\ SetSda(dir, TRUE) /\ Leaves
  <2>1. scl /\ dir /\ ~out
    BY <1>1, <1>10 DEF StopPorts
  <2>2. CASE hold
    <3>1. UNCHANGED deviceVars
      BY <1>10, <2>1, <2>2 DEF SetSda, Sda
    <3>2. ~hold
      BY <1>3, <1>5, <1>10, <3>1 DEF StopHeard
    <3>3. QED
      BY <2>2, <3>2
  <2>3. CASE ~hold
    <3>1. Device!StopSeen
      BY <1>10, <2>1, <2>3 DEF SetSda, Sda
    <3>2. QED
      BY <3>1 DEF Device!StopSeen, Device!Receiving
  <2>4. QED
    BY <2>2, <2>3
<1>11. QED
  BY <1>2, <1>7, <1>8, <1>9, <1>10, Zenon DEF StopSteps

LEMMA ReadHears ==
  ASSUME EightBits, HearInv, ReadByte
  PROVE  Listening'
<1>1. /\ Where /\ ~Returned /\ Current.fn = "i2c_read" /\ line \in 1..11
      /\ scl \in BOOLEAN /\ ReadPorts /\ DeviceInv
  BY DEF HearInv, TypeInv, PortInv, Flow, ReadByte, Position, Ports
<1>2. ~Device!Receiving
  BY <1>1 DEF HearInv, Listening
<1>3. ReadSteps
  BY <1>1, ReadMoves
<1>4. ASSUME UNCHANGED deviceVars \/ (\E sda : Device!ClockRises(sda)) \/ Device!ClockFalls
      PROVE  ~Device!Receiving'
  <2>1. ASSUME UNCHANGED deviceVars PROVE ~Device!Receiving'
    BY <1>2, <2>1 DEF Device!Receiving, deviceVars
  <2>2. ASSUME NEW sda, Device!ClockRises(sda) PROVE ~Device!Receiving'
    BY <1>1, <1>2, <2>2, Rises, Zenon
  <2>3. ASSUME Device!ClockFalls PROVE ~Device!Receiving'
    BY <1>1, <1>2, <2>3, Falls, Zenon
  <2>4. QED
    BY <1>4, <2>1, <2>2, <2>3, Zenon
<1>5. ASSUME NEW level \in BOOLEAN, SetScl(level) PROVE ~Device!Receiving'
  <2>1. UNCHANGED deviceVars \/ Device!ClockRises(Sda) \/ Device!ClockFalls
    BY <1>5 DEF SetScl
  <2>2. QED
    BY <1>4, <2>1, Zenon
<1>6. ASSUME NEW d, NEW o, SetSda(d, o), ~scl PROVE ~Device!Receiving'
  BY <1>4, <1>6 DEF SetSda
<1>7. (line = 1 \/ line = 7 \/ line = 8 \/ line = 11) => ~scl
  BY <1>1 DEF ReadPorts
<1>8. SetScl(TRUE) \/ SetScl(FALSE) => ~Device!Receiving'
  BY <1>5
<1>9. ASSUME UNCHANGED <<lineVars, deviceVars>> PROVE ~Device!Receiving'
  BY <1>4, <1>9
<1>10. ~Device!Receiving'
  BY <1>3, <1>6, <1>7, <1>8, <1>9, Zenon DEF ReadSteps
<1>11. QED
  BY <1>10 DEF Listening

LEMMA HearKept ==
  ASSUME EightBits, HearInv, Call \/ Reset \/ UNCHANGED vars
  PROVE  Listening'
<1> SUFFICES ASSUME Device!Receiving'
             PROVE  Listening'
  BY DEF Listening
<1>1. /\ Where /\ Flow /\ scl \in BOOLEAN /\ Ports /\ DeviceInv /\ Bits \in Nat /\ Bits > 0
  BY ConstantsAssumption DEF HearInv, TypeInv, PortInv, Flow
<1>2. CASE Call
  <2>1. /\ Device!Receiving /\ Returned /\ UNCHANGED deviceVars /\ scl' = scl
    BY <1>2 DEF Call, deviceVars, lineVars, Device!Receiving
  <2>2. call = NoCall /\ Settled
    BY <2>1 DEF HearInv, Listening
  <2>3. ~scl
    BY <1>1, <2>1, <2>2 DEF Ports, RestingPorts
  <2>4. ~Returned' /\ Current'.fn = "i2c_start" /\ index' = 1 /\ line' = 1
    BY <1>2, FirstPlace DEF Call
  <2>5. StartHeard'
    BY <2>1, <2>2, <2>3, <2>4 DEF StartHeard, Settled, deviceVars
  <2>6. QED
    BY <2>4, <2>5 DEF Listening
<1>3. CASE Reset
  <2>1. call' = NoCall /\ Returned'
    BY <1>3, NoPlace DEF Reset
  <2>2. CASE ~scl
    <3>1. UNCHANGED deviceVars
      BY <1>3, <2>2 DEF Reset
    <3>2. Device!Receiving
      BY <3>1 DEF deviceVars, Device!Receiving
    <3>3. Settled
      <4>1. CASE Returned
        BY <3>2, <4>1 DEF HearInv, Listening
      <4>2. CASE ~Returned
        <5>1. Current.fn # "i2c_read" /\ Position
          BY <1>1, <3>2, <4>2 DEF HearInv, Listening, Flow
        <5>2. CASE Current.fn = "i2c_start"
          <6>1. line \in 1..3
            BY <1>1, <2>2, <4>2, <5>1, <5>2 DEF Ports, StartPorts, Position, Flow
          <6>2. StartHeard
            BY <3>2, <4>2, <5>2 DEF HearInv, Listening
          <6>3. QED
            BY <1>1, <6>1, <6>2 DEF StartHeard, Settled, Fresh
        <5>3. CASE Current.fn = "i2c_write"
          <6>1. line \in 1..4 \/ line \in 6..7
            BY <1>1, <2>2, <4>2, <5>1, <5>3 DEF Ports, WritePorts, Position, Flow
          <6>2. WriteHeard
            BY <3>2, <4>2, <5>3 DEF HearInv, Listening
          <6>3. bit \in 0..(Bits - 1)
            BY <1>1 DEF Flow
          <6>4. QED
            BY <1>1, <6>1, <6>2, <6>3 DEF WriteHeard, Settled
        <5>4. CASE Current.fn = "i2c_stop"
          <6>1. line \in 1..3
            BY <1>1, <2>2, <4>2, <5>1, <5>4 DEF Ports, StopPorts, Position, Flow
          <6>2. StopHeard
            BY <3>2, <4>2, <5>4 DEF HearInv, Listening
          <6>3. QED
            BY <1>1, <6>1, <6>2 DEF StopHeard, Settled, Fresh
        <5>5. QED
          BY <5>1, <5>2, <5>3, <5>4 DEF Position
      <4>3. QED
        BY <4>1, <4>2
    <3>4. Settled'
      BY <3>1, <3>3 DEF Settled, deviceVars
    <3>5. QED
      BY <2>1, <3>4 DEF Listening
  <2>3. CASE scl
    <3>1. Device!ClockFalls
      BY <1>3, <2>3 DEF Reset
    <3>2. Device!Receiving
      BY <1>1, <3>1, Falls, Zenon
    <3>3. count < Bits => ~hold
      <4>1. ~Returned
        BY <1>1, <2>3, <3>2 DEF HearInv, Listening, Ports, RestingPorts
      <4>2. Current.fn # "i2c_read" /\ Position
        BY <1>1, <3>2, <4>1 DEF HearInv, Listening, Flow
      <4>3. count \in Nat
        BY <1>1 DEF DeviceInv
      <4>4. CASE Current.fn = "i2c_start"
        <5>1. StartHeard /\ StartPorts /\ line \in 1..5
          BY <1>1, <3>2, <4>1, <4>2, <4>4 DEF HearInv, Listening, Ports, Position
        <5>2. CASE line \in 1..3
          BY <1>1, <2>3, <5>1, <5>2 DEF StartHeard, StartPorts, Fresh
        <5>3. CASE line = 4
          BY <1>1, <4>3, <5>1, <5>3 DEF StartHeard
        <5>4. CASE line = 5
          BY <1>1, <4>3, <5>1, <5>4 DEF StartHeard, Fresh
        <5>5. QED
          BY <5>1, <5>2, <5>3, <5>4
      <4>5. CASE Current.fn = "i2c_write"
        <5>1. WriteHeard /\ WritePorts /\ line \in 1..9
          BY <1>1, <3>2, <4>1, <4>2, <4>5 DEF HearInv, Listening, Ports, Position
        <5>2. line = 5 \/ line \in 8..9
          BY <2>3, <5>1 DEF WritePorts
        <5>3. ~hold \/ count = Bits + 1
          BY <5>1, <5>2 DEF WriteHeard
        <5>4. QED
          BY <1>1, <4>3, <5>3
      <4>6. CASE Current.fn = "i2c_stop"
        <5>1. StopHeard /\ line \in 1..4
          BY <1>1, <3>2, <4>1, <4>2, <4>6 DEF HearInv, Listening, Position
        <5>2. QED
          BY <5>1 DEF StopHeard, Fresh
      <4>7. QED
        BY <4>2, <4>4, <4>5, <4>6 DEF Position
    <3>4. Settled'
      BY <1>1, <3>1, <3>3, FallSettles
    <3>5. QED
      BY <2>1, <3>4 DEF Listening
  <2>4. QED
    BY <2>2, <2>3
<1>4. CASE UNCHANGED vars
  BY <1>4 DEF HearInv, Listening, StartHeard, WriteHeard, StopHeard, Settled, Fresh,
              Heard, Top, Device!Receiving, Returned, Current, vars, lineVars, deviceVars,
              driverVars
<1>5. QED
  BY <1>2, <1>3, <1>4

LEMMA WriteHears ==
  ASSUME EightBits, HearInv, WriteByte
  PROVE  Listening'
<1> SUFFICES ASSUME Device!Receiving'
             PROVE  Listening'
  BY DEF Listening
<1>1. /\ Where /\ ~Returned /\ Current.fn = "i2c_write" /\ line \in 1..9
      /\ line < 2 => bit = 0
      /\ line > 5 => bit = Bits - 1
      /\ scl \in BOOLEAN /\ dir \in BOOLEAN /\ out \in BOOLEAN /\ ok \in BOOLEAN
      /\ WritePorts /\ DeviceInv /\ bit \in 0..(Bits - 1) /\ Bits \in Nat /\ Bits > 0
  BY ConstantsAssumption
     DEF HearInv, TypeInv, PortInv, Flow, WriteByte, Position, Where, Ports
<1>2. /\ WriteSteps /\ call' = call /\ ok' \in BOOLEAN
      /\ ok' = IF line = 8 THEN ~Sda ELSE ok
  BY <1>1, WriteMoves DEF WriteSteps
<1>3. Device!Receiving => WriteHeard
  BY <1>1 DEF HearInv, Listening
<1>4. /\ call \in Calls /\ Count(call) \in Nat /\ index \in 1..Count(call)
      /\ Current = FunctionAt(call, index) /\ KindAt(call, index) = "i2c_write"
      /\ Current.arg \in Device!Byte
  <2>1. /\ call \in Calls /\ Count(call) \in Nat /\ index \in 1..Count(call)
        /\ Current = FunctionAt(call, index) /\ KindAt(call, index) = "i2c_write"
    BY <1>1, Running
  <2>2. QED
    BY <2>1, ArgumentByte
<1>5. ASSUME index' = index PROVE Current' = Current /\ ~Returned'
  BY <1>1, <1>2, <1>5, SamePlace
<1>6. ASSUME index' = index, WriteHeard' PROVE Listening'
  BY <1>1, <1>5, <1>6 DEF Listening
<1>7. ASSUME UNCHANGED deviceVars PROVE Device!Receiving
  BY <1>7 DEF deviceVars, Device!Receiving
<1>8. ASSUME index' = index, mode' = mode PROVE mode \in Heard(index) => (mode \in Heard(index))'
  BY <1>8 DEF Heard
<1>9. CASE line = 1 /\ SetSda(TRUE, out) /\ Goes(2)
  <2>1. UNCHANGED deviceVars /\ index' = index /\ line' = 2 /\ bit' = bit
    BY <1>1, <1>9 DEF SetSda, WritePorts, Goes
  <2>2. WriteHeard
    BY <1>3, <1>7, <2>1
  <2>3. WriteHeard'
    BY <1>5, <1>8, <1>9, <2>1, <2>2 DEF WriteHeard, deviceVars
  <2>4. QED
    BY <1>6, <2>1, <2>3
<1>10. CASE line = 2 /\ SetScl(FALSE) /\ Goes(3)
  <2>1. UNCHANGED deviceVars /\ index' = index /\ line' = 3 /\ bit' = bit
    BY <1>1, <1>10 DEF SetScl, WritePorts, Goes
  <2>2. WriteHeard
    BY <1>3, <1>7, <2>1
  <2>3. WriteHeard'
    BY <1>5, <1>8, <1>10, <2>1, <2>2 DEF WriteHeard, deviceVars
  <2>4. QED
    BY <1>6, <2>1, <2>3
<1>11. CASE line = 3 /\ SetSda(dir, Device!BitOf(Current.arg, bit)) /\ Goes(4)
  <2>1. UNCHANGED deviceVars /\ index' = index /\ line' = 4 /\ bit' = bit
    BY <1>1, <1>11 DEF SetSda, WritePorts, Goes
  <2>2. WriteHeard
    BY <1>3, <1>7, <2>1
  <2>3. WriteHeard'
    BY <1>5, <1>8, <1>11, <2>1, <2>2 DEF WriteHeard, deviceVars
  <2>4. QED
    BY <1>6, <2>1, <2>3
<1>12. CASE line = 4 /\ SetScl(TRUE) /\ Goes(5)
  <2>1. Device!ClockRises(Sda) /\ index' = index /\ line' = 5 /\ bit' = bit
    BY <1>1, <1>12 DEF SetScl, WritePorts, Goes
  <2>2. /\ Device!Receiving /\ mode' = mode /\ count' = count + 1 /\ hold' = hold
        /\ shift' = IF count < Bits THEN Device!WithBit(shift, Sda) ELSE shift
    BY <1>1, <2>1, Rises, Zenon
  <2>3. WriteHeard /\ line = 4
    BY <1>3, <1>12, <2>2
  <2>4. /\ ~hold /\ count = bit /\ shift = Top(Current.arg, bit)
        /\ mode \in Heard(index) /\ dir /\ out = Device!BitOf(Current.arg, bit)
    BY <1>1, <2>3 DEF WriteHeard, WritePorts
  <2>5. Sda = Device!BitOf(Current.arg, bit)
    <3>1. Sda = out
      BY <1>1, <2>4 DEF Sda
    <3>2. QED
      BY <2>4, <3>1
  <2>6. count < Bits
    BY <1>1, <2>4
  <2>7. shift' = Device!WithBit(Top(Current.arg, bit), Device!BitOf(Current.arg, bit))
    BY <2>2, <2>4, <2>5, <2>6
  <2>8. shift' = Top(Current.arg, bit + 1)
    BY <1>1, <1>4, <2>7, NextBit
  <2>9. Current' = Current
    BY <1>5, <2>1
  <2>10. shift' = Top(Current'.arg, bit' + 1) /\ count' = bit' + 1 /\ ~hold'
    BY <2>1, <2>2, <2>4, <2>8, <2>9
  <2>11. WriteHeard'
    BY <1>8, <2>1, <2>2, <2>4, <2>10 DEF WriteHeard
  <2>12. QED
    BY <1>6, <2>1, <2>11
<1>13. CASE line = 5 /\ SetScl(FALSE) /\ Loops(2)
  <2>1. /\ Device!ClockFalls /\ index' = index /\ line' = 2 /\ bit' = bit + 1
        /\ bit < Bits - 1
    BY <1>1, <1>13 DEF SetScl, WritePorts, Loops
  <2>2. Device!Receiving
    BY <1>1, <2>1, Falls, Zenon
  <2>3. WriteHeard
    BY <1>3, <2>2
  <2>4. ~hold /\ count = bit + 1 /\ shift = Top(Current.arg, bit + 1) /\ count < Bits
    BY <1>1, <1>13, <2>1, <2>3 DEF WriteHeard
  <2>5. UNCHANGED deviceVars
    BY <1>1, <2>1, <2>2, <2>4, Falls, Zenon
  <2>6. Current' = Current
    BY <1>5, <2>1
  <2>7. ~hold' /\ count' = bit' /\ shift' = Top(Current'.arg, bit') /\ mode' = mode
    BY <2>1, <2>4, <2>5, <2>6 DEF deviceVars
  <2>8. WriteHeard'
    BY <1>8, <2>1, <2>3, <2>7 DEF WriteHeard
  <2>9. QED
    BY <1>6, <2>1, <2>8
<1>14. CASE line = 5 /\ SetScl(FALSE) /\ bit = Bits - 1 /\ Goes(6)
  <2>1. Device!ClockFalls /\ index' = index /\ line' = 6
    BY <1>1, <1>14 DEF SetScl, WritePorts, Goes
  <2>2. Device!Receiving
    BY <1>1, <2>1, Falls, Zenon
  <2>3. WriteHeard
    BY <1>3, <2>2
  <2>4. count = Bits /\ shift = Top(Current.arg, Bits)
    <3>1. bit + 1 = Bits
      BY <1>1, <1>14
    <3>2. QED
      BY <1>14, <2>3, <3>1 DEF WriteHeard
  <2>5. shift = Current.arg
    BY <1>4, <2>4, TopBits
  <2>6. mode' # "idle"
    BY DEF Device!Receiving
  <2>7. mode' = mode /\ count' = count /\ shift' = shift /\ hold' = TRUE
    BY <1>1, <2>1, <2>2, <2>4, <2>6, Falls, Zenon
  <2>8. Current' = Current
    BY <1>5, <2>1
  <2>9. WriteHeard'
    BY <1>8, <2>1, <2>3, <2>4, <2>5, <2>7, <2>8 DEF WriteHeard
  <2>10. QED
    BY <1>6, <2>1, <2>9
<1>15. CASE line = 6 /\ SetSda(FALSE, out) /\ Goes(7)
  <2>1. UNCHANGED deviceVars /\ index' = index /\ line' = 7 /\ bit' = bit
    BY <1>1, <1>15 DEF SetSda, WritePorts, Goes
  <2>2. WriteHeard
    BY <1>3, <1>7, <2>1
  <2>3. WriteHeard'
    BY <1>5, <1>8, <1>15, <2>1, <2>2 DEF WriteHeard, deviceVars
  <2>4. QED
    BY <1>6, <2>1, <2>3
<1>16. CASE line = 7 /\ SetScl(TRUE) /\ Goes(8)
  <2>1. Device!ClockRises(Sda) /\ index' = index /\ line' = 8
    BY <1>1, <1>16 DEF SetScl, WritePorts, Goes
  <2>2. /\ Device!Receiving /\ mode' = mode /\ count' = count + 1 /\ hold' = hold
        /\ shift' = IF count < Bits THEN Device!WithBit(shift, Sda) ELSE shift
    BY <1>1, <2>1, Rises, Zenon
  <2>3. WriteHeard
    BY <1>3, <2>2
  <2>4. hold /\ count = Bits /\ shift = Current.arg /\ ~(count < Bits)
    BY <1>1, <1>16, <2>3 DEF WriteHeard
  <2>5. Current' = Current
    BY <1>5, <2>1
  <2>6. hold' /\ count' = Bits + 1 /\ shift' = Current'.arg
    BY <2>2, <2>4, <2>5
  <2>7. WriteHeard'
    BY <1>8, <2>1, <2>2, <2>3, <2>6 DEF WriteHeard
  <2>8. QED
    BY <1>6, <2>1, <2>7
<1>17. CASE line = 8 /\ UNCHANGED <<lineVars, deviceVars>> /\ Goes(9)
  <2>1. UNCHANGED deviceVars /\ index' = index /\ line' = 9 /\ bit' = bit
    BY <1>17 DEF Goes
  <2>2. WriteHeard
    BY <1>3, <1>7, <2>1
  <2>3. hold /\ count = Bits + 1 /\ shift = Current.arg /\ ~dir
    BY <1>1, <1>17, <2>2 DEF WriteHeard, WritePorts
  <2>4. ok'
    BY <1>2, <1>17, <2>3 DEF Sda
  <2>5. Current' = Current
    BY <1>5, <2>1
  <2>6. WriteHeard'
    BY <1>8, <2>1, <2>2, <2>3, <2>4, <2>5 DEF WriteHeard, deviceVars
  <2>7. QED
    BY <1>6, <2>1, <2>6
<1>18. CASE line = 9 /\ SetScl(FALSE) /\ Leaves
  <2>1. Device!ClockFalls
    BY <1>1, <1>18 DEF SetScl, WritePorts
  <2>2. Device!Receiving
    BY <1>1, <2>1, Falls, Zenon
  <2>3. WriteHeard
    BY <1>3, <2>2
  <2>4. ok /\ count = Bits + 1 /\ shift = Current.arg /\ mode \in Heard(index)
    BY <1>18, <2>3 DEF WriteHeard
  <2>5. Device!TakeByte
    BY <1>1, <2>1, <2>2, <2>4, Falls, Zenon
  <2>6. mode' # "sending"
    BY DEF Device!Receiving
  <2>7. /\ ~(mode = "device" /\ shift = DeviceAddr + 1)
        /\ mode' = (IF mode = "device" THEN "control" ELSE "data") /\ Fresh'
    BY <2>5, <2>6 DEF Device!TakeByte, Device!SendNext, Fresh
  <2>8. ok' = ok
    BY <1>1, <1>2, <1>18
  <2>9. index' = index + 1
    BY <1>1, <1>2, <1>18, <2>4, <2>8, AfterSuccess
  <2>10. ~Returned' /\ Current'.fn = KindAt(call, index')
    BY <1>1, <1>2, <1>18, <2>8, NextPlace
  <2>11. \/ index = 2 \/ index = 3
         \/ index = 4 /\ call.fn = "I2C_Write"
         \/ index = 5 /\ call.fn # "I2C_Write"
    <3>1. index # 1 /\ index # Count(call) /\ index <= 5 /\ (index = 4 => call.fn = "I2C_Write")
      BY <1>4 DEF KindAt
    <3>2. call.fn = "I2C_Write" => Count(call) = 5
      BY <1>4, KindsInOrder
    <3>3. QED
      BY <1>4, <3>1, <3>2
  <2>12. index # 5
    <3>1. SUFFICES ASSUME index = 5 PROVE FALSE
      OBVIOUS
    <3>2. call.fn # "I2C_Write" /\ mode = "device"
      BY <2>4, <2>11, <3>1 DEF Heard
    <3>3. Current.arg = DeviceAddr + 1
      BY <1>4, <3>1, <3>2, Arguments
    <3>4. QED
      BY <2>4, <2>7, <3>2, <3>3
  <2>13. CASE index = 2
    <3>1. index' = 3 /\ Current'.fn = "i2c_write"
      BY <1>4, <2>9, <2>10, <2>13, KindsInOrder
    <3>2. mode' \in Heard(index')
      BY <2>7, <3>1 DEF Heard
    <3>3. WriteHeard'
      BY <1>1, <1>2, <1>18, <2>7, <2>8, <3>1, <3>2, EntersWrite
    <3>4. QED
      BY <2>10, <3>1, <3>3 DEF Listening
  <2>14. CASE index = 3
    <3>1. index' = 4 /\ mode' = "data"
      BY <2>4, <2>7, <2>9, <2>14 DEF Heard
    <3>2. CASE call.fn = "I2C_Write"
      <4>1. Current'.fn = "i2c_write"
        BY <1>4, <2>10, <3>1, <3>2, KindsInOrder
      <4>2. mode' \in Heard(index')
        BY <3>1 DEF Heard
      <4>3. WriteHeard'
        BY <1>1, <1>2, <1>18, <2>7, <2>8, <4>1, <4>2, EntersWrite
      <4>4. QED
        BY <2>10, <4>1, <4>3 DEF Listening
    <3>3. CASE call.fn # "I2C_Write"
      <4>1. Current'.fn = "i2c_start"
        BY <1>4, <2>10, <3>1, <3>3, KindsInOrder
      <4>2. StartHeard'
        BY <1>18, <2>7, <3>1 DEF StartHeard, Leaves
      <4>3. QED
        BY <2>10, <4>1, <4>2 DEF Listening
    <3>4. QED
      BY <3>2, <3>3
  <2>15. CASE index = 4 /\ call.fn = "I2C_Write"
    <3>1. index' = 5 /\ Current'.fn = "i2c_stop"
      BY <1>4, <2>9, <2>10, <2>15, KindsInOrder
    <3>2. StopHeard'
      BY <1>2, <1>18, <2>4, <2>7, <2>8, <2>15 DEF StopHeard, Leaves
    <3>3. QED
      BY <2>10, <3>1, <3>2 DEF Listening
  <2>16. QED
    BY <2>11, <2>12, <2>13, <2>14, <2>15
<1>19. QED
  BY <1>2, <1>9, <1>10, <1>11, <1>12, <1>13, <1>14, <1>15, <1>16, <1>17, <1>18, Zenon
     DEF WriteSteps

LEMMA HearInvBegins ==
  ASSUME EightBits, Init
  PROVE  HearInv
BY TypeInvBegins DEF Init, Device!Init, Device!Receiving, HearInv, Listening

LEMMA HearInvKept ==
  ASSUME EightBits, HearInv, [Next]_vars
  PROVE  HearInv'
<1>1. TypeInv'
  BY TypeInvKept DEF HearInv
<1>2. Listening'
  BY HearKept, StartHears, StopHears, WriteHears, ReadHears DEF Next, Step
<1>3. QED
  BY <1>1, <1>2 DEF HearInv
-----------------------------------------------------------------------------
(* The EEPROM in step with the driver, as long as the board is not reset.   *)

\* What it takes the i-th function's byte for.
Expected(i) ==
  IF i = 3 THEN "control" ELSE IF i = 4 THEN "data" ELSE "device"

StartSync ==
  /\ line \in 1..3 => mode = (IF index = 1 \/ ~ok THEN "idle" ELSE "data")
  /\ line = 4 => ~hold
  /\ line = 5 => mode = "device" /\ Fresh

StopSync ==
  /\ ok => mode = (IF call.fn = "I2C_Write" THEN "data" ELSE "idle")
  /\ ~ok => mode \in {"idle", "device"}
  /\ (line = 4 /\ mode = "data") => count = 1

\* It may leave a byte unacknowledged, and is idle then.
WriteSync ==
  /\ mode = "idle" \/ mode = Expected(index)
  /\ mode = "idle" => line \in 6..9
  /\ line = 9 => ok = hold

\* The last byte is not acknowledged, and the EEPROM stops sending.
ReadSync ==
  /\ mode = (IF line \in 10..11 /\ Current.arg = 0 THEN "idle" ELSE "sending")
  /\ line \in 1..3 => count = bit
  /\ line \in 4..5 => count = bit + 1
  /\ line \in 6..9 => count = Bits
  /\ (line = 10 /\ Current.arg # 0) => count = Bits + 1
  /\ (line = 11 /\ Current.arg # 0) => count = 0
  /\ line \in 1..5 => hold = ~Device!BitOf(shift, bit)
  /\ line \in 6..10 => ~hold
  /\ (line = 11 /\ Current.arg # 0) => hold = ~Device!BitOf(shift, 0)

Sync ==
  /\ Returned => mode = "idle"
  /\ (~Returned /\ Current.fn = "i2c_start") => StartSync
  /\ (~Returned /\ Current.fn = "i2c_stop") => StopSync
  /\ (~Returned /\ Current.fn = "i2c_write") => WriteSync
  /\ (~Returned /\ Current.fn = "i2c_read") => ReadSync

SyncInv == HearInv /\ (resets = 0 => Sync)

LEMMA StartSyncs ==
  ASSUME EightBits, HearInv, Sync, Start
  PROVE  Sync'
<1>1. /\ Where /\ ~Returned /\ Current.fn = "i2c_start" /\ line \in 1..5
      /\ scl \in BOOLEAN /\ dir \in BOOLEAN /\ out \in BOOLEAN /\ ok \in BOOLEAN
      /\ StartPorts /\ DeviceInv /\ (index = 1 => ok) /\ Bits \in Nat /\ Bits > 0
      /\ StartSync
  BY ConstantsAssumption
     DEF HearInv, TypeInv, PortInv, Flow, Start, Position, Where, Ports, Sync
<1>2. StartSteps /\ call' = call /\ ok' = ok
  BY <1>1, StartMoves DEF StartSteps
<1>3. Device!Receiving => StartHeard
  BY <1>1 DEF HearInv, Listening
<1>4. ASSUME index' = index, StartSync' PROVE Sync'
  <2>1. ~Returned' /\ Current' = Current
    BY <1>1, <1>2, <1>4, SamePlace
  <2>2. QED
    BY <1>1, <1>4, <2>1 DEF Sync
<1>5. CASE line = 1 /\ SetSda(TRUE, out) /\ Goes(2)
  <2>1. scl => dir /\ out
    BY <1>1, <1>5 DEF StartPorts
  <2>2. UNCHANGED deviceVars /\ index' = index /\ line' = 2
    BY <1>5, <2>1 DEF SetSda, Sda, Goes
  <2>3. StartSync'
    BY <1>1, <1>2, <1>5, <2>2 DEF StartSync, deviceVars
  <2>4. QED
    BY <1>4, <2>2, <2>3
<1>6. CASE line = 2 /\ SetSda(dir, TRUE) /\ Goes(3)
  <2>1. scl => dir /\ out
    BY <1>1, <1>6 DEF StartPorts
  <2>2. UNCHANGED deviceVars /\ index' = index /\ line' = 3
    BY <1>6, <2>1 DEF SetSda, Sda, Goes
  <2>3. StartSync'
    BY <1>1, <1>2, <1>6, <2>2 DEF StartSync, deviceVars
  <2>4. QED
    BY <1>4, <2>2, <2>3
<1>7. CASE line = 3 /\ SetScl(TRUE) /\ Goes(4)
  <2>1. index' = index /\ line' = 4
    BY <1>7 DEF Goes
  <2>2. mode = "idle" \/ (mode = "data" /\ index # 1)
    BY <1>1, <1>7 DEF StartSync
  <2>3. ~hold
    BY <1>1, <1>3, <1>7, <2>2 DEF DeviceInv, Fresh, Device!Receiving, StartHeard
  <2>4. hold' = hold
    BY <1>7 DEF SetScl, Device!ClockRises, Device!ClockFalls, deviceVars
  <2>5. StartSync'
    BY <2>1, <2>3, <2>4 DEF StartSync
  <2>6. QED
    BY <1>4, <2>1, <2>5
<1>8. CASE line = 4 /\ SetSda(dir, FALSE) /\ Goes(5)
  <2>1. index' = index /\ line' = 5
    BY <1>8 DEF Goes
  <2>2. scl /\ dir /\ out /\ ~hold
    BY <1>1, <1>8 DEF StartPorts, StartSync
  <2>3. Device!StartSeen
    BY <1>8, <2>2 DEF SetSda, Sda
  <2>4. mode' = "device" /\ count' = 0 /\ shift' = 0 /\ hold' = FALSE
    BY <2>3 DEF Device!StartSeen
  <2>5. StartSync'
    BY <2>1, <2>4 DEF StartSync, Fresh
  <2>6. QED
    BY <1>4, <2>1, <2>5
<1>9. CASE line = 5 /\ SetScl(FALSE) /\ Leaves
  <2>1. mode = "device" /\ Fresh
    BY <1>1, <1>9 DEF StartSync
  <2>2. Device!ClockFalls
    BY <1>1, <1>9 DEF SetScl, StartPorts
  <2>3. UNCHANGED deviceVars
    <3>1. Device!Receiving /\ count < Bits
      BY <1>1, <2>1 DEF Device!Receiving, Fresh
    <3>2. QED
      BY <1>1, <2>2, <3>1, Falls, Zenon
  <2>4. mode' = "device" /\ line' = 1
    BY <1>9, <2>1, <2>3 DEF deviceVars, Leaves
  <2>5. /\ call \in Calls /\ index \in Nat /\ index >= 1 /\ index <= Count(call)
        /\ KindAt(call, index) = "i2c_start"
    BY <1>1, Running
  <2>6. index = 1 \/ (index = 4 /\ call.fn # "I2C_Write")
    BY <2>5 DEF KindAt
  <2>7. /\ ~Returned' /\ Current'.fn = KindAt(call, index')
    BY <1>1, <1>2, <1>9, NextPlace
  <2>8. CASE ok
    <3>1. index' = index + 1
      BY <1>1, <1>2, <1>9, <2>8, AfterSuccess
    <3>2. index' = 2 \/ index' = 5
      BY <2>6, <3>1
    <3>3. Current'.fn = "i2c_write"
      BY <2>5, <2>6, <2>7, <3>1, <3>2, KindsInOrder
    <3>4. WriteSync'
      BY <2>4, <3>2 DEF WriteSync, Expected
    <3>5. QED
      BY <2>7, <3>3, <3>4 DEF Sync
  <2>9. CASE ~ok
    <3>1. Current'.fn = "i2c_stop" /\ ~Returned'
      BY <1>1, <1>2, <1>9, <2>6, <2>9, AfterFailure
    <3>2. StopSync'
      BY <1>2, <2>4, <2>9 DEF StopSync
    <3>3. QED
      BY <3>1, <3>2 DEF Sync
  <2>10. QED
    BY <2>8, <2>9
<1>10. QED
  BY <1>2, <1>5, <1>6, <1>7, <1>8, <1>9, Zenon DEF StartSteps

LEMMA StopSyncs ==
  ASSUME EightBits, HearInv, Sync, Stop
  PROVE  Sync'
<1>1. /\ Where /\ ~Returned /\ Current.fn = "i2c_stop" /\ line \in 1..4
      /\ scl \in BOOLEAN /\ ok \in BOOLEAN /\ StopPorts /\ DeviceInv /\ StopSync
  BY DEF HearInv, TypeInv, PortInv, Flow, Stop, Position, Ports, Where, Sync
<1>2. StopSteps /\ call' = call /\ ok' = ok
  BY <1>1, StopMoves DEF StopSteps
<1>3. Device!Receiving => StopHeard
  BY <1>1 DEF HearInv, Listening
<1>4. ASSUME index' = index, StopSync' PROVE Sync'
  <2>1. ~Returned' /\ Current' = Current
    BY <1>1, <1>2, <1>4, SamePlace
  <2>2. QED
    BY <1>1, <1>4, <2>1 DEF Sync
<1>5. mode = "idle" \/ Device!Receiving
  BY <1>1 DEF StopSync, Device!Receiving
<1>6. ~hold /\ (line \in 1..3 => Fresh)
  BY <1>1, <1>3, <1>5 DEF DeviceInv, Fresh, StopHeard
<1>7. ASSUME UNCHANGED deviceVars, index' = index, line' # 4 PROVE Sync'
  <2>1. StopSync'
    BY <1>1, <1>2, <1>7 DEF StopSync, deviceVars
  <2>2. QED
    BY <1>4, <1>7, <2>1
<1>8. CASE line = 1 /\ SetSda(TRUE, out) /\ Goes(2)
  <2>1. UNCHANGED deviceVars /\ index' = index /\ line' = 2
    BY <1>1, <1>8 DEF SetSda, StopPorts, Goes
  <2>2. QED
    BY <1>7, <2>1
<1>9. CASE line = 2 /\ SetSda(dir, FALSE) /\ Goes(3)
  <2>1. UNCHANGED deviceVars /\ index' = index /\ line' = 3
    BY <1>1, <1>9 DEF SetSda, StopPorts, Goes
  <2>2. QED
    BY <1>7, <2>1
<1>10. CASE line = 3 /\ SetScl(TRUE) /\ Goes(4)
  <2>1. Device!ClockRises(Sda) /\ index' = index
    BY <1>1, <1>10 DEF SetScl, StopPorts, Goes
  <2>2. mode' = mode /\ (Device!Receiving => count' = count + 1)
    <3>1. mode = "idle" => mode' = mode
      BY <1>1, <2>1, Rises, Zenon DEF deviceVars
    <3>2. Device!Receiving => mode' = mode /\ count' = count + 1
      BY <1>1, <2>1, Rises, Zenon
    <3>3. QED
      BY <1>5, <3>1, <3>2
  <2>3. mode' = "data" => count' = 1
    BY <1>6, <1>10, <2>2 DEF Fresh, Device!Receiving
  <2>4. StopSync'
    BY <1>1, <1>2, <2>2, <2>3 DEF StopSync
  <2>5. QED
    BY <1>4, <2>1, <2>4
<1>11. CASE line = 4 /\ SetSda(dir, TRUE) /\ Leaves
  <2>1. Device!StopSeen
    BY <1>1, <1>6, <1>11 DEF SetSda, Sda, StopPorts
  <2>2. mode' = "idle"
    BY <2>1 DEF Device!StopSeen
  <2>3. Returned'
    BY <1>1, <1>2, <1>11, NextPlace
  <2>4. QED
    BY <2>2, <2>3 DEF Sync
<1>12. QED
  BY <1>2, <1>8, <1>9, <1>10, <1>11, Zenon DEF StopSteps

LEMMA WriteSyncs ==
  ASSUME EightBits, HearInv, Sync, WriteByte
  PROVE  Sync'
<1>1. /\ Where /\ ~Returned /\ Current.fn = "i2c_write" /\ line \in 1..9
      /\ line > 5 => bit = Bits - 1
      /\ scl \in BOOLEAN /\ dir \in BOOLEAN /\ out \in BOOLEAN /\ ok \in BOOLEAN
      /\ WritePorts /\ DeviceInv /\ bit \in 0..(Bits - 1) /\ Bits \in Nat /\ Bits > 0
      /\ WriteSync
  BY ConstantsAssumption
     DEF HearInv, TypeInv, PortInv, Flow, WriteByte, Position, Where, Ports, Sync
<1>2. /\ WriteSteps /\ call' = call /\ ok' \in BOOLEAN
      /\ ok' = IF line = 8 THEN ~Sda ELSE ok
  BY <1>1, WriteMoves DEF WriteSteps
<1>3. Device!Receiving => WriteHeard
  BY <1>1 DEF HearInv, Listening
<1>4. /\ call \in Calls /\ Count(call) \in Nat /\ index \in 1..Count(call)
      /\ Current = FunctionAt(call, index) /\ KindAt(call, index) = "i2c_write"
      /\ Current.arg \in Device!Byte
  <2>1. /\ call \in Calls /\ Count(call) \in Nat /\ index \in 1..Count(call)
        /\ Current = FunctionAt(call, index) /\ KindAt(call, index) = "i2c_write"
    BY <1>1, Running
  <2>2. QED
    BY <2>1, ArgumentByte
<1>5. mode = "idle" \/ Device!Receiving
  BY <1>1 DEF WriteSync, Expected, Device!Receiving
<1>6. ASSUME index' = index, WriteSync' PROVE Sync'
  <2>1. ~Returned' /\ Current' = Current
    BY <1>1, <1>2, <1>6, SamePlace
  <2>2. QED
    BY <1>1, <1>6, <2>1 DEF Sync
<1>7. ASSUME index' = index, mode' = mode, mode = "idle" => line' \in 6..9, line' # 9
      PROVE  Sync'
  <2>1. WriteSync'
    BY <1>1, <1>7 DEF WriteSync, Expected
  <2>2. QED
    BY <1>6, <1>7, <2>1
<1>8. line \in 1..5 => mode # "idle"
  BY <1>1 DEF WriteSync
<1>9. ASSUME UNCHANGED deviceVars PROVE mode' = mode
  BY <1>9 DEF deviceVars
<1>10. CASE line = 1 /\ SetSda(TRUE, out) /\ Goes(2)
  <2>1. UNCHANGED deviceVars /\ index' = index /\ line' = 2
    BY <1>1, <1>10 DEF SetSda, WritePorts, Goes
  <2>2. QED
    BY <1>7, <1>8, <1>9, <1>10, <2>1
<1>11. CASE line = 2 /\ SetScl(FALSE) /\ Goes(3)
  <2>1. UNCHANGED deviceVars /\ index' = index /\ line' = 3
    BY <1>1, <1>11 DEF SetScl, WritePorts, Goes
  <2>2. QED
    BY <1>7, <1>8, <1>9, <1>11, <2>1
<1>12. CASE line = 3 /\ SetSda(dir, Device!BitOf(Current.arg, bit)) /\ Goes(4)
  <2>1. UNCHANGED deviceVars /\ index' = index /\ line' = 4
    BY <1>1, <1>12 DEF SetSda, WritePorts, Goes
  <2>2. QED
    BY <1>7, <1>8, <1>9, <1>12, <2>1
<1>13. CASE line = 4 /\ SetScl(TRUE) /\ Goes(5)
  <2>1. Device!ClockRises(Sda) /\ index' = index /\ line' = 5
    BY <1>1, <1>13 DEF SetScl, WritePorts, Goes
  <2>2. mode # "idle" /\ Device!Receiving
    BY <1>5, <1>8, <1>13
  <2>3. mode' = mode
    BY <1>1, <2>1, <2>2, Rises, Zenon
  <2>4. QED
    BY <1>7, <2>1, <2>2, <2>3
<1>14. CASE line = 5 /\ SetScl(FALSE) /\ Loops(2)
  <2>1. /\ Device!ClockFalls /\ index' = index /\ line' = 2 /\ bit < Bits - 1
    BY <1>1, <1>14 DEF SetScl, WritePorts, Loops
  <2>2. mode # "idle" /\ Device!Receiving
    BY <1>5, <1>8, <1>14
  <2>3. count < Bits
    BY <1>1, <1>3, <1>14, <2>1, <2>2 DEF WriteHeard
  <2>4. UNCHANGED deviceVars
    BY <1>1, <2>1, <2>2, <2>3, Falls, Zenon
  <2>5. QED
    BY <1>7, <1>9, <2>1, <2>2, <2>4
<1>15. CASE line = 5 /\ SetScl(FALSE) /\ bit = Bits - 1 /\ Goes(6)
  <2>1. Device!ClockFalls /\ index' = index /\ line' = 6
    BY <1>1, <1>15 DEF SetScl, WritePorts, Goes
  <2>2. mode # "idle" /\ Device!Receiving
    BY <1>5, <1>8, <1>15
  <2>3. count = Bits
    BY <1>1, <1>3, <1>15, <2>2 DEF WriteHeard
  <2>4. mode' = mode \/ mode' = "idle"
    BY <1>1, <2>1, <2>2, <2>3, Falls, Zenon
  <2>5. WriteSync'
    BY <1>1, <2>1, <2>4 DEF WriteSync, Expected
  <2>6. QED
    BY <1>6, <2>1, <2>5
<1>16. CASE line = 6 /\ SetSda(FALSE, out) /\ Goes(7)
  <2>1. UNCHANGED deviceVars /\ index' = index /\ line' = 7
    BY <1>1, <1>16 DEF SetSda, WritePorts, Goes
  <2>2. QED
    BY <1>7, <1>9, <2>1
<1>17. CASE line = 7 /\ SetScl(TRUE) /\ Goes(8)
  <2>1. Device!ClockRises(Sda) /\ index' = index /\ line' = 8
    BY <1>1, <1>17 DEF SetScl, WritePorts, Goes
  <2>2. mode = "idle" => mode' = mode
    BY <1>1, <2>1, Rises, Zenon DEF deviceVars
  <2>3. Device!Receiving => mode' = mode
    BY <1>1, <2>1, Rises, Zenon
  <2>4. QED
    BY <1>5, <1>7, <2>1, <2>2, <2>3
<1>18. CASE line = 8 /\ UNCHANGED <<lineVars, deviceVars>> /\ Goes(9)
  <2>1. UNCHANGED deviceVars /\ index' = index /\ line' = 9
    BY <1>18 DEF Goes
  <2>2. ~dir
    BY <1>1, <1>18 DEF WritePorts
  <2>3. ok' = hold
    BY <1>1, <1>2, <1>18, <2>2 DEF Sda, DeviceInv
  <2>4. mode' = mode /\ hold' = hold
    BY <2>1 DEF deviceVars
  <2>5. WriteSync'
    BY <1>1, <2>1, <2>3, <2>4 DEF WriteSync, Expected
  <2>6. QED
    BY <1>6, <2>1, <2>5
<1>19. CASE line = 9 /\ SetScl(FALSE) /\ Leaves
  <2>1. Device!ClockFalls /\ ok' = ok /\ line' = 1 /\ bit' = 0
    BY <1>1, <1>2, <1>19 DEF SetScl, WritePorts, Leaves
  <2>2. /\ ~Returned' /\ Current'.fn = KindAt(call, index')
    BY <1>1, <1>2, <1>19, <2>1, NextPlace
  <2>3. CASE mode = "idle"
    <3>1. mode' = "idle"
      BY <1>1, <2>1, <2>3, Falls, Zenon DEF deviceVars
    <3>2. ~ok
      BY <1>1, <1>19, <2>3 DEF WriteSync, DeviceInv, Fresh
    <3>3. \/ index' = 4 /\ Current'.fn = "i2c_start"
          \/ Current'.fn = "i2c_stop"
      BY <1>1, <1>2, <1>19, <2>1, <3>2, AfterFailure
    <3>4. CASE Current'.fn = "i2c_start"
      <4>1. StartSync'
        BY <2>1, <3>1, <3>2 DEF StartSync
      <4>2. QED
        BY <2>2, <3>4, <4>1 DEF Sync
    <3>5. CASE Current'.fn = "i2c_stop"
      <4>1. StopSync'
        BY <2>1, <3>1, <3>2 DEF StopSync
      <4>2. QED
        BY <2>2, <3>5, <4>1 DEF Sync
    <3>6. QED
      BY <3>3, <3>4, <3>5
  <2>4. CASE Device!Receiving
    <3>1. /\ ok /\ count = Bits + 1 /\ shift = Current.arg /\ mode = Expected(index)
      BY <1>1, <1>3, <1>19, <2>4 DEF WriteHeard, WriteSync, Device!Receiving
    <3>2. Device!TakeByte
      BY <1>1, <2>1, <2>4, <3>1, Falls, Zenon
    <3>3. index' = index + 1
      BY <1>1, <1>2, <1>19, <2>1, <3>1, AfterSuccess
    <3>4. /\ index = 2 => Current.arg = DeviceAddr
          /\ (index = 5 /\ call.fn # "I2C_Write") => Current.arg = DeviceAddr + 1
      BY <1>4, Arguments
    <3>5. \/ index = 2 \/ index = 3
          \/ index = 4 /\ call.fn = "I2C_Write"
          \/ index = 5 /\ call.fn # "I2C_Write"
      <4>1. index # 1 /\ index # Count(call) /\ index <= 5 /\ (index = 4 => call.fn = "I2C_Write")
        BY <1>4 DEF KindAt
      <4>2. call.fn = "I2C_Write" => Count(call) = 5
        BY <1>4, KindsInOrder
      <4>3. QED
        BY <1>4, <4>1, <4>2
    <3>6. DeviceAddr \in Nat
      BY ConstantsAssumption
    <3>7. CASE index = 2
      <4>1. mode = "device" /\ shift # DeviceAddr + 1
        BY <3>1, <3>4, <3>6, <3>7 DEF Expected
      <4>2. mode' = "control" /\ index' = 3
        BY <3>2, <3>3, <3>7, <4>1 DEF Device!TakeByte
      <4>3. Current'.fn = "i2c_write"
        BY <1>4, <2>2, <4>2, KindsInOrder
      <4>4. WriteSync'
        BY <2>1, <4>2 DEF WriteSync, Expected
      <4>5. QED
        BY <2>2, <4>3, <4>4 DEF Sync
    <3>8. CASE index = 3
      <4>1. mode = "control"
        BY <3>1, <3>8 DEF Expected
      <4>2. mode' = "data" /\ index' = 4
        BY <3>2, <3>3, <3>8, <4>1 DEF Device!TakeByte
      <4>3. CASE call.fn = "I2C_Write"
        <5>1. Current'.fn = "i2c_write"
          BY <1>4, <2>2, <4>2, <4>3, KindsInOrder
        <5>2. WriteSync'
          BY <2>1, <4>2 DEF WriteSync, Expected
        <5>3. QED
          BY <2>2, <5>1, <5>2 DEF Sync
      <4>4. CASE call.fn # "I2C_Write"
        <5>1. Current'.fn = "i2c_start"
          BY <1>4, <2>2, <4>2, <4>4, KindsInOrder
        <5>2. StartSync'
          BY <2>1, <3>1, <4>2 DEF StartSync
        <5>3. QED
          BY <2>2, <5>1, <5>2 DEF Sync
      <4>5. QED
        BY <4>3, <4>4
    <3>9. CASE index = 4 /\ call.fn = "I2C_Write"
      <4>1. mode = "data"
        BY <3>1, <3>9 DEF Expected
      <4>2. mode' = "data" /\ index' = 5
        BY <3>2, <3>3, <3>9, <4>1 DEF Device!TakeByte
      <4>3. Current'.fn = "i2c_stop"
        BY <1>4, <2>2, <3>9, <4>2, KindsInOrder
      <4>4. StopSync'
        <5>1. ok' /\ line' = 1 /\ call'.fn = "I2C_Write"
          BY <1>2, <2>1, <3>1, <3>9
        <5>2. QED
          BY <4>2, <5>1 DEF StopSync
      <4>5. QED
        BY <2>2, <4>3, <4>4 DEF Sync
    <3>10. CASE index = 5 /\ call.fn # "I2C_Write"
      <4>1. mode = "device" /\ shift = DeviceAddr + 1
        BY <3>1, <3>4, <3>10 DEF Expected
      <4>2. /\ mode' = "sending" /\ count' = 0 /\ hold' = ~Device!BitOf(shift', 0)
        BY <3>2, <4>1 DEF Device!TakeByte, Device!SendNext
      <4>3. index' = 6
        BY <3>3, <3>10
      <4>4. Current'.fn = "i2c_read"
        <5>1. Count(call) >= 7 /\ 6 \in 6..(Count(call) - 1)
          BY <1>4, <3>10, KindsInOrder
        <5>2. QED
          BY <1>4, <2>2, <3>10, <4>3, <5>1, KindsInOrder
      <4>5. hold' = ~Device!BitOf(shift', bit')
        BY <2>1, <4>2
      <4>6. ReadSync'
        BY <2>1, <4>2, <4>5 DEF ReadSync
      <4>7. QED
        BY <2>2, <4>4, <4>6 DEF Sync
    <3>11. QED
      BY <3>5, <3>7, <3>8, <3>9, <3>10
  <2>5. QED
    BY <1>5, <2>3, <2>4
<1>20. QED
  BY <1>2, <1>10, <1>11, <1>12, <1>13, <1>14, <1>15, <1>16, <1>17, <1>18, <1>19, Zenon
     DEF WriteSteps

LEMMA ReadSyncs ==
  ASSUME EightBits, HearInv, Sync, ReadByte
  PROVE  Sync'
<1>1. /\ Where /\ ~Returned /\ Current.fn = "i2c_read" /\ line \in 1..11
      /\ line < 3 => bit = 0
      /\ line > 5 => bit = Bits - 1
      /\ scl \in BOOLEAN /\ dir \in BOOLEAN /\ out \in BOOLEAN /\ ok \in BOOLEAN
      /\ ReadPorts /\ DeviceInv /\ bit \in 0..(Bits - 1) /\ Bits \in Nat /\ Bits > 0
      /\ ReadSync
  BY ConstantsAssumption
     DEF HearInv, TypeInv, PortInv, Flow, ReadByte, Position, Where, Ports, Sync
<1>2. ReadSteps /\ call' = call /\ ok' = ok
  BY <1>1, ReadMoves DEF ReadSteps
<1>3. /\ call \in Calls /\ Count(call) \in Nat /\ index \in 1..Count(call)
      /\ Current = FunctionAt(call, index) /\ KindAt(call, index) = "i2c_read"
      /\ Current \in Function /\ ok
  <2>1. /\ call \in Calls /\ Count(call) \in Nat /\ index \in 1..Count(call)
        /\ Current = FunctionAt(call, index) /\ KindAt(call, index) = "i2c_read"
        /\ Current \in Function
    BY <1>1, Running
  <2>2. Current.ifOk
    BY <2>1, Kinds DEF KindAt
  <2>3. ok
    BY <1>1, <2>2 DEF HearInv, TypeInv, PortInv, Flow, Position
  <2>4. QED
    BY <2>1, <2>3
<1>4. mode = "sending" => ~Device!Receiving
  BY DEF Device!Receiving
<1>5. ASSUME index' = index, ReadSync' PROVE Sync'
  <2>1. ~Returned' /\ Current' = Current
    BY <1>1, <1>2, <1>5, SamePlace
  <2>2. QED
    BY <1>1, <1>5, <2>1 DEF Sync
<1>6. ASSUME index' = index PROVE Current' = Current
  BY <1>1, <1>2, <1>6, SamePlace
<1>7. CASE line = 1 /\ SetSda(FALSE, out) /\ Goes(2)
  <2>1. UNCHANGED deviceVars /\ index' = index /\ line' = 2 /\ bit' = bit
    BY <1>1, <1>7 DEF SetSda, ReadPorts, Goes
  <2>2. ReadSync'
    BY <1>1, <1>6, <1>7, <2>1 DEF ReadSync, deviceVars
  <2>3. QED
    BY <1>5, <2>1, <2>2
<1>8. CASE line = 2 /\ SetScl(FALSE) /\ Goes(3)
  <2>1. UNCHANGED deviceVars /\ index' = index /\ line' = 3 /\ bit' = bit
    BY <1>1, <1>8 DEF SetScl, ReadPorts, Goes
  <2>2. ReadSync'
    BY <1>1, <1>6, <1>8, <2>1 DEF ReadSync, deviceVars
  <2>3. QED
    BY <1>5, <2>1, <2>2
<1>9. CASE line = 3 /\ SetScl(TRUE) /\ Goes(4)
  <2>1. Device!ClockRises(Sda) /\ index' = index /\ line' = 4 /\ bit' = bit
    BY <1>1, <1>9 DEF SetScl, ReadPorts, Goes
  <2>2. /\ mode = "sending" /\ count = bit /\ hold = ~Device!BitOf(shift, bit)
        /\ ~(count = Bits /\ Sda)
    BY <1>1, <1>9 DEF ReadSync
  <2>3. mode' = mode /\ count' = count + 1 /\ shift' = shift /\ hold' = hold
    BY <1>1, <2>1, <2>2, Rises, Zenon
  <2>4. ReadSync'
    BY <2>1, <2>2, <2>3 DEF ReadSync
  <2>5. QED
    BY <1>5, <2>1, <2>4
<1>10. CASE line = 4 /\ UNCHANGED <<lineVars, deviceVars>> /\ Goes(5)
  <2>1. UNCHANGED deviceVars /\ index' = index /\ line' = 5 /\ bit' = bit
    BY <1>10 DEF Goes
  <2>2. ReadSync'
    BY <1>1, <1>6, <1>10, <2>1 DEF ReadSync, deviceVars
  <2>3. QED
    BY <1>5, <2>1, <2>2
<1>11. CASE line = 5 /\ SetScl(FALSE) /\ Loops(3)
  <2>1. /\ Device!ClockFalls /\ index' = index /\ line' = 3 /\ bit' = bit + 1
        /\ bit < Bits - 1
    BY <1>1, <1>11 DEF SetScl, ReadPorts, Loops
  <2>2. mode = "sending" /\ count = bit + 1
    BY <1>1, <1>11 DEF ReadSync
  <2>3. Device!SendBit /\ count # Bits + 1 /\ count < Bits
    BY <1>1, <2>1, <2>2, Falls
  <2>4. mode' = mode /\ count' = count /\ shift' = shift /\ hold' = ~Device!BitOf(shift, count)
    BY <2>3 DEF Device!SendBit, Device!BitOf
  <2>5. mode' = "sending" /\ count' = bit' /\ hold' = ~Device!BitOf(shift', bit')
    BY <2>1, <2>2, <2>4
  <2>6. ReadSync'
    BY <2>1, <2>5 DEF ReadSync
  <2>7. QED
    BY <1>5, <2>1, <2>6
<1>12. CASE line = 5 /\ SetScl(FALSE) /\ bit = Bits - 1 /\ Goes(6)
  <2>1. Device!ClockFalls /\ index' = index /\ line' = 6
    BY <1>1, <1>12 DEF SetScl, ReadPorts, Goes
  <2>2. mode = "sending" /\ count = Bits
    BY <1>1, <1>12 DEF ReadSync
  <2>3. Device!SendBit /\ count # Bits + 1 /\ ~(count < Bits)
    BY <1>1, <2>1, <2>2, Falls
  <2>4. mode' = mode /\ count' = count /\ ~hold'
    BY <2>3 DEF Device!SendBit
  <2>5. mode' = "sending" /\ count' = Bits
    BY <2>2, <2>4
  <2>6. ReadSync'
    BY <2>1, <2>4, <2>5 DEF ReadSync
  <2>7. QED
    BY <1>5, <2>1, <2>6
<1>13. CASE line = 6 /\ SetScl(FALSE) /\ Goes(7)
  <2>1. UNCHANGED deviceVars /\ index' = index /\ line' = 7 /\ bit' = bit
    BY <1>1, <1>13 DEF SetScl, ReadPorts, Goes
  <2>2. ReadSync'
    BY <1>1, <1>6, <1>13, <2>1 DEF ReadSync, deviceVars
  <2>3. QED
    BY <1>5, <2>1, <2>2
<1>14. CASE line = 7 /\ SetSda(TRUE, out) /\ Goes(8)
  <2>1. UNCHANGED deviceVars /\ index' = index /\ line' = 8 /\ bit' = bit
    BY <1>1, <1>14 DEF SetSda, ReadPorts, Goes
  <2>2. ReadSync'
    BY <1>1, <1>6, <1>14, <2>1 DEF ReadSync, deviceVars
  <2>3. QED
    BY <1>5, <2>1, <2>2
<1>15. CASE line = 8 /\ SetSda(dir, Current.arg = 0) /\ Goes(9)
  <2>1. UNCHANGED deviceVars /\ index' = index /\ line' = 9 /\ bit' = bit
    BY <1>1, <1>15 DEF SetSda, ReadPorts, Goes
  <2>2. ReadSync'
    BY <1>1, <1>6, <1>15, <2>1 DEF ReadSync, deviceVars
  <2>3. QED
    BY <1>5, <2>1, <2>2
<1>16. CASE line = 9 /\ SetScl(TRUE) /\ Goes(10)
  <2>1. Device!ClockRises(Sda) /\ index' = index /\ line' = 10
    BY <1>1, <1>16 DEF SetScl, ReadPorts, Goes
  <2>2. mode = "sending" /\ count = Bits /\ ~hold /\ dir /\ out = (Current.arg = 0)
    BY <1>1, <1>16 DEF ReadSync, ReadPorts
  <2>3. Sda = (Current.arg = 0)
    BY <2>2 DEF Sda
  <2>4. Current' = Current
    BY <1>6, <2>1
  <2>5. CASE Current.arg = 0
    <3>1. mode' = "idle" /\ hold' = hold
      <4>1. Sda
        BY <2>3, <2>5
      <4>2. QED
        BY <1>1, <2>1, <2>2, <4>1, Rises, Zenon
    <3>2. ReadSync'
      BY <2>1, <2>2, <2>4, <2>5, <3>1 DEF ReadSync
    <3>3. QED
      BY <1>5, <2>1, <3>2
  <2>6. CASE Current.arg # 0
    <3>1. mode' = mode /\ count' = count + 1 /\ hold' = hold
      <4>1. (mode = "sending" /\ ~(count = Bits /\ Sda)) =>
              mode' = mode /\ count' = count + 1 /\ shift' = shift /\ hold' = hold
        BY <1>1, <2>1, Rises, Zenon
      <4>2. mode = "sending" /\ ~Sda
        BY <2>2, <2>3, <2>6
      <4>3. QED
        BY <4>1, <4>2, Zenon
    <3>2. mode' = "sending" /\ count' = Bits + 1 /\ ~hold'
      BY <2>2, <3>1
    <3>3. ReadSync'
      BY <2>1, <2>4, <2>6, <3>2 DEF ReadSync
    <3>4. QED
      BY <1>5, <2>1, <3>3
  <2>7. QED
    BY <2>5, <2>6
<1>17. CASE line = 10 /\ SetScl(FALSE) /\ Goes(11)
  <2>1. Device!ClockFalls /\ index' = index /\ line' = 11
    BY <1>1, <1>17 DEF SetScl, ReadPorts, Goes
  <2>2. Current' = Current
    BY <1>6, <2>1
  <2>3. CASE Current.arg = 0
    <3>1. mode = "idle"
      BY <1>1, <1>17, <2>3 DEF ReadSync
    <3>2. mode' = "idle"
      BY <1>1, <2>1, <3>1, Falls, Zenon DEF deviceVars
    <3>3. ReadSync'
      BY <2>1, <2>2, <2>3, <3>2 DEF ReadSync
    <3>4. QED
      BY <1>5, <2>1, <3>3
  <2>4. CASE Current.arg # 0
    <3>1. mode = "sending" /\ count = Bits + 1
      BY <1>1, <1>17, <2>4 DEF ReadSync
    <3>2. Device!SendBit
      BY <1>1, <2>1, <3>1, Falls, Zenon
    <3>3. mode' = "sending" /\ count' = 0 /\ hold' = ~Device!BitOf(shift', 0)
      BY <3>1, <3>2 DEF Device!SendBit, Device!SendNext
    <3>4. ReadSync'
      BY <2>1, <2>2, <2>4, <3>3 DEF ReadSync
    <3>5. QED
      BY <1>5, <2>1, <3>4
  <2>5. QED
    BY <2>3, <2>4
<1>18. CASE line = 11 /\ SetSda(dir, FALSE) /\ Leaves
  <2>1. UNCHANGED deviceVars /\ line' = 1 /\ bit' = 0
    BY <1>1, <1>18 DEF SetSda, ReadPorts, Leaves
  <2>2. index' = index + 1
    BY <1>1, <1>2, <1>3, <1>18, AfterSuccess
  <2>3. /\ ~Returned' /\ Current'.fn = KindAt(call, index')
    BY <1>1, <1>2, <1>18, NextPlace
  <2>4. call.fn # "I2C_Write" /\ index >= 6 /\ index <= Count(call) - 1 /\ Count(call) >= 7
    <3>1. index # 1 /\ index # Count(call) /\ ~(index <= 5)
      BY <1>3 DEF KindAt
    <3>2. call.fn # "I2C_Write"
      BY <1>3, <3>1, KindsInOrder
    <3>3. QED
      BY <1>3, <3>1, <3>2, KindsInOrder
  <2>5. (Current.arg = 0) = (index = Count(call) - 1)
    BY <1>3, Arguments
  <2>6. CASE Current.arg = 0
    <3>1. index' = Count(call)
      BY <1>3, <2>2, <2>5, <2>6
    <3>2. Current'.fn = "i2c_stop"
      BY <1>3, <2>3, <3>1, KindsInOrder
    <3>3. mode' = "idle"
      BY <1>1, <1>18, <2>1, <2>6 DEF ReadSync, deviceVars
    <3>4. ok' /\ call'.fn # "I2C_Write"
      BY <1>2, <1>3, <2>4
    <3>5. StopSync'
      BY <2>1, <3>3, <3>4 DEF StopSync
    <3>6. QED
      BY <2>3, <3>2, <3>5 DEF Sync
  <2>7. CASE Current.arg # 0
    <3>1. index' \in 6..(Count(call) - 1)
      BY <1>3, <2>2, <2>4, <2>5, <2>7
    <3>2. Current'.fn = "i2c_read"
      BY <1>3, <2>3, <2>4, <3>1, KindsInOrder
    <3>3. mode = "sending" /\ count = 0 /\ hold = ~Device!BitOf(shift, 0)
      BY <1>1, <1>18, <2>7 DEF ReadSync
    <3>4. mode' = "sending" /\ count' = bit' /\ hold' = ~Device!BitOf(shift', bit')
      BY <2>1, <3>3 DEF deviceVars
    <3>5. ReadSync'
      BY <2>1, <3>4 DEF ReadSync
    <3>6. QED
      BY <2>3, <3>2, <3>5 DEF Sync
  <2>8. QED
    BY <2>6, <2>7
<1>19. QED
  BY <1>2, <1>7, <1>8, <1>9, <1>10, <1>11, <1>12, <1>13, <1>14, <1>15, <1>16, <1>17,
     <1>18, Zenon DEF ReadSteps

LEMMA SyncInvBegins ==
  ASSUME EightBits, Init
  PROVE  SyncInv
<1>1. mode = "idle" /\ call = NoCall /\ index = 1 /\ ok = FALSE
  BY DEF Init, Device!Init
<1>2. Returned
  BY <1>1 DEF NoCall, Body, Returned
<1>3. QED
  BY <1>1, <1>2, HearInvBegins DEF SyncInv, Sync

LEMMA SyncInvKept ==
  ASSUME EightBits, SyncInv, [Next]_vars
  PROVE  SyncInv'
<1>1. HearInv'
  BY HearInvKept DEF SyncInv
<1> SUFFICES ASSUME resets' = 0
             PROVE  Sync'
  BY <1>1 DEF SyncInv
<1>2. CASE Step
  <2>1. resets' = resets
    BY <1>2 DEF Step, Start, Stop, WriteByte, ReadByte
  <2>2. QED
    BY <1>2, <2>1, StartSyncs, StopSyncs, WriteSyncs, ReadSyncs DEF SyncInv, Step
<1>3. CASE Call
  <2>1. /\ Returned /\ mode = "idle" /\ mode' = mode /\ line' = 1
    BY <1>3 DEF Call, SyncInv, Sync, deviceVars
  <2>2. ~Returned' /\ Current'.fn = "i2c_start" /\ index' = 1
    BY <1>3, FirstPlace
  <2>3. StartSync'
    BY <2>1, <2>2 DEF StartSync
  <2>4. QED
    BY <2>2, <2>3 DEF Sync
<1>4. CASE Reset
  <2>1. resets' = resets + 1 /\ resets \in Nat
    BY <1>4, ConstantsAssumption DEF Reset, SyncInv, HearInv, TypeInv, DriverTypes
  <2>2. QED
    BY <2>1
<1>5. CASE UNCHANGED vars
  BY <1>5 DEF SyncInv, Sync, StartSync, StopSync, WriteSync, ReadSync, Expected, Fresh,
              Device!BitOf, Returned, Current, vars, lineVars, deviceVars, driverVars
<1>6. QED
  BY <1>2, <1>3, <1>4, <1>5 DEF Next

LEMMA InSync ==
  ASSUME EightBits
  PROVE  Spec => []SyncInv
BY SyncInvBegins, SyncInvKept, PTL DEF Spec

\* Every call leaves the bus free, also one that was given up at any byte.
THEOREM BusIsReleased == ASSUME EightBits PROVE Spec => []BusReleased
<1>1. ASSUME SyncInv PROVE BusReleased
  <2>1. SUFFICES ASSUME Returned, call # NoCall, resets = 0
                 PROVE  scl /\ Sda /\ mode = "idle"
    BY DEF BusReleased
  <2>2. mode = "idle"
    BY <1>1, <2>1 DEF SyncInv, Sync
  <2>3. scl /\ dir /\ out /\ ~hold
    BY <1>1, <2>1, <2>2
       DEF SyncInv, HearInv, TypeInv, PortInv, Ports, RestingPorts, DeviceInv, Fresh
  <2>4. QED
    BY <2>2, <2>3 DEF Sda
<1>2. QED
  BY <1>1, InSync, PTL

\* While the clock is high the driver never drives SDA high against the
\* EEPROM.
THEOREM NobodyFights == ASSUME EightBits PROVE Spec => []NoFight
<1>1. ASSUME SyncInv PROVE NoFight
  <2>1. SUFFICES ASSUME resets = 0, scl, hold, dir, out
                 PROVE  FALSE
    BY DEF NoFight
  <2>2. Sync /\ Listening /\ Ports /\ DeviceInv /\ Flow
    BY <1>1, <2>1 DEF SyncInv, HearInv, TypeInv, PortInv
  <2>3. mode # "idle"
    BY <2>1, <2>2 DEF DeviceInv, Fresh
  <2>4. ~Returned /\ Position
    BY <2>2, <2>3 DEF Sync, Flow
  <2>5. CASE Current.fn = "i2c_start"
    <3>1. StartSync /\ StartPorts /\ line \in 1..5 /\ (Device!Receiving => StartHeard)
      BY <2>2, <2>4, <2>5 DEF Sync, Ports, Position, Listening
    <3>2. CASE line \in 1..3
      BY <2>1, <2>3, <3>1, <3>2 DEF StartSync, StartPorts
    <3>3. CASE line \in 4..5
      BY <2>1, <3>1, <3>3 DEF StartSync, Fresh
    <3>4. QED
      BY <3>1, <3>2, <3>3
  <2>6. CASE Current.fn = "i2c_stop"
    <3>1. StopSync /\ StopPorts /\ line \in 1..4 /\ (Device!Receiving => StopHeard)
      BY <2>2, <2>4, <2>6 DEF Sync, Ports, Position, Listening
    <3>2. line = 4
      BY <2>1, <3>1 DEF StopPorts
    <3>3. QED
      BY <2>1, <3>1, <3>2 DEF StopPorts
  <2>7. CASE Current.fn = "i2c_write"
    <3>1. WriteSync /\ WritePorts /\ line \in 1..9
      BY <2>2, <2>4, <2>7 DEF Sync, Ports, Position
    <3>2. line = 5
      BY <2>1, <3>1 DEF WritePorts
    <3>3. Device!Receiving
      BY <2>3, <3>1 DEF WriteSync, Expected, Device!Receiving
    <3>4. ~hold
      BY <2>2, <2>4, <2>7, <3>2, <3>3 DEF Listening, WriteHeard
    <3>5. QED
      BY <2>1, <3>4
  <2>8. CASE Current.fn = "i2c_read"
    <3>1. ReadSync /\ ReadPorts /\ line \in 1..11
      BY <2>2, <2>4, <2>8 DEF Sync, Ports, Position
    <3>2. line \in 4..5 \/ line = 10
      BY <2>1, <3>1 DEF ReadPorts
    <3>3. QED
      BY <2>1, <3>1, <3>2 DEF ReadPorts, ReadSync
  <2>9. QED
    BY <2>4, <2>5, <2>6, <2>7, <2>8 DEF Position
<1>2. QED
  BY <1>1, InSync, PTL

LEMMA AckIsHeard ==
  ASSUME EightBits, SyncInv, Next, resets = 0, ~Returned, Access = "get_ack", ok'
  PROVE  Device!Receiving /\ count = Bits + 1 /\ shift = Current.arg
<1>1. Sync /\ Listening /\ Ports /\ DeviceInv /\ Flow /\ Where /\ Position
  BY DEF SyncInv, HearInv, TypeInv, PortInv, Flow
<1>2. Current.fn = "i2c_write" /\ line = 8
  <2>1. ASSUME Current.fn = "i2c_start" PROVE FALSE
    BY <1>1, <2>1 DEF Position, Access, Lines, StartLines
  <2>2. ASSUME Current.fn = "i2c_stop" PROVE FALSE
    BY <1>1, <2>2 DEF Position, Access, Lines, StopLines
  <2>3. ASSUME Current.fn = "i2c_read" PROVE FALSE
    BY <1>1, <2>3 DEF Position, Access, Lines, ReadLines
  <2>4. ASSUME Current.fn = "i2c_write" PROVE line = 8
    BY <1>1, <2>4 DEF Position, Access, Lines, WriteLines
  <2>5. QED
    BY <1>1, <2>1, <2>2, <2>3, <2>4 DEF Position
<1>3. WriteSync /\ WritePorts
  BY <1>1, <1>2 DEF Sync, Ports
<1>4. Current.arg \in Device!Byte
  BY <1>1, <1>2, Running, ArgumentByte
<1>5. hold
  <2>1. CASE WriteByte
    <3>1. line \in 1..9
      BY <1>2
    <3>2. WriteSteps
      BY <1>1, <2>1, <3>1, WriteMoves
    <3>3. ok' = IF line = 8 THEN ~Sda ELSE ok
      BY <3>2 DEF WriteSteps
    <3>4. ~dir
      BY <1>2, <1>3 DEF WritePorts
    <3>5. QED
      BY <1>2, <3>3, <3>4 DEF Sda
  <2>2. CASE ~WriteByte
    <3>1. Call \/ Reset
      BY <1>2, <2>2 DEF Next, Step, Start, Stop, ReadByte
    <3>2. QED
      BY <3>1 DEF Call, Reset
  <2>3. QED
    BY <2>1, <2>2
<1>6. Device!Receiving
  BY <1>1, <1>3, <1>5 DEF WriteSync, Expected, Device!Receiving, DeviceInv, Fresh
<1>7. WriteHeard
  BY <1>1, <1>2, <1>6 DEF Listening
<1>8. QED
  BY <1>2, <1>6, <1>7 DEF WriteHeard

\* "return true if device response ack": when an acknowledge has been read,
\* the EEPROM has received the byte and answers it.
THEOREM AcksAreTrue == ASSUME EightBits PROVE Spec => AckMeansTaken
<1>1. ASSUME SyncInv, [Next]_vars
      PROVE  [(resets = 0 /\ ~Returned /\ Access = "get_ack" /\ ok') =>
                Device!Receiving /\ count = Bits + 1 /\ shift = Current.arg]_vars
  BY <1>1, AckIsHeard
<1>2. QED
  BY <1>1, InSync, PTL DEF Spec, AckMeansTaken
-----------------------------------------------------------------------------
(* How many bytes a call has stored, resets included.                       *)

Lengths ==
  ~Returned => Len(result) = IF ok /\ index > 6 THEN index - 6 ELSE 0

LEMMA LengthsKept ==
  ASSUME EightBits, HearInv, Lengths, [Next]_vars
  PROVE  Lengths'
<1>1. Where /\ result \in Seq(Device!Byte) /\ data \in Device!Byte /\ Flow
  BY DEF HearInv, TypeInv, PortInv, Flow, DriverTypes
<1>2. ASSUME ~Returned, call' = call, index' = index, ok' \in BOOLEAN, result' = result,
             ok' = ok \/ index <= 6
      PROVE  Lengths'
  <2>1. ~Returned' /\ index \in Nat
    BY <1>1, <1>2, SamePlace, Running
  <2>2. QED
    BY <1>2, <2>1 DEF Lengths
<1>3. ASSUME ~Returned, call' = call, ok' = ok, Leaves, result' = result, index <= 5
      PROVE  Lengths'
  <2>1. index \in Nat /\ ok \in BOOLEAN
    BY <1>1, <1>3, Running DEF Where
  <2>2. Len(result) = 0
    BY <1>3, <2>1 DEF Lengths
  <2>3. ok => index' = index + 1
    BY <1>1, <1>3, AfterSuccess
  <2>4. Len(result') = IF ok' /\ index' > 6 THEN index' - 6 ELSE 0
    BY <1>3, <2>1, <2>2, <2>3
  <2>5. QED
    BY <2>4 DEF Lengths
<1>4. CASE Start
  <2>1. ~Returned /\ Current.fn = "i2c_start" /\ line \in 1..5
    BY <1>1, <1>4 DEF Start, Flow, Position
  <2>2. StartSteps
    BY <1>1, <1>4, <2>1, StartMoves
  <2>3. call' = call /\ ok' = ok /\ result' = result /\ ok' \in BOOLEAN
    BY <1>1, <2>2 DEF StartSteps, Where
  <2>4. index' = index \/ Leaves
    BY <2>2, Zenon DEF StartSteps, Goes
  <2>5. index <= 5
    <3>1. KindAt(call, index) = "i2c_start" /\ index \in Nat
      BY <1>1, <2>1, Running
    <3>2. QED
      BY <3>1 DEF KindAt
  <2>6. QED
    BY <1>2, <1>3, <2>1, <2>3, <2>4, <2>5
<1>5. CASE Stop
  <2>1. ~Returned /\ Current.fn = "i2c_stop" /\ line \in 1..4
    BY <1>1, <1>5 DEF Stop, Flow, Position
  <2>2. StopSteps
    BY <1>1, <1>5, <2>1, StopMoves
  <2>3. call' = call /\ ok' = ok /\ result' = result /\ ok' \in BOOLEAN
    BY <1>1, <2>2 DEF StopSteps, Where
  <2>4. index' = index \/ Leaves
    BY <2>2, Zenon DEF StopSteps, Goes
  <2>5. CASE Leaves
    <3>1. Returned'
      BY <1>1, <2>1, <2>3, <2>5, NextPlace
    <3>2. QED
      BY <3>1 DEF Lengths
  <2>6. QED
    BY <1>2, <2>1, <2>3, <2>4, <2>5
<1>6. CASE WriteByte
  <2>1. ~Returned /\ Current.fn = "i2c_write" /\ line \in 1..9
    BY <1>1, <1>6 DEF WriteByte, Flow, Position
  <2>2. WriteSteps
    BY <1>1, <1>6, <2>1, WriteMoves, Zenon
  <2>3. call' = call /\ result' = result /\ ok' \in BOOLEAN /\ (line = 9 => ok' = ok)
    <3>1. call' = call /\ result' = result /\ ok' = IF line = 8 THEN ~Sda ELSE ok
      BY <2>2 DEF WriteSteps
    <3>2. ok' \in BOOLEAN
      BY TypeInvKept DEF HearInv, TypeInv, PortInv, Flow, Where
    <3>3. line = 9 => ok' = ok
      BY <3>1
    <3>4. QED
      BY <3>1, <3>2, <3>3
  <2>4. index' = index \/ (line = 9 /\ Leaves)
    BY <2>2, Zenon DEF WriteSteps, Goes, Loops
  <2>5. index <= 5
    <3>1. KindAt(call, index) = "i2c_write" /\ index \in Nat
      BY <1>1, <2>1, Running
    <3>2. QED
      BY <3>1 DEF KindAt
  <2>6. index <= 6
    BY <1>1, <2>1, <2>5, Running
  <2>7. QED
    BY <1>2, <1>3, <2>1, <2>3, <2>4, <2>5, <2>6
<1>7. CASE ReadByte
  <2>1. ~Returned /\ Current.fn = "i2c_read" /\ line \in 1..11
    BY <1>1, <1>7 DEF ReadByte, Flow, Position
  <2>2. ReadSteps
    BY <1>1, <1>7, <2>1, ReadMoves
  <2>3. /\ call' = call /\ ok' = ok /\ ok' \in BOOLEAN
        /\ result' = IF line = 11 THEN Append(result, data) ELSE result
    BY <1>1, <2>2 DEF ReadSteps, Where
  <2>4. (line # 11 /\ index' = index) \/ (line = 11 /\ Leaves)
    <3>1. Advance(ok) /\ (line = 11 => LastLine) /\ (line # 11 => ~LastLine)
      <4>1. Advance(ok)
        BY <1>7 DEF ReadByte
      <4>2. Len(Lines[Current.fn]) = 11
        BY <2>1, LineLists
      <4>3. QED
        BY <4>1, <4>2 DEF LastLine
    <3>2. CASE line = 11
      BY <1>1, <2>1, <3>1, <3>2, LineLists, Advances
    <3>3. CASE line # 11
      BY <3>1, <3>3 DEF Advance
    <3>4. QED
      BY <3>2, <3>3
  <2>5. /\ KindAt(call, index) = "i2c_read" /\ index \in Nat /\ call \in Calls
        /\ index >= 1 /\ index <= Count(call) /\ Count(call) \in Nat
        /\ Current = FunctionAt(call, index)
    BY <1>1, <2>1, Running
  <2>6. index >= 6 /\ ok
    <3>1. ~(index <= 5) /\ index # 1 /\ index # Count(call)
      BY <2>5 DEF KindAt
    <3>2. index # 4 /\ index \in 1..Count(call)
      BY <2>5, <3>1
    <3>3. Current.ifOk
      BY <2>5, <3>1, <3>2, Kinds
    <3>4. QED
      BY <1>1, <2>1, <2>5, <3>1, <3>3 DEF Flow, Position
  <2>7. CASE line # 11
    BY <1>2, <2>1, <2>3, <2>4, <2>7
  <2>8. CASE line = 11
    <3>1. index' = index + 1
      BY <1>1, <2>1, <2>3, <2>4, <2>6, <2>8, AfterSuccess
    <3>2. Len(result) = index - 6
      BY <2>1, <2>5, <2>6 DEF Lengths
    <3>3. Len(result') = Len(result) + 1
      BY <1>1, <2>3, <2>8
    <3>4. Len(result') = IF ok' /\ index' > 6 THEN index' - 6 ELSE 0
      BY <2>3, <2>5, <2>6, <3>1, <3>2, <3>3
    <3>5. QED
      BY <3>4 DEF Lengths
  <2>9. QED
    BY <2>7, <2>8
<1>8. CASE Call
  <2>1. result' = <<>> /\ index' = 1
    BY <1>8 DEF Call
  <2>2. QED
    BY <2>1 DEF Lengths
<1>9. CASE Reset
  <2>1. Returned'
    BY <1>9, NoPlace DEF Reset
  <2>2. QED
    BY <2>1 DEF Lengths
<1>10. CASE UNCHANGED vars
  BY <1>10 DEF Lengths, Returned, vars, driverVars
<1>11. QED
  BY <1>4, <1>5, <1>6, <1>7, <1>8, <1>9, <1>10 DEF Next, Step

\* The address counter of the EEPROM wraps round.
LEMMA WrapsRound ==
  ASSUME NEW m \in Nat, m > 0
  PROVE  /\ \A x \in 0..(m - 1) : x % m = x /\ (x + m) % m = x
         /\ \A a \in Nat : a % m \in 0..(m - 1)
         /\ \A a \in Nat : ((a % m) + 1) % m = (a + 1) % m
<1>1. ASSUME NEW x \in 0..(m - 1) PROVE x % m = x /\ (x + m) % m = x
  <2>1. x % m = x
    BY Z3
  <2>2. (x + m) % m = x
    BY Z3
  <2>3. QED
    BY <2>1, <2>2
<1>2. ASSUME NEW a \in Nat PROVE a % m \in 0..(m - 1)
  BY Z3
<1>3. ASSUME NEW a \in Nat PROVE ((a % m) + 1) % m = (a + 1) % m
  <2>1. PICK q \in Nat : a = q * m + (a % m)
    BY Z3
  <2>2. PICK r \in 0..(m - 1) : r = a % m
    BY <1>2
  <2>3. ASSUME NEW p \in Nat, NEW s \in 0..(m - 1) PROVE (p * m + s) % m = s
    BY Z3
  <2>4. CASE r < m - 1
    <3>1. (r + 1) % m = r + 1
      BY <1>1, <2>4
    <3>2. a + 1 = q * m + (r + 1) /\ r + 1 \in 0..(m - 1)
      BY <2>1, <2>2, <2>4
    <3>3. (q * m + (r + 1)) % m = r + 1
      BY <2>3, <3>2
    <3>4. QED
      BY <2>2, <3>1, <3>2, <3>3
  <2>5. CASE r = m - 1
    <3>1. r + 1 = m /\ 0 \in 0..(m - 1)
      BY <2>5
    <3>2. (0 + m) % m = 0
      BY <1>1, <3>1
    <3>3. a + 1 = (q + 1) * m + 0
      BY <2>1, <2>2, <2>5, Z3
    <3>4. ((q + 1) * m + 0) % m = 0
      BY <2>3, <3>1
    <3>5. (r + 1) % m = 0
      BY <3>1, <3>2
    <3>6. QED
      BY <2>2, <3>3, <3>4, <3>5
  <2>6. QED
    BY <2>4, <2>5
<1>4. QED
  BY <1>1, <1>2, <1>3
-----------------------------------------------------------------------------
(* What is on the way between the caller and the EEPROM.                    *)

\* The n-th byte from the address of the call on, n from 0, and the address
\* counter at it.
CellOf(n) == mem[(CellAddr(call) + n) % MemSize]
PointerAt(n) == pointer = (CellAddr(call) + n) % MemSize

StartData ==
  /\ (ok /\ index = 4) => PointerAt(0)
  /\ line = 5 => pending = <<>>

WriteData ==
  /\ mode # "idle" => pending = <<>>
  /\ index \in 4..5 => PointerAt(0)

StopData == (ok /\ call.fn = "I2C_Write") => pending = <<call.value>> /\ PointerAt(0)

\* index - 6 bytes have been stored.
ReadData ==
  /\ (line \in 1..10 /\ mode = "sending") => shift = CellOf(index - 6) /\ PointerAt(index - 5)
  /\ (line = 11 /\ mode = "sending") => shift = CellOf(index - 5) /\ PointerAt(index - 4)
  /\ line \in 1..4 => data = Top(shift, bit)
  /\ line = 5 => data = Top(shift, bit + 1)
  /\ line \in 6..11 => data = CellOf(index - 6)

Got == \A n \in 1..(index - 6) : result[n] = CellOf(n - 1)

Data ==
  ~Returned =>
    /\ Current.fn = "i2c_start" => StartData
    /\ Current.fn = "i2c_stop" => StopData
    /\ Current.fn = "i2c_write" => WriteData
    /\ Current.fn = "i2c_read" => ReadData
    /\ Current.fn # "i2c_read" => data = 0
    /\ ok => Got

DataInv == SyncInv /\ Lengths /\ (resets = 0 => Data)

\* Nothing of it changes on the way.
LEMMA Steady ==
  ASSUME Where, ~Returned, call' = call, index' = index, ok' \in BOOLEAN,
         UNCHANGED <<pointer, pending, mem, result>>, ok' = ok \/ index <= 6,
         Data, Current.fn # "i2c_read" => data' = data,
         /\ Current.fn = "i2c_start" => StartData'
         /\ Current.fn = "i2c_stop" => StopData'
         /\ Current.fn = "i2c_write" => WriteData'
         /\ Current.fn = "i2c_read" => ReadData'
  PROVE  Data'
<1>1. ~Returned' /\ Current' = Current
  BY SamePlace
<1>2. index \in Nat /\ ok \in BOOLEAN
  BY Running DEF Where
<1>3. ok' => Got'
  <2>1. CASE ok' = ok
    <3>1. ok => Got
      BY DEF Data
    <3>2. QED
      BY <2>1, <3>1 DEF Got, CellOf
  <2>2. CASE index <= 6
    BY <1>2, <2>2 DEF Got
  <2>3. QED
    BY <2>1, <2>2
<1>4. Current.fn # "i2c_read" => data' = 0
  BY DEF Data
<1>5. QED
  BY <1>1, <1>3, <1>4, Zenon DEF Data

\* Before the sixth function nothing has been stored.
LEMMA NothingGot ==
  ASSUME index' \in Nat, index' <= 6
  PROVE  Got'
<1>1. \A k \in Nat : k <= 6 => \A n \in 1..(k - 6) : FALSE
  OBVIOUS
<1>2. QED
  BY <1>1 DEF Got

LEMMA StartDatas ==
  ASSUME EightBits, SyncInv, Data, resets = 0, Start
  PROVE  Data'
<1>1. /\ Where /\ ~Returned /\ Current.fn = "i2c_start" /\ line \in 1..5
      /\ scl \in BOOLEAN /\ dir \in BOOLEAN /\ out \in BOOLEAN /\ ok \in BOOLEAN
      /\ StartPorts /\ DeviceInv /\ (index = 1 => ok) /\ Bits \in Nat /\ Bits > 0
      /\ StartSync /\ StartData /\ data = 0
  BY ConstantsAssumption
     DEF SyncInv, HearInv, TypeInv, PortInv, Flow, Start, Position, Where, Ports, Sync, Data
<1>2. StartSteps /\ call' = call /\ ok' = ok /\ result' = result /\ data' = data
  BY <1>1, StartMoves DEF StartSteps
<1>3. ASSUME index' = index, UNCHANGED <<pointer, pending, mem>>, line' # 5 PROVE Data'
  <2>1. StartData'
    BY <1>1, <1>2, <1>3 DEF StartData, PointerAt
  <2>2. QED
    BY <1>1, <1>2, <1>3, <2>1, Steady
<1>4. CASE line = 1 /\ SetSda(TRUE, out) /\ Goes(2)
  <2>1. scl => dir /\ out
    BY <1>1, <1>4 DEF StartPorts
  <2>2. UNCHANGED deviceVars /\ index' = index /\ line' = 2
    BY <1>4, <2>1 DEF SetSda, Sda, Goes
  <2>3. QED
    BY <1>3, <2>2 DEF deviceVars
<1>5. CASE line = 2 /\ SetSda(dir, TRUE) /\ Goes(3)
  <2>1. scl => dir /\ out
    BY <1>1, <1>5 DEF StartPorts
  <2>2. UNCHANGED deviceVars /\ index' = index /\ line' = 3
    BY <1>5, <2>1 DEF SetSda, Sda, Goes
  <2>3. QED
    BY <1>3, <2>2 DEF deviceVars
<1>6. CASE line = 3 /\ SetScl(TRUE) /\ Goes(4)
  <2>1. UNCHANGED <<pointer, pending, mem>> /\ index' = index /\ line' = 4
    BY <1>6 DEF SetScl, Device!ClockRises, deviceVars, Goes
  <2>2. QED
    BY <1>3, <2>1
<1>7. CASE line = 4 /\ SetSda(dir, FALSE) /\ Goes(5)
  <2>1. index' = index /\ line' = 5
    BY <1>7 DEF Goes
  <2>2. scl /\ dir /\ out /\ ~hold
    BY <1>1, <1>7 DEF StartPorts, StartSync
  <2>3. Device!StartSeen
    BY <1>7, <2>2 DEF SetSda, Sda
  <2>4. pending' = <<>> /\ pointer' = pointer /\ mem' = mem
    BY <2>3 DEF Device!StartSeen
  <2>5. StartData'
    BY <1>1, <1>2, <2>1, <2>4 DEF StartData, PointerAt
  <2>6. ~Returned' /\ Current' = Current
    BY <1>1, <1>2, <2>1, SamePlace
  <2>7. ok' => Got'
    BY <1>1, <1>2, <2>1, <2>4 DEF Data, Got, CellOf
  <2>8. QED
    BY <1>1, <1>2, <2>5, <2>6, <2>7 DEF Data
<1>8. CASE line = 5 /\ SetScl(FALSE) /\ Leaves
  <2>1. mode = "device" /\ Fresh
    BY <1>1, <1>8 DEF StartSync
  <2>2. Device!ClockFalls
    BY <1>1, <1>8 DEF SetScl, StartPorts
  <2>3. UNCHANGED deviceVars
    <3>1. Device!Receiving /\ count < Bits
      BY <1>1, <2>1 DEF Device!Receiving, Fresh
    <3>2. QED
      BY <1>1, <2>2, <3>1, Falls, Zenon
  <2>4. pending' = <<>> /\ pointer' = pointer
    BY <1>1, <1>8, <2>3 DEF deviceVars, StartData
  <2>5. /\ call \in Calls /\ index \in Nat /\ index >= 1 /\ index <= Count(call)
        /\ KindAt(call, index) = "i2c_start"
    BY <1>1, Running
  <2>6. index = 1 \/ (index = 4 /\ call.fn # "I2C_Write")
    BY <2>5 DEF KindAt
  <2>7. /\ ~Returned' /\ Current'.fn = KindAt(call, index')
    BY <1>1, <1>2, <1>8, NextPlace
  <2>8. CASE ok
    <3>1. index' = index + 1
      BY <1>1, <1>2, <1>8, <2>8, AfterSuccess
    <3>2. index' = 2 \/ (index' = 5 /\ index = 4)
      BY <2>6, <3>1
    <3>3. Current'.fn = "i2c_write"
      BY <2>5, <2>6, <2>7, <3>1, <3>2, KindsInOrder
    <3>4. WriteData'
      BY <1>1, <1>2, <2>4, <2>8, <3>2 DEF WriteData, StartData, PointerAt
    <3>5. Got'
      BY <3>2, NothingGot
    <3>6. QED
      BY <1>1, <1>2, <2>7, <3>3, <3>4, <3>5 DEF Data
  <2>9. CASE ~ok
    <3>1. Current'.fn = "i2c_stop" /\ ~Returned'
      BY <1>1, <1>2, <1>8, <2>6, <2>9, AfterFailure
    <3>2. StopData'
      BY <1>2, <2>9 DEF StopData
    <3>3. QED
      BY <1>1, <1>2, <2>9, <3>1, <3>2 DEF Data
  <2>10. QED
    BY <2>8, <2>9
<1>9. QED
  BY <1>2, <1>4, <1>5, <1>6, <1>7, <1>8, Zenon DEF StartSteps

LEMMA StopDatas ==
  ASSUME EightBits, SyncInv, Data, resets = 0, Stop
  PROVE  Data'
<1>1. /\ Where /\ ~Returned /\ Current.fn = "i2c_stop" /\ line \in 1..4
      /\ ok \in BOOLEAN /\ StopPorts /\ StopData
  BY DEF SyncInv, HearInv, TypeInv, PortInv, Flow, Stop, Position, Ports, Where, Data
<1>2. StopSteps /\ call' = call /\ ok' = ok /\ result' = result /\ data' = data
  BY <1>1, StopMoves DEF StopSteps
<1>3. ASSUME index' = index, UNCHANGED <<pointer, pending, mem>> PROVE Data'
  <2>1. StopData'
    BY <1>1, <1>2, <1>3 DEF StopData, PointerAt
  <2>2. QED
    BY <1>1, <1>2, <1>3, <2>1, Steady
<1>4. CASE line = 1 /\ SetSda(TRUE, out) /\ Goes(2)
  <2>1. UNCHANGED deviceVars /\ index' = index
    BY <1>1, <1>4 DEF SetSda, StopPorts, Goes
  <2>2. QED
    BY <1>3, <2>1 DEF deviceVars
<1>5. CASE line = 2 /\ SetSda(dir, FALSE) /\ Goes(3)
  <2>1. UNCHANGED deviceVars /\ index' = index
    BY <1>1, <1>5 DEF SetSda, StopPorts, Goes
  <2>2. QED
    BY <1>3, <2>1 DEF deviceVars
<1>6. CASE line = 3 /\ SetScl(TRUE) /\ Goes(4)
  <2>1. UNCHANGED <<pointer, pending, mem>> /\ index' = index
    BY <1>6 DEF SetScl, Device!ClockRises, deviceVars, Goes
  <2>2. QED
    BY <1>3, <2>1
<1>7. CASE line = 4 /\ SetSda(dir, TRUE) /\ Leaves
  <2>1. Returned'
    BY <1>1, <1>2, <1>7, NextPlace
  <2>2. QED
    BY <2>1 DEF Data
<1>8. QED
  BY <1>2, <1>4, <1>5, <1>6, <1>7, Zenon DEF StopSteps

LEMMA WriteDatas ==
  ASSUME EightBits, SyncInv, Data, resets = 0, WriteByte
  PROVE  Data'
<1>1. /\ Where /\ ~Returned /\ Current.fn = "i2c_write" /\ line \in 1..9
      /\ line > 5 => bit = Bits - 1
      /\ scl \in BOOLEAN /\ dir \in BOOLEAN /\ out \in BOOLEAN /\ ok \in BOOLEAN
      /\ WritePorts /\ DeviceInv /\ bit \in 0..(Bits - 1) /\ Bits \in Nat /\ Bits > 0
      /\ WriteSync /\ WriteData /\ data = 0
  BY ConstantsAssumption
     DEF SyncInv, HearInv, TypeInv, PortInv, Flow, WriteByte, Position, Where, Ports, Sync, Data
<1>2. /\ WriteSteps /\ call' = call /\ ok' \in BOOLEAN /\ result' = result /\ data' = data
      /\ ok' = IF line = 8 THEN ~Sda ELSE ok
  BY <1>1, WriteMoves DEF WriteSteps
<1>3. Device!Receiving => WriteHeard
  BY <1>1 DEF SyncInv, HearInv, Listening
<1>4. /\ call \in Calls /\ Count(call) \in Nat /\ index \in 1..Count(call)
      /\ Current = FunctionAt(call, index) /\ KindAt(call, index) = "i2c_write"
      /\ Current.arg \in Device!Byte
  <2>1. /\ call \in Calls /\ Count(call) \in Nat /\ index \in 1..Count(call)
        /\ Current = FunctionAt(call, index) /\ KindAt(call, index) = "i2c_write"
    BY <1>1, Running
  <2>2. QED
    BY <2>1, ArgumentByte
<1>5. mode = "idle" \/ Device!Receiving
  BY <1>1 DEF WriteSync, Expected, Device!Receiving
<1>6. index <= 6
  BY <1>4 DEF KindAt
<1>7. ASSUME index' = index, UNCHANGED <<pointer, pending, mem>>, mode = "idle" => mode' = "idle"
      PROVE  Data'
  <2>1. WriteData'
    BY <1>1, <1>2, <1>7 DEF WriteData, PointerAt
  <2>2. QED
    BY <1>1, <1>2, <1>6, <1>7, <2>1, Steady
<1>8. ASSUME index' = index, UNCHANGED deviceVars PROVE Data'
  BY <1>7, <1>8 DEF deviceVars
<1>9. CASE line = 1 /\ SetSda(TRUE, out) /\ Goes(2)
  <2>1. UNCHANGED deviceVars /\ index' = index
    BY <1>1, <1>9 DEF SetSda, WritePorts, Goes
  <2>2. QED
    BY <1>8, <2>1
<1>10. CASE line = 2 /\ SetScl(FALSE) /\ Goes(3)
  <2>1. UNCHANGED deviceVars /\ index' = index
    BY <1>1, <1>10 DEF SetScl, WritePorts, Goes
  <2>2. QED
    BY <1>8, <2>1
<1>11. CASE line = 3 /\ SetSda(dir, Device!BitOf(Current.arg, bit)) /\ Goes(4)
  <2>1. UNCHANGED deviceVars /\ index' = index
    BY <1>1, <1>11 DEF SetSda, WritePorts, Goes
  <2>2. QED
    BY <1>8, <2>1
<1>12. ASSUME SetScl(TRUE), ~scl, index' = index PROVE Data'
  <2>1. Device!ClockRises(Sda)
    BY <1>12 DEF SetScl
  <2>2. UNCHANGED <<pointer, pending, mem>> /\ (mode = "idle" => mode' = "idle")
    BY <2>1 DEF Device!ClockRises
  <2>3. QED
    BY <1>7, <1>12, <2>2
<1>13. CASE line = 4 /\ SetScl(TRUE) /\ Goes(5)
  BY <1>1, <1>12, <1>13 DEF WritePorts, Goes
<1>14. CASE line = 5 /\ SetScl(FALSE) /\ Loops(2)
  <2>1. /\ Device!ClockFalls /\ index' = index /\ line' = 2 /\ bit < Bits - 1
    BY <1>1, <1>14 DEF SetScl, WritePorts, Loops
  <2>2. mode # "idle" /\ Device!Receiving
    BY <1>1, <1>5, <1>14 DEF WriteSync
  <2>3. count < Bits
    BY <1>1, <1>3, <1>14, <2>1, <2>2 DEF WriteHeard
  <2>4. UNCHANGED deviceVars
    BY <1>1, <2>1, <2>2, <2>3, Falls, Zenon
  <2>5. QED
    BY <1>8, <2>1, <2>4
<1>15. CASE line = 5 /\ SetScl(FALSE) /\ bit = Bits - 1 /\ Goes(6)
  <2>1. Device!ClockFalls /\ index' = index /\ line' = 6
    BY <1>1, <1>15 DEF SetScl, WritePorts, Goes
  <2>2. mode # "idle" /\ Device!Receiving
    BY <1>1, <1>5, <1>15 DEF WriteSync
  <2>3. count = Bits
    BY <1>1, <1>3, <1>15, <2>2 DEF WriteHeard
  <2>4. pointer' = pointer /\ pending' = pending /\ mem' = mem
    BY <1>1, <2>1, <2>2, <2>3, Falls, Zenon
  <2>5. QED
    BY <1>7, <2>1, <2>2, <2>4
<1>16. CASE line = 6 /\ SetSda(FALSE, out) /\ Goes(7)
  <2>1. UNCHANGED deviceVars /\ index' = index
    BY <1>1, <1>16 DEF SetSda, WritePorts, Goes
  <2>2. QED
    BY <1>8, <2>1
<1>17. CASE line = 7 /\ SetScl(TRUE) /\ Goes(8)
  BY <1>1, <1>12, <1>17 DEF WritePorts, Goes
<1>18. CASE line = 8 /\ UNCHANGED <<lineVars, deviceVars>> /\ Goes(9)
  <2>1. UNCHANGED deviceVars /\ index' = index
    BY <1>18 DEF Goes
  <2>2. QED
    BY <1>8, <2>1
<1>19. CASE line = 9 /\ SetScl(FALSE) /\ Leaves
  <2>1. Device!ClockFalls /\ ok' = ok /\ line' = 1 /\ bit' = 0 /\ data' = 0
    BY <1>1, <1>2, <1>19 DEF SetScl, WritePorts, Leaves
  <2>2. /\ ~Returned' /\ Current'.fn = KindAt(call, index')
    BY <1>1, <1>2, <1>19, <2>1, NextPlace
  <2>3. CASE mode = "idle"
    <3>1. ~ok
      BY <1>1, <1>19, <2>3 DEF WriteSync, DeviceInv, Fresh
    <3>2. Current'.fn = "i2c_start" \/ Current'.fn = "i2c_stop"
      BY <1>1, <1>2, <1>19, <2>1, <3>1, AfterFailure
    <3>3. StartData' /\ StopData' /\ ~ok'
      BY <2>1, <3>1 DEF StartData, StopData
    <3>4. QED
      BY <2>1, <2>2, <3>2, <3>3 DEF Data
  <2>4. CASE Device!Receiving
    <3>1. /\ ok /\ count = Bits + 1 /\ shift = Current.arg /\ mode = Expected(index)
          /\ pending = <<>> /\ mode # "idle"
      BY <1>1, <1>3, <1>19, <2>4 DEF WriteHeard, WriteSync, WriteData, Device!Receiving
    <3>2. Device!TakeByte
      BY <1>1, <2>1, <2>4, <3>1, Falls, Zenon
    <3>3. index' = index + 1
      BY <1>1, <1>2, <1>19, <2>1, <3>1, AfterSuccess
    <3>4. /\ index = 2 => Current.arg = DeviceAddr
          /\ index = 3 => Current.arg = CellAddr(call)
          /\ (index = 4 /\ call.fn = "I2C_Write") => Current.arg = call.value
          /\ (index = 5 /\ call.fn # "I2C_Write") => Current.arg = DeviceAddr + 1
      BY <1>4, Arguments
    <3>5. \/ index = 2 \/ index = 3
          \/ index = 4 /\ call.fn = "I2C_Write"
          \/ index = 5 /\ call.fn # "I2C_Write"
      <4>1. index # 1 /\ index # Count(call) /\ index <= 5 /\ (index = 4 => call.fn = "I2C_Write")
        BY <1>4 DEF KindAt
      <4>2. call.fn = "I2C_Write" => Count(call) = 5
        BY <1>4, KindsInOrder
      <4>3. QED
        BY <1>4, <4>1, <4>2
    <3>6. DeviceAddr \in Nat /\ CellAddr(call) \in Nat /\ MemSize \in Nat /\ MemSize > 0
      BY <1>4, ConstantsAssumption, CallTypes
    <3>7. Got'
      BY <1>4, <1>6, <3>3, <3>5, NothingGot
    <3>8. CASE index = 2
      <4>1. mode = "device" /\ shift # DeviceAddr + 1
        BY <3>1, <3>4, <3>6, <3>8 DEF Expected
      <4>2. pending' = <<>> /\ index' = 3
        BY <3>1, <3>2, <3>3, <3>8, <4>1 DEF Device!TakeByte
      <4>3. Current'.fn = "i2c_write"
        BY <1>4, <2>2, <4>2, KindsInOrder
      <4>4. WriteData'
        BY <4>2 DEF WriteData
      <4>5. QED
        BY <2>1, <2>2, <3>7, <4>3, <4>4 DEF Data
    <3>9. CASE index = 3
      <4>1. mode = "control" /\ shift = CellAddr(call)
        BY <3>1, <3>4, <3>9 DEF Expected
      <4>2. pending' = <<>> /\ index' = 4 /\ pointer' = CellAddr(call) % MemSize
        BY <3>1, <3>2, <3>3, <3>9, <4>1 DEF Device!TakeByte
      <4>3. PointerAt(0)'
        BY <1>2, <3>6, <4>2 DEF PointerAt
      <4>4. WriteData' /\ StartData'
        BY <2>1, <4>2, <4>3 DEF WriteData, StartData
      <4>5. Current'.fn = "i2c_start" \/ Current'.fn = "i2c_write"
        BY <1>4, <2>2, <4>2, KindsInOrder
      <4>6. QED
        BY <2>1, <2>2, <3>7, <4>4, <4>5 DEF Data
    <3>10. CASE index = 4 /\ call.fn = "I2C_Write"
      <4>1. mode = "data" /\ shift = call.value /\ PointerAt(0)
        BY <1>1, <3>1, <3>4, <3>10 DEF Expected, WriteData
      <4>2. pending' = <<call.value>> /\ pointer' = pointer /\ index' = 5
        BY <3>1, <3>2, <3>3, <3>10, <4>1 DEF Device!TakeByte
      <4>3. Current'.fn = "i2c_stop"
        BY <1>4, <2>2, <3>10, <4>2, KindsInOrder
      <4>4. StopData'
        BY <1>2, <4>1, <4>2 DEF StopData, PointerAt
      <4>5. QED
        BY <2>1, <2>2, <3>7, <4>3, <4>4 DEF Data
    <3>11. CASE index = 5 /\ call.fn # "I2C_Write"
      <4>1. mode = "device" /\ shift = DeviceAddr + 1 /\ PointerAt(0)
        BY <1>1, <3>1, <3>4, <3>11 DEF Expected, WriteData
      <4>2. /\ shift' = mem[pointer] /\ pointer' = (pointer + 1) % MemSize /\ mem' = mem
        BY <3>2, <4>1 DEF Device!TakeByte, Device!SendNext
      <4>3. index' = 6
        BY <3>3, <3>11
      <4>4. Current'.fn = "i2c_read"
        <5>1. Count(call) >= 7 /\ 6 \in 6..(Count(call) - 1)
          BY <1>4, <3>11, KindsInOrder
        <5>2. QED
          BY <1>4, <2>2, <3>11, <4>3, <5>1, KindsInOrder
      <4>5. CellOf(0)' = mem[(CellAddr(call) + 0) % MemSize]
        BY <1>2, <4>2 DEF CellOf
      <4>6. shift' = CellOf(0)'
        BY <4>1, <4>2, <4>5 DEF PointerAt
      <4>7. pointer' = (CellAddr(call) + 1) % MemSize
        <5>1. pointer = CellAddr(call) % MemSize
          BY <3>6, <4>1 DEF PointerAt
        <5>2. QED
          BY <3>6, <4>2, <5>1, WrapsRound
      <4>8. PointerAt(1)'
        BY <1>2, <4>7 DEF PointerAt
      <4>9. Top(shift', 0) = 0
        <5>1. shift' \in Device!Byte
          BY <1>1, <3>6, <4>2 DEF DeviceInv
        <5>2. QED
          BY <5>1, TopBits
      <4>10. index' - 6 = 0 /\ index' - 5 = 1
        BY <4>3
      <4>11. ReadData'
        BY <2>1, <4>6, <4>8, <4>9, <4>10 DEF ReadData
      <4>12. QED
        BY <2>2, <3>7, <4>4, <4>11 DEF Data
    <3>12. QED
      BY <3>5, <3>8, <3>9, <3>10, <3>11
  <2>5. QED
    BY <1>5, <2>3, <2>4
<1>20. QED
  BY <1>2, <1>9, <1>10, <1>11, <1>13, <1>14, <1>15, <1>16, <1>17, <1>18, <1>19, Zenon
     DEF WriteSteps

LEMMA ReadDatas ==
  ASSUME EightBits, SyncInv, Lengths, Data, resets = 0, ReadByte
  PROVE  Data'
<1>1. /\ Where /\ ~Returned /\ Current.fn = "i2c_read" /\ line \in 1..11
      /\ line < 3 => bit = 0
      /\ line > 5 => bit = Bits - 1
      /\ scl \in BOOLEAN /\ dir \in BOOLEAN /\ out \in BOOLEAN /\ ok \in BOOLEAN
      /\ ReadPorts /\ DeviceInv /\ bit \in 0..(Bits - 1) /\ Bits \in Nat /\ Bits > 0
      /\ ReadSync /\ ReadData /\ result \in Seq(Device!Byte)
  BY ConstantsAssumption
     DEF SyncInv, HearInv, TypeInv, PortInv, Flow, ReadByte, Position, Where, Ports, Sync,
         Data, DriverTypes
<1>2. /\ ReadSteps /\ call' = call /\ ok' = ok
      /\ line # 11 => result' = result
      /\ (line # 4 /\ line # 11) => data' = data
      /\ line = 4 => data' = Device!WithBit(data, Sda)
      /\ line = 11 => data' = 0 /\ result' = Append(result, data)
  <2>1. ReadSteps
    BY <1>1, ReadMoves
  <2>2. /\ call' = call /\ ok' = ok
        /\ data' = IF line = 4 THEN Device!WithBit(data, Sda) ELSE IF line = 11 THEN 0 ELSE data
        /\ result' = IF line = 11 THEN Append(result, data) ELSE result
    BY <2>1 DEF ReadSteps
  <2>3. QED
    BY <2>1, <2>2
<1>3. /\ call \in Calls /\ Count(call) \in Nat /\ index \in 1..Count(call)
      /\ Current = FunctionAt(call, index) /\ KindAt(call, index) = "i2c_read"
      /\ Current \in Function /\ ok
  <2>1. /\ call \in Calls /\ Count(call) \in Nat /\ index \in 1..Count(call)
        /\ Current = FunctionAt(call, index) /\ KindAt(call, index) = "i2c_read"
        /\ Current \in Function
    BY <1>1, Running
  <2>2. Current.ifOk
    BY <2>1, Kinds DEF KindAt
  <2>3. ok
    BY <1>1, <2>2 DEF SyncInv, HearInv, TypeInv, PortInv, Flow, Position
  <2>4. QED
    BY <2>1, <2>3
<1>4. /\ call.fn # "I2C_Write" /\ index >= 6 /\ index <= Count(call) - 1 /\ Count(call) >= 7
      /\ index \in Nat
  <2>1. index # 1 /\ index # Count(call) /\ ~(index <= 5)
    BY <1>3 DEF KindAt
  <2>2. call.fn # "I2C_Write"
    BY <1>3, <2>1, KindsInOrder
  <2>3. QED
    BY <1>3, <2>1, <2>2, KindsInOrder
<1>5. CellAddr(call) \in Nat /\ MemSize \in Nat /\ MemSize > 0
  BY <1>3, ConstantsAssumption, CallTypes
<1>6. ASSUME index' = index, UNCHANGED <<pointer, pending, mem>>, line # 11, ReadData'
      PROVE  Data'
  BY <1>1, <1>2, <1>6, Steady
<1>7. ASSUME UNCHANGED deviceVars, Goes(line + 1), line \in 1..3 \/ line \in 6..9,
              line' \in 1..3 \/ line' \in 6..10
       PROVE  Data'
  <2>1. /\ index' = index /\ line' = line + 1 /\ bit' = bit
        /\ UNCHANGED <<pointer, pending, mem, shift, mode>>
    BY <1>7 DEF Goes, deviceVars
  <2>2. data' = data
    BY <1>2, <1>7
  <2>3. CellOf(index - 6)' = CellOf(index - 6) /\ PointerAt(index - 5)' = PointerAt(index - 5)
    BY <1>2, <2>1 DEF CellOf, PointerAt
  <2>4. ReadData'
    BY <1>1, <1>7, <2>1, <2>2, <2>3 DEF ReadData, Top
  <2>5. QED
    BY <1>6, <1>7, <2>1, <2>4
<1>8. CASE line = 1 /\ SetSda(FALSE, out) /\ Goes(2)
  <2>1. UNCHANGED deviceVars /\ Goes(line + 1) /\ line' = 2
    BY <1>1, <1>8 DEF SetSda, ReadPorts, Goes
  <2>2. QED
    BY <1>7, <1>8, <2>1
<1>9. CASE line = 2 /\ SetScl(FALSE) /\ Goes(3)
  <2>1. UNCHANGED deviceVars /\ Goes(line + 1) /\ line' = 3
    BY <1>1, <1>9 DEF SetScl, ReadPorts, Goes
  <2>2. QED
    BY <1>7, <1>9, <2>1
<1>10. CASE line = 3 /\ SetScl(TRUE) /\ Goes(4)
  <2>1. Device!ClockRises(Sda) /\ index' = index /\ line' = 4 /\ bit' = bit
    BY <1>1, <1>10 DEF SetScl, ReadPorts, Goes
  <2>2. mode = "sending" /\ ~(count = Bits /\ Sda)
    BY <1>1, <1>10 DEF ReadSync
  <2>3. /\ mode' = mode /\ shift' = shift
        /\ pointer' = pointer /\ pending' = pending /\ mem' = mem
    <3>1. pointer' = pointer /\ pending' = pending /\ mem' = mem
      BY <1>1, <2>1, Rises, Zenon
    <3>2. (mode = "sending" /\ ~(count = Bits /\ Sda)) =>
            mode' = mode /\ count' = count + 1 /\ shift' = shift /\ hold' = hold
      BY <1>1, <2>1, Rises, Zenon
    <3>3. QED
      BY <2>2, <3>1, <3>2
  <2>4. CellOf(index - 6)' = CellOf(index - 6) /\ PointerAt(index - 5)' = PointerAt(index - 5)
    BY <1>2, <2>1, <2>3 DEF CellOf, PointerAt
  <2>5. data' = data
    BY <1>2, <1>10
  <2>6. ReadData'
    BY <1>1, <1>10, <2>1, <2>3, <2>4, <2>5 DEF ReadData, Top
  <2>7. QED
    BY <1>6, <1>10, <2>1, <2>3, <2>6
<1>11. CASE line = 4 /\ UNCHANGED <<lineVars, deviceVars>> /\ Goes(5)
  <2>1. /\ index' = index /\ line' = 5 /\ bit' = bit
        /\ UNCHANGED <<pointer, pending, mem, shift, mode>>
    BY <1>11 DEF Goes, deviceVars
  <2>2. CellOf(index - 6)' = CellOf(index - 6) /\ PointerAt(index - 5)' = PointerAt(index - 5)
    BY <1>2, <2>1 DEF CellOf, PointerAt
  <2>3. /\ data = Top(shift, bit) /\ hold = (~Device!BitOf(shift, bit)) /\ ~dir
        /\ shift \in Device!Byte
    BY <1>1, <1>11 DEF ReadData, ReadSync, ReadPorts, DeviceInv
  <2>4. Sda = Device!BitOf(shift, bit)
    BY <2>3 DEF Sda, Device!BitOf
  <2>5. data' = Device!WithBit(Top(shift, bit), Device!BitOf(shift, bit))
    BY <1>2, <1>11, <2>3, <2>4
  <2>6. data' = Top(shift, bit + 1)
    BY <1>1, <2>3, <2>5, NextBit
  <2>7. ReadData'
    BY <1>1, <1>11, <2>1, <2>2, <2>6 DEF ReadData, Top
  <2>8. QED
    BY <1>6, <1>11, <2>1, <2>7
<1>12. CASE line = 5 /\ SetScl(FALSE) /\ Loops(3)
  <2>1. /\ Device!ClockFalls /\ index' = index /\ line' = 3 /\ bit' = bit + 1
        /\ bit < Bits - 1
    BY <1>1, <1>12 DEF SetScl, ReadPorts, Loops
  <2>2. mode = "sending" /\ count = bit + 1
    BY <1>1, <1>12 DEF ReadSync
  <2>3. Device!SendBit /\ count # Bits + 1
    BY <1>1, <2>1, <2>2, Falls
  <2>4. UNCHANGED <<pointer, pending, mem, shift, mode>>
    BY <2>3 DEF Device!SendBit
  <2>5. CellOf(index - 6)' = CellOf(index - 6) /\ PointerAt(index - 5)' = PointerAt(index - 5)
    BY <1>2, <2>1, <2>4 DEF CellOf, PointerAt
  <2>6. data' = data
    BY <1>2, <1>12
  <2>7. ReadData'
    BY <1>1, <1>12, <2>1, <2>4, <2>5, <2>6 DEF ReadData, Top
  <2>8. QED
    BY <1>6, <1>12, <2>1, <2>4, <2>7
<1>13. CASE line = 5 /\ SetScl(FALSE) /\ bit = Bits - 1 /\ Goes(6)
  <2>1. Device!ClockFalls /\ index' = index /\ line' = 6
    BY <1>1, <1>13 DEF SetScl, ReadPorts, Goes
  <2>2. mode = "sending" /\ count = Bits
    BY <1>1, <1>13 DEF ReadSync
  <2>3. Device!SendBit /\ count # Bits + 1
    BY <1>1, <2>1, <2>2, Falls
  <2>4. UNCHANGED <<pointer, pending, mem, shift, mode>>
    BY <2>3 DEF Device!SendBit
  <2>5. CellOf(index - 6)' = CellOf(index - 6) /\ PointerAt(index - 5)' = PointerAt(index - 5)
    BY <1>2, <2>1, <2>4 DEF CellOf, PointerAt
  <2>6. data' = data /\ data = Top(shift, Bits)
    <3>1. bit + 1 = Bits
      BY <1>1, <1>13
    <3>2. QED
      BY <1>1, <1>2, <1>13, <3>1 DEF ReadData
  <2>7. data' = CellOf(index - 6)
    <3>1. shift \in Device!Byte /\ shift = CellOf(index - 6)
      BY <1>1, <1>13, <2>2 DEF ReadData, DeviceInv
    <3>2. QED
      BY <2>6, <3>1, TopBits
  <2>8. ReadData'
    BY <1>1, <1>13, <2>1, <2>2, <2>4, <2>5, <2>7 DEF ReadData
  <2>9. QED
    BY <1>6, <1>13, <2>1, <2>4, <2>8
<1>14. CASE line = 6 /\ SetScl(FALSE) /\ Goes(7)
  <2>1. UNCHANGED deviceVars /\ Goes(line + 1) /\ line' = 7
    BY <1>1, <1>14 DEF SetScl, ReadPorts, Goes
  <2>2. QED
    BY <1>7, <1>14, <2>1
<1>15. CASE line = 7 /\ SetSda(TRUE, out) /\ Goes(8)
  <2>1. UNCHANGED deviceVars /\ Goes(line + 1) /\ line' = 8
    BY <1>1, <1>15 DEF SetSda, ReadPorts, Goes
  <2>2. QED
    BY <1>7, <1>15, <2>1
<1>16. CASE line = 8 /\ SetSda(dir, Current.arg = 0) /\ Goes(9)
  <2>1. UNCHANGED deviceVars /\ Goes(line + 1) /\ line' = 9
    BY <1>1, <1>16 DEF SetSda, ReadPorts, Goes
  <2>2. QED
    BY <1>7, <1>16, <2>1
<1>17. CASE line = 9 /\ SetScl(TRUE) /\ Goes(10)
  <2>1. Device!ClockRises(Sda) /\ index' = index /\ line' = 10
    BY <1>1, <1>17 DEF SetScl, ReadPorts, Goes
  <2>2. /\ UNCHANGED <<pointer, pending, mem>>
        /\ mode' = "idle" \/ (mode' = mode /\ shift' = shift)
    <3>1. mode = "sending"
      BY <1>1, <1>17 DEF ReadSync
    <3>2. QED
      BY <2>1, <3>1 DEF Device!ClockRises, Device!Receiving
  <2>3. CellOf(index - 6)' = CellOf(index - 6) /\ PointerAt(index - 5)' = PointerAt(index - 5)
    BY <1>2, <2>1, <2>2 DEF CellOf, PointerAt
  <2>4. data' = data
    BY <1>2, <1>17
  <2>5. ReadData'
    BY <1>1, <1>17, <2>1, <2>2, <2>3, <2>4 DEF ReadData
  <2>6. QED
    BY <1>6, <1>17, <2>1, <2>2, <2>5
<1>18. CASE line = 10 /\ SetScl(FALSE) /\ Goes(11)
  <2>1. Device!ClockFalls /\ index' = index /\ line' = 11
    BY <1>1, <1>18 DEF SetScl, ReadPorts, Goes
  <2>2. data' = data /\ data = CellOf(index - 6)
    BY <1>1, <1>2, <1>18 DEF ReadData
  <2>3. CASE Current.arg = 0
    <3>1. mode = "idle"
      BY <1>1, <1>18, <2>3 DEF ReadSync
    <3>2. UNCHANGED <<mode, pointer, pending, mem>>
      BY <1>1, <2>1, <3>1, Falls, Zenon DEF deviceVars
    <3>3. CellOf(index - 6)' = CellOf(index - 6)
      BY <1>2, <2>1, <3>2 DEF CellOf
    <3>4. ReadData'
      BY <2>1, <2>2, <3>1, <3>2, <3>3 DEF ReadData
    <3>5. QED
      BY <1>6, <1>18, <2>1, <3>2, <3>4
  <2>4. CASE Current.arg # 0
    <3>1. mode = "sending" /\ count = Bits + 1 /\ PointerAt(index - 5)
      BY <1>1, <1>18, <2>4 DEF ReadSync, ReadData
    <3>2. Device!SendBit
      BY <1>1, <2>1, <3>1, Falls, Zenon
    <3>3. /\ shift' = mem[pointer] /\ pointer' = (pointer + 1) % MemSize
          /\ mem' = mem /\ pending' = pending
      BY <3>1, <3>2 DEF Device!SendBit, Device!SendNext
    <3>4. CellOf(index - 6)' = CellOf(index - 6) /\ CellOf(index - 5)' = CellOf(index - 5)
      BY <1>2, <2>1, <3>3 DEF CellOf
    <3>5. shift' = CellOf(index - 5)
      BY <3>1, <3>3 DEF CellOf, PointerAt
    <3>6. pointer' = (CellAddr(call) + (index - 4)) % MemSize
      <4>1. CellAddr(call) + (index - 5) \in Nat
        BY <1>4, <1>5
      <4>2. pointer' = (CellAddr(call) + (index - 5) + 1) % MemSize
        BY <1>5, <3>1, <3>3, <4>1, WrapsRound DEF PointerAt
      <4>3. CellAddr(call) + (index - 5) + 1 = CellAddr(call) + (index - 4)
        BY <1>4, <1>5
      <4>4. QED
        BY <4>2, <4>3
    <3>7. PointerAt(index - 4)'
      BY <1>2, <2>1, <3>6 DEF PointerAt
    <3>8. ReadData'
      BY <2>1, <2>2, <3>4, <3>5, <3>7 DEF ReadData
    <3>9. ~Returned' /\ Current' = Current
      BY <1>1, <1>2, <2>1, SamePlace
    <3>10. Got'
      <4>1. result' = result /\ Got
        BY <1>1, <1>2, <1>3, <1>18 DEF Data
      <4>2. QED
        BY <1>2, <2>1, <3>3, <4>1 DEF Got, CellOf
    <3>11. QED
      BY <1>1, <3>8, <3>9, <3>10 DEF Data
  <2>5. QED
    BY <2>3, <2>4
<1>19. CASE line = 11 /\ SetSda(dir, FALSE) /\ Leaves
  <2>1. UNCHANGED deviceVars /\ line' = 1 /\ bit' = 0
    BY <1>1, <1>19 DEF SetSda, ReadPorts, Leaves
  <2>2. index' = index + 1
    BY <1>1, <1>2, <1>3, <1>19, AfterSuccess
  <2>3. /\ ~Returned' /\ Current'.fn = KindAt(call, index')
    BY <1>1, <1>2, <1>19, NextPlace
  <2>4. /\ data = CellOf(index - 6) /\ data' = 0 /\ result' = Append(result, data)
        /\ mem' = mem /\ pointer' = pointer /\ shift' = shift /\ mode' = mode
    BY <1>1, <1>2, <1>19, <2>1 DEF ReadData, deviceVars
  <2>5. Len(result) = index - 6
    BY <1>1, <1>3, <1>4 DEF Lengths
  <2>6. Got'
    <3>1. ASSUME NEW n \in 1..(index' - 6) PROVE result'[n] = CellOf(n - 1)'
      <4>1. CellOf(n - 1)' = CellOf(n - 1)
        BY <1>2, <2>4 DEF CellOf
      <4>2. CASE n = index - 5
        <5>1. result'[n] = data /\ n - 1 = index - 6
          BY <1>1, <1>4, <2>4, <2>5, <4>2
        <5>2. QED
          BY <2>4, <4>1, <5>1
      <4>3. CASE n # index - 5
        <5>1. n \in 1..(index - 6)
          BY <1>4, <2>2, <4>3
        <5>2. result[n] = CellOf(n - 1)
          BY <1>1, <1>3, <5>1 DEF Data, Got
        <5>3. result'[n] = result[n]
          BY <1>1, <2>4, <2>5, <5>1
        <5>4. QED
          BY <4>1, <5>2, <5>3
      <4>4. QED
        BY <4>2, <4>3
    <3>2. QED
      BY <3>1 DEF Got
  <2>7. index' = Count(call) \/ index' \in 6..(Count(call) - 1)
    BY <1>3, <1>4, <2>2
  <2>8. CASE index' = Count(call)
    <3>1. Current'.fn = "i2c_stop"
      BY <1>3, <2>3, <2>8, KindsInOrder
    <3>2. StopData'
      BY <1>2, <1>4 DEF StopData
    <3>3. QED
      BY <2>3, <2>4, <2>6, <3>1, <3>2 DEF Data
  <2>9. CASE index' \in 6..(Count(call) - 1)
    <3>1. Current'.fn = "i2c_read"
      BY <1>3, <1>4, <2>3, <2>9, KindsInOrder
    <3>2. mode = "sending" => shift = CellOf(index - 5) /\ PointerAt(index - 4)
      BY <1>1, <1>19 DEF ReadData
    <3>3. CellOf(index - 6)' = CellOf(index - 5) /\ PointerAt(index - 5)' = PointerAt(index - 4)
      <4>1. index' - 6 = index - 5 /\ index' - 5 = index - 4
        BY <1>4, <2>2
      <4>2. QED
        BY <1>2, <2>4, <4>1 DEF CellOf, PointerAt
    <3>4. mode = "sending" /\ shift \in Device!Byte
      <4>1. Current.arg # 0
        <5>1. index # Count(call) - 1
          BY <1>3, <2>2, <2>9
        <5>2. QED
          BY <1>3, <5>1, Arguments
      <4>2. QED
        BY <1>1, <1>19, <4>1 DEF ReadSync, DeviceInv
    <3>5. data' = Top(shift', bit')
      BY <2>1, <2>4, <3>4, TopBits
    <3>6. ReadData'
      BY <2>1, <2>4, <3>2, <3>3, <3>5 DEF ReadData
    <3>7. QED
      BY <2>3, <2>6, <3>1, <3>6 DEF Data
  <2>10. QED
    BY <2>7, <2>8, <2>9
<1>20. QED
  BY <1>2, <1>8, <1>9, <1>10, <1>11, <1>12, <1>13, <1>14, <1>15, <1>16, <1>17, <1>18,
     <1>19, Zenon DEF ReadSteps

LEMMA DataInvBegins ==
  ASSUME EightBits, Init
  PROVE  DataInv
<1>1. call = NoCall /\ index = 1
  BY DEF Init
<1>2. Returned
  BY <1>1 DEF NoCall, Body, Returned
<1>3. QED
  BY <1>2, SyncInvBegins DEF DataInv, Lengths, Data

LEMMA DataInvKept ==
  ASSUME EightBits, DataInv, [Next]_vars
  PROVE  DataInv'
<1>1. SyncInv' /\ Lengths'
  BY SyncInvKept, LengthsKept DEF DataInv, SyncInv
<1> SUFFICES ASSUME resets' = 0
             PROVE  Data'
  BY <1>1 DEF DataInv
<1>2. CASE Step
  <2>1. resets' = resets
    BY <1>2 DEF Step, Start, Stop, WriteByte, ReadByte
  <2>2. QED
    BY <1>2, <2>1, StartDatas, StopDatas, WriteDatas, ReadDatas DEF DataInv, Step
<1>3. CASE Call
  <2>1. line' = 1 /\ data' = 0
    BY <1>3 DEF Call
  <2>2. ~Returned' /\ Current'.fn = "i2c_start" /\ index' = 1
    BY <1>3, FirstPlace
  <2>3. StartData'
    BY <2>1, <2>2 DEF StartData
  <2>4. Got'
    BY <2>2, NothingGot
  <2>5. QED
    BY <2>1, <2>2, <2>3, <2>4 DEF Data
<1>4. CASE Reset
  <2>1. resets' = resets + 1 /\ resets \in Nat
    BY <1>4, ConstantsAssumption
       DEF Reset, DataInv, SyncInv, HearInv, TypeInv, DriverTypes
  <2>2. QED
    BY <2>1
<1>5. CASE UNCHANGED vars
  <2>1. resets = 0 /\ Data /\ Where
    BY <1>5 DEF DataInv, SyncInv, HearInv, TypeInv, PortInv, Flow, vars
  <2>2. CASE Returned
    <3>1. Returned'
      BY <1>5, <2>2 DEF Returned, vars, driverVars
    <3>2. QED
      BY <3>1 DEF Data
  <2>3. CASE ~Returned
    <3>1. /\ UNCHANGED <<pointer, pending, mem, result, call, index, ok, data, line, bit, mode,
                         shift>>
          /\ ok' \in BOOLEAN
      BY <1>5, <2>1 DEF vars, driverVars, deviceVars, Where
    <3>2. ~Returned' /\ Current' = Current
      BY <2>1, <2>3, <3>1, SamePlace
    <3>3. \A n : CellOf(n)' = CellOf(n) /\ PointerAt(n)' = PointerAt(n)
      BY <3>1 DEF CellOf, PointerAt
    <3>4. QED
      BY <2>1, <2>3, <3>1, <3>2, <3>3
         DEF Data, StartData, StopData, WriteData, ReadData, Got, Top
  <2>4. QED
    BY <2>2, <2>3
<1>6. QED
  BY <1>2, <1>3, <1>4, <1>5 DEF Next
-----------------------------------------------------------------------------
(* The driver keeps the promise of EepromAccess, step by step.              *)

LEMMA SclKeepsMem ==
  ASSUME NEW level, SetScl(level)
  PROVE  mem' = mem
<1>1. ASSUME NEW sda, Device!ClockRises(sda) PROVE mem' = mem
  BY <1>1 DEF Device!ClockRises
<1>2. ASSUME Device!ClockFalls PROVE mem' = mem
  BY <1>2 DEF Device!ClockFalls, Device!Acknowledge, Device!LeaveUnacknowledged,
              Device!TakeByte, Device!SendBit, Device!SendNext, Device!deviceVars
<1>3. QED
  BY <1>1, <1>2 DEF SetScl, deviceVars

LEMMA SdaKeepsMem ==
  ASSUME NEW d, NEW o, SetSda(d, o), ~scl \/ (dir /\ out) \/ (d /\ ~o)
  PROVE  mem' = mem
<1>1. ~(scl /\ ~Sda /\ ~hold /\ (d => o))
  BY DEF Sda
<1>2. UNCHANGED deviceVars \/ Device!StartSeen
  BY <1>1 DEF SetSda
<1>3. QED
  BY <1>2 DEF deviceVars, Device!StartSeen

\* The EEPROM changes only where a call returns.
LEMMA MemStays ==
  ASSUME PortInv, Step, ~(Current.fn = "i2c_stop" /\ line = 4)
  PROVE  mem' = mem
<1>1. Where /\ Flow /\ Ports
  BY DEF PortInv, Flow
<1>2. CASE Start
  <2>1. ~Returned /\ Current.fn = "i2c_start" /\ line \in 1..5 /\ StartPorts
    BY <1>1, <1>2 DEF Start, Flow, Position, Ports
  <2>2. StartSteps
    BY <1>1, <1>2, <2>1, StartMoves
  <2>3. CASE line = 1 /\ SetSda(TRUE, out)
    <3>1. ~scl \/ (dir /\ out)
      BY <2>1, <2>3 DEF StartPorts
    <3>2. QED
      BY <2>3, <3>1, SdaKeepsMem, Zenon
  <2>4. CASE line = 2 /\ SetSda(dir, TRUE)
    <3>1. ~scl \/ (dir /\ out)
      BY <2>1, <2>4 DEF StartPorts
    <3>2. QED
      BY <2>4, <3>1, SdaKeepsMem, Zenon
  <2>5. CASE line = 4 /\ SetSda(dir, FALSE)
    <3>1. dir
      BY <2>1, <2>5 DEF StartPorts
    <3>2. QED
      BY <2>5, <3>1, SdaKeepsMem, Zenon
  <2>6. CASE SetScl(TRUE) \/ SetScl(FALSE)
    BY <2>6, SclKeepsMem
  <2>7. QED
    BY <2>2, <2>3, <2>4, <2>5, <2>6, Zenon DEF StartSteps
<1>3. CASE Stop
  <2>1. ~Returned /\ Current.fn = "i2c_stop" /\ line \in 1..4 /\ StopPorts /\ line # 4
    BY <1>1, <1>3 DEF Stop, Flow, Position, Ports
  <2>2. StopSteps
    BY <1>1, <1>3, <2>1, StopMoves
  <2>3. CASE line = 1 /\ SetSda(TRUE, out)
    <3>1. ~scl
      BY <2>1, <2>3 DEF StopPorts
    <3>2. QED
      BY <2>3, <3>1, SdaKeepsMem, Zenon
  <2>4. CASE line = 2 /\ SetSda(dir, FALSE)
    <3>1. ~scl
      BY <2>1, <2>4 DEF StopPorts
    <3>2. QED
      BY <2>4, <3>1, SdaKeepsMem, Zenon
  <2>5. CASE SetScl(TRUE)
    BY <2>5, SclKeepsMem
  <2>6. QED
    BY <2>1, <2>2, <2>3, <2>4, <2>5, Zenon DEF StopSteps
<1>4. CASE WriteByte
  <2>1. ~Returned /\ Current.fn = "i2c_write" /\ line \in 1..9 /\ WritePorts
    BY <1>1, <1>4 DEF WriteByte, Flow, Position, Ports
  <2>2. WriteSteps
    BY <1>1, <1>4, <2>1, WriteMoves, Zenon
  <2>3. ~scl \/ (line # 1 /\ line # 3 /\ line # 6)
    BY <2>1 DEF WritePorts
  <2>4. ASSUME ~scl, NEW d, NEW o, SetSda(d, o) PROVE mem' = mem
    BY <2>4, SdaKeepsMem
  <2>5. CASE SetScl(TRUE) \/ SetScl(FALSE)
    BY <2>5, SclKeepsMem
  <2>6. CASE UNCHANGED <<lineVars, deviceVars>>
    BY <2>6 DEF deviceVars
  <2>7. QED
    BY <2>2, <2>3, <2>4, <2>5, <2>6, Zenon DEF WriteSteps
<1>5. CASE ReadByte
  <2>1. ~Returned /\ Current.fn = "i2c_read" /\ line \in 1..11 /\ ReadPorts
    BY <1>1, <1>5 DEF ReadByte, Flow, Position, Ports
  <2>2. ReadSteps
    BY <1>1, <1>5, <2>1, ReadMoves, Zenon
  <2>3. ~scl \/ (line # 1 /\ line # 7 /\ line # 8 /\ line # 11)
    BY <2>1 DEF ReadPorts
  <2>4. ASSUME ~scl, NEW d, NEW o, SetSda(d, o) PROVE mem' = mem
    BY <2>4, SdaKeepsMem
  <2>5. CASE SetScl(TRUE) \/ SetScl(FALSE)
    BY <2>5, SclKeepsMem
  <2>6. CASE UNCHANGED <<lineVars, deviceVars>>
    BY <2>6 DEF deviceVars
  <2>7. QED
    BY <2>2, <2>3, <2>4, <2>5, <2>6, Zenon DEF ReadSteps
<1>6. QED
  BY <1>2, <1>3, <1>4, <1>5 DEF Step

\* A call returns from the last line of i2c_stop, and from there only.
LEMMA Returns ==
  ASSUME PortInv, Step
  PROVE  /\ ~Returned /\ call' = call /\ resets' = resets
         /\ (Current.fn = "i2c_stop" /\ line = 4) \/ ~Returned'
         /\ (Current.fn = "i2c_stop" /\ line = 4) =>
              /\ Returned' /\ SetSda(dir, TRUE) /\ scl /\ dir /\ ~out
              /\ ok' = ok /\ result' = result /\ index = Count(call)
<1>1. Where /\ Flow /\ Ports /\ (ok' \in BOOLEAN => TRUE)
  BY DEF PortInv, Flow
<1>2. ~Returned /\ call' = call /\ resets' = resets /\ Position
  BY <1>1 DEF Step, Start, Stop, WriteByte, ReadByte, Flow
<1>3. Where'
  BY PortInvKept DEF Next, PortInv, Flow
<1>4. ASSUME index' = index PROVE ~Returned'
  <2>1. ok' \in BOOLEAN
    BY <1>3 DEF Where
  <2>2. QED
    BY <1>1, <1>2, <1>4, <2>1, SamePlace
<1>5. ASSUME Leaves, ok' = ok, Current.fn # "i2c_stop" PROVE ~Returned'
  BY <1>1, <1>2, <1>5, NextPlace
<1>6. CASE Start
  <2>1. Current.fn = "i2c_start" /\ line \in 1..5
    BY <1>2, <1>6 DEF Start, Position
  <2>2. StartSteps
    BY <1>1, <1>6, <2>1, StartMoves
  <2>3. ok' = ok /\ (index' = index \/ Leaves)
    BY <2>2, Zenon DEF StartSteps, Goes
  <2>4. Current.fn # "i2c_stop" /\ ~Returned'
    BY <1>4, <1>5, <2>1, <2>3
  <2>5. QED
    BY <1>2, <2>4, Zenon
<1>7. CASE WriteByte
  <2>1. Current.fn = "i2c_write" /\ line \in 1..9
    BY <1>2, <1>7 DEF WriteByte, Position
  <2>2. WriteSteps
    BY <1>1, <1>7, <2>1, WriteMoves, Zenon
  <2>3. index' = index \/ (line = 9 /\ Leaves)
    BY <2>2, Zenon DEF WriteSteps, Goes, Loops
  <2>4. line = 9 => ok' = ok
    BY <2>2 DEF WriteSteps
  <2>5. Current.fn # "i2c_stop" /\ ~Returned'
    BY <1>4, <1>5, <2>1, <2>3, <2>4
  <2>6. QED
    BY <1>2, <2>5, Zenon
<1>8. CASE ReadByte
  <2>1. Current.fn = "i2c_read"
    BY <1>8 DEF ReadByte
  <2>2. line \in 1..11 /\ ok' = ok /\ Advance(ok)
    BY <1>2, <1>8, <2>1 DEF ReadByte, Position
  <2>3. index' = index \/ Leaves
    <3>1. CASE line = 11
      <4>1. LastLine /\ line # LoopLast[Current.fn]
        BY <2>1, <3>1, LineLists DEF LastLine
      <4>2. QED
        BY <1>1, <1>2, <2>2, <4>1, Advances
    <3>2. CASE line # 11
      <4>1. ~LastLine
        BY <2>1, <3>2, LineLists DEF LastLine
      <4>2. QED
        BY <2>2, <4>1 DEF Advance
    <3>3. QED
      BY <3>1, <3>2
  <2>4. Current.fn # "i2c_stop" /\ ~Returned'
    BY <1>4, <1>5, <2>1, <2>2, <2>3
  <2>5. QED
    BY <1>2, <2>4, Zenon
<1>9. CASE Stop
  <2>1. Current.fn = "i2c_stop" /\ line \in 1..4 /\ StopPorts
    BY <1>1, <1>2, <1>9 DEF Stop, Position, Ports
  <2>2. StopSteps
    BY <1>1, <1>9, <2>1, StopMoves
  <2>3. ok' = ok /\ result' = result
    BY <2>2 DEF StopSteps
  <2>4. CASE line = 4
    <3>1. SetSda(dir, TRUE) /\ Leaves
      <4>1. line # 1 /\ line # 2 /\ line # 3
        BY <2>4
      <4>2. QED
        BY <2>2, <4>1, Zenon DEF StopSteps
    <3>2. Returned'
      BY <1>1, <1>2, <2>1, <2>3, <3>1, NextPlace
    <3>3. scl /\ dir /\ ~out
      BY <2>1, <2>4 DEF StopPorts
    <3>4. index = Count(call)
      <4>1. /\ call \in Calls /\ KindAt(call, index) = "i2c_stop"
        BY <1>1, <1>2, <2>1, Running
      <4>2. QED
        BY <4>1 DEF KindAt
    <3>5. QED
      BY <1>2, <2>1, <2>3, <2>4, <3>1, <3>2, <3>3, <3>4, Zenon
  <2>5. CASE line # 4
    <3>1. index' = index
      BY <2>2, <2>5, Zenon DEF StopSteps, Goes
    <3>2. ~Returned'
      BY <1>4, <3>1
    <3>3. QED
      BY <1>2, <2>5, <3>2, Zenon
  <2>6. QED
    BY <2>4, <2>5
<1>10. QED
  BY <1>6, <1>7, <1>8, <1>9 DEF Step
-----------------------------------------------------------------------------
(* ... and the last of a call does what was promised.                       *)

\* What a call has to return, and how much of it.
LEMMA Answers ==
  ASSUME NEW c \in Calls
  PROVE  /\ c.fn = "I2C_Write" => Promise!Answer(c) = <<>>
         /\ c.fn = "I2C_Read" => Promise!Answer(c) = <<mem[c.addr % MemSize]>>
         /\ c.fn = "I2C_MultipleRead" =>
              Promise!Answer(c) = [n \in 1..c.len |-> mem[(n - 1) % MemSize]]
         /\ Len(Promise!Answer(c)) = IF Count(c) > 6 THEN Count(c) - 6 ELSE 0
<1>1. CASE c.fn = "I2C_Write"
  BY <1>1 DEF Promise!Answer, Count
<1>2. CASE c.fn = "I2C_Read"
  BY <1>2 DEF Promise!Answer, Promise!Cell, Count
<1>3. CASE c.fn = "I2C_MultipleRead"
  <2>1. Promise!Answer(c) = [n \in 1..c.len |-> mem[(n - 1) % MemSize]]
    BY <1>3 DEF Promise!Answer, Promise!Cell
  <2>2. c.len \in Nat \ {0} /\ Count(c) = 6 + c.len
    BY <1>3, CallTypes DEF Count
  <2>3. Len([n \in 1..c.len |-> mem[(n - 1) % MemSize]]) = c.len
    BY <2>2
  <2>4. QED
    BY <1>3, <2>1, <2>2, <2>3
<1>4. QED
  BY <1>1, <1>2, <1>3, CallKinds, Zenon

\* The bytes of a call that succeeded are the answer.
LEMMA GotAll ==
  ASSUME EightBits, call \in Calls, index = Count(call), Got, result \in Seq(Device!Byte),
         Len(result) = IF index > 6 THEN index - 6 ELSE 0
  PROVE  result = Promise!Answer(call)
<1>1. result = [n \in 1..Len(result) |-> result[n]]
  OBVIOUS
<1>2. CASE call.fn = "I2C_Write"
  <2>1. Len(result) = 0
    BY <1>2 DEF Count
  <2>2. QED
    BY <1>2, <2>1, Answers
<1>3. CASE call.fn = "I2C_Read"
  <2>1. index = 7 /\ Len(result) = 1
    BY <1>3 DEF Count
  <2>2. result[1] = CellOf(0)
    BY <2>1 DEF Got
  <2>3. CellAddr(call) + 0 = call.addr
    BY <1>3, CallTypes DEF CellAddr
  <2>4. result[1] = mem[call.addr % MemSize]
    BY <2>2, <2>3 DEF CellOf
  <2>5. result = <<result[1]>>
    BY <2>1
  <2>6. QED
    BY <1>3, <2>4, <2>5, Answers
<1>4. CASE call.fn = "I2C_MultipleRead"
  <2>1. call.len \in Nat \ {0} /\ index = 6 + call.len
    BY <1>4, CallTypes DEF Count
  <2>2. index - 6 = call.len /\ Len(result) = call.len
    BY <2>1
  <2>3. ASSUME NEW n \in 1..call.len PROVE result[n] = mem[(n - 1) % MemSize]
    <3>1. result[n] = CellOf(n - 1)
      BY <2>2 DEF Got
    <3>2. CellAddr(call) + (n - 1) = n - 1
      BY <1>4, <2>1 DEF CellAddr
    <3>3. QED
      BY <3>1, <3>2 DEF CellOf
  <2>4. result = [n \in 1..call.len |-> mem[(n - 1) % MemSize]]
    BY <1>1, <2>2, <2>3
  <2>5. QED
    BY <1>4, <2>4, Answers
<1>5. QED
  BY <1>2, <1>3, <1>4, CallKinds

\* One byte is stored, where the address counter points.
LEMMA OneStored ==
  ASSUME Device!StopSeen, mode = "data", count = 1, NEW v, pending = <<v>>,
         NEW a \in Nat, pointer = a % MemSize, NEW S, mem \in [0..(MemSize - 1) -> S]
  PROVE  mem' = [mem EXCEPT ![a % MemSize] = v]
<1>1. MemSize \in Nat /\ MemSize > 0
  BY ConstantsAssumption
<1>2. pointer \in 0..(MemSize - 1)
  BY <1>1, WrapsRound
<1>3. ASSUME NEW x \in 0..(MemSize - 1)
      PROVE  ((x + MemSize - pointer) % MemSize < 1) = (x = pointer)
  <2>1. PICK m \in Nat : m = MemSize /\ m > 0
    BY <1>1
  <2>2. PICK p \in 0..(m - 1) : p = pointer
    BY <1>2, <2>1
  <2>3. PICK y \in 0..(m - 1) : y = x
    BY <2>1
  <2>4. CASE y >= p
    <3>1. y - p \in 0..(m - 1) /\ y + m - p = (y - p) + m
      BY <2>1, <2>4
    <3>2. (y + m - p) % m = y - p
      BY <2>1, <3>1, WrapsRound
    <3>3. QED
      BY <2>1, <2>2, <2>3, <3>2
  <2>5. CASE y < p
    <3>1. y + m - p \in 1..(m - 1)
      BY <2>1, <2>5
    <3>2. (y + m - p) % m = y + m - p
      BY <2>1, <3>1, WrapsRound
    <3>3. QED
      BY <2>1, <2>2, <2>3, <3>1, <3>2
  <2>6. QED
    BY <2>4, <2>5
<1>4. mem' = [x \in 0..(MemSize - 1) |->
                IF (x + MemSize - pointer) % MemSize < Len(pending)
                THEN pending[((x + MemSize - pointer) % MemSize) + 1] ELSE mem[x]]
  BY DEF Device!StopSeen
<1>5. Len(pending) = 1 /\ pending[1] = v
  OBVIOUS
<1>6. ASSUME NEW x \in 0..(MemSize - 1), x = pointer PROVE mem'[x] = v
  <2>1. (x + MemSize - pointer) % MemSize < 1
    BY <1>3, <1>6
  <2>2. (x + MemSize - pointer) % MemSize = 0
    <3>1. PICK d \in Nat : d = x + MemSize - pointer
      BY <1>1, <1>6
    <3>2. d % MemSize \in Nat
      BY <1>1, WrapsRound
    <3>3. QED
      BY <2>1, <3>1, <3>2
  <2>3. QED
    BY <1>4, <1>5, <2>1, <2>2
<1>7. ASSUME NEW x \in 0..(MemSize - 1), x # pointer PROVE mem'[x] = mem[x]
  <2>1. ~((x + MemSize - pointer) % MemSize < 1)
    BY <1>3, <1>7
  <2>2. QED
    BY <1>4, <1>5, <2>1
<1>8. DOMAIN mem' = 0..(MemSize - 1) /\ mem' = [x \in 0..(MemSize - 1) |-> mem'[x]]
  BY <1>4
<1>9. QED
  BY <1>2, <1>6, <1>7, <1>8

LEMMA ReturnRefines ==
  ASSUME EightBits, DataInv, Step, Current.fn = "i2c_stop", line = 4
  PROVE  Promise!Succeed \/ Promise!Fail \/ Promise!ReturnAnything
<1>1. /\ PortInv /\ DeviceInv /\ DriverTypes /\ Listening /\ Lengths /\ Where
      /\ ok \in BOOLEAN
  BY DEF DataInv, SyncInv, HearInv, TypeInv, PortInv, Flow, Where
<1>2. /\ ~Returned /\ Returned' /\ call' = call /\ resets' = resets
      /\ SetSda(dir, TRUE) /\ scl /\ dir /\ ~out
      /\ ok' = ok /\ result' = result /\ index = Count(call)
  BY <1>1, Returns, Zenon
<1>3. call \in Calls /\ index \in Nat
  BY <1>1, <1>2, Running
<1>4. Len(result) = IF ok /\ index > 6 THEN index - 6 ELSE 0
  BY <1>1, <1>2 DEF Lengths
<1>5. IF hold THEN UNCHANGED deviceVars ELSE Device!StopSeen
  <2>1. (hold => ~Sda) /\ (~hold => ~Sda /\ (dir => TRUE))
    BY <1>2 DEF Sda
  <2>2. scl /\ ~Sda /\ (~hold /\ (dir => TRUE)) => Device!StopSeen
    BY <1>2 DEF SetSda
  <2>3. hold => UNCHANGED deviceVars
    BY <1>2, <2>1 DEF SetSda
  <2>4. QED
    BY <1>2, <2>1, <2>2, <2>3
<1>6. ~(mode = "data" /\ count = 1) => mem' = mem
  BY <1>5 DEF Device!StopSeen, deviceVars
<1>7. /\ (~Returned)' = FALSE /\ (IF Returned THEN result ELSE <<>>)' = result
      /\ (Returned /\ ok)' = ok
  BY <1>1, <1>2
<1>8. CASE resets > 0
  <2>1. mem' \in [DOMAIN mem -> Device!Byte]
    <3>1. Next
      BY DEF Next
    <3>2. DeviceInv'
      BY <3>1, TypeInvKept DEF DataInv, SyncInv, HearInv, TypeInv
    <3>3. QED
      BY <1>1, <3>2 DEF DeviceInv
  <2>2. call.fn # "I2C_Write" => mem' = mem
    <3>1. mode = "data" => StopHeard
      BY <1>1, <1>2 DEF Listening, Device!Receiving
    <3>2. QED
      BY <1>6, <3>1 DEF StopHeard
  <2>3. Len(result) = IF ok THEN Len(Promise!Answer(call)) ELSE 0
    BY <1>1, <1>2, <1>3, <1>4, Answers
  <2>4. QED
    BY <1>1, <1>2, <1>7, <1>8, <2>1, <2>2, <2>3 DEF Promise!ReturnAnything
<1>9. CASE resets = 0
  <2>1. Sync /\ Data
    BY <1>9 DEF DataInv, SyncInv
  <2>2. StopSync
    BY <1>2, <2>1 DEF Sync
  <2>3. CASE ~ok
    <3>1. mem' = mem
      BY <1>6, <2>2, <2>3 DEF StopSync
    <3>2. result = <<>>
      BY <1>1, <1>4, <2>3 DEF DriverTypes
    <3>3. QED
      BY <1>2, <1>7, <1>9, <2>3, <3>1, <3>2 DEF Promise!Fail
  <2>4. CASE ok
    <3>1. StopData /\ Got
      BY <1>2, <2>1, <2>4 DEF Data
    <3>2. result = Promise!Answer(call)
      BY <1>1, <1>2, <1>3, <1>4, <2>4, <3>1, GotAll DEF DriverTypes
    <3>3. CASE call.fn = "I2C_Write"
      <4>1. mode = "data" /\ count = 1
        BY <2>2, <2>4, <3>3 DEF StopSync
      <4>2. ~hold
        BY <1>1, <1>2, <4>1 DEF Listening, Device!Receiving, StopHeard
      <4>3. Device!StopSeen
        BY <1>5, <4>2
      <4>4. /\ pending = <<call.value>> /\ call.addr \in Nat
            /\ pointer = call.addr % MemSize
        <5>1. CellAddr(call) = call.addr /\ CellAddr(call) \in Nat
          BY <1>3, <3>3, CallTypes DEF CellAddr
        <5>2. CellAddr(call) + 0 = call.addr
          BY <5>1
        <5>3. QED
          BY <2>4, <3>1, <3>3, <5>1, <5>2 DEF StopData, PointerAt
      <4>5. mem' = [mem EXCEPT ![call.addr % MemSize] = call.value]
        BY <1>1, <4>1, <4>3, <4>4, OneStored DEF DeviceInv
      <4>6. QED
        BY <1>2, <1>7, <1>9, <2>4, <3>2, <3>3, <4>5 DEF Promise!Succeed, Promise!Cell
    <3>4. CASE call.fn # "I2C_Write"
      <4>1. mem' = mem
        BY <1>6, <2>2, <2>4, <3>4 DEF StopSync
      <4>2. QED
        BY <1>2, <1>7, <1>9, <2>4, <3>2, <3>4, <4>1 DEF Promise!Succeed
    <3>5. QED
      BY <3>3, <3>4
  <2>5. QED
    BY <2>3, <2>4
<1>10. QED
  BY <1>1, <1>8, <1>9, ConstantsAssumption DEF DriverTypes

LEMMA StepRefines ==
  ASSUME EightBits, DataInv, [Next]_vars
  PROVE  [Promise!Next]_(Promise!vars)
<1>1. PortInv /\ Where /\ DriverTypes
  BY DEF DataInv, SyncInv, HearInv, TypeInv, PortInv, Flow
<1>2. CASE Step
  <2>1. CASE Current.fn = "i2c_stop" /\ line = 4
    BY <1>2, <2>1, ReturnRefines DEF Promise!Next
  <2>2. CASE ~(Current.fn = "i2c_stop" /\ line = 4)
    <3>1. ~Returned /\ ~Returned' /\ call' = call /\ resets' = resets
      BY <1>1, <1>2, <2>2, Returns, Zenon
    <3>2. mem' = mem
      BY <1>1, <1>2, <2>2, MemStays
    <3>3. UNCHANGED Promise!vars
      BY <3>1, <3>2 DEF Promise!vars
    <3>4. QED
      BY <3>3
  <2>3. QED
    BY <2>1, <2>2
<1>3. CASE Call
  <2>1. ~Returned' /\ call' \in Calls
    BY <1>3, FirstPlace
  <2>2. Returned /\ mem' = mem /\ resets' = resets
    BY <1>3 DEF Call, deviceVars
  <2>3. Promise!Begin
    BY <2>1, <2>2 DEF Promise!Begin
  <2>4. QED
    BY <2>3 DEF Promise!Next
<1>4. CASE Reset
  <2>1. /\ call' = NoCall /\ result' = <<>> /\ ok' = FALSE /\ index' = 1
        /\ resets' = resets + 1
    BY <1>4 DEF Reset
  <2>2. Returned'
    BY <2>1, NoPlace
  <2>3. mem' = mem
    BY <1>4 DEF Reset, deviceVars, Device!deviceVars, Device!ClockFalls, Device!Acknowledge,
                Device!LeaveUnacknowledged, Device!TakeByte, Device!SendBit, Device!SendNext
  <2>4. (resets > 0)' = TRUE
    BY <1>1, <2>1, ConstantsAssumption DEF DriverTypes
  <2>5. Promise!Reset
    BY <2>1, <2>2, <2>3, <2>4 DEF Promise!Reset
  <2>6. QED
    BY <2>5 DEF Promise!Next
<1>5. CASE UNCHANGED vars
  <2>1. UNCHANGED Promise!vars
    BY <1>5 DEF vars, driverVars, deviceVars, Returned, Promise!vars
  <2>2. QED
    BY <2>1
<1>6. QED
  BY <1>2, <1>3, <1>4, <1>5 DEF Next

LEMMA DataIsRight ==
  ASSUME EightBits
  PROVE  Spec => []DataInv
BY DataInvBegins, DataInvKept, PTL DEF Spec

\* Port access by port access, the driver and the EEPROM implement the access
\* that EepromAccess promises: nothing changes the EEPROM before a call
\* returns, a call that fails has changed nothing, and one that succeeds has
\* stored its byte where it was asked to or returned the bytes that are there.
\* After a reset of the board no call but I2C_Write changes it.  (That every
\* call returns is liveness, and is model-checked.)
THEOREM DriverKeepsPromise ==
  ASSUME EightBits PROVE Spec => Promise!SafeSpec
<1>1. Init => Promise!Init
  <2> SUFFICES ASSUME Init PROVE Promise!Init
    OBVIOUS
  <2>1. call = NoCall /\ index = 1 /\ ok = FALSE /\ result = <<>> /\ resets = 0
    BY DEF Init
  <2>2. Returned
    BY <2>1 DEF Returned, Body, NoCall
  <2>3. mem \in [0..(MemSize - 1) -> Values]
    BY DEF Init
  <2>4. QED
    BY <2>1, <2>2, <2>3 DEF Promise!Init, NoCall
<1>2. DataInv /\ [Next]_vars => [Promise!Next]_(Promise!vars)
  BY StepRefines
<1>3. QED
  BY <1>1, <1>2, DataIsRight, PTL DEF Spec, Promise!SafeSpec
====
