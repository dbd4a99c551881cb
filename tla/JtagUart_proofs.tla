-------------------------- MODULE JtagUart_proofs --------------------------
(***************************************************************************)
(* Proofs about the console driver: for every length of its buffers and of *)
(* the core's FIFOs, and whatever the program calls, neither interrupt is  *)
(* off while something waits that only it would move, and the console is   *)
(* the two queues of ByteStream.                                           *)
(***************************************************************************)
EXTENDS JtagUart, TLAPS, SequenceTheorems

Reading == {"read", "copyread", "advanceread", "waitread", "waitedread", "enable"}
Filling == {"write", "copy", "advance", "kick"}

PcOK ==
  /\ pc \in {"none", "wait", "waited", "return", "close"} \cup Reading \cup Filling
  /\ pc = "none" => call = NoCall
  /\ pc \in Reading => call.fn = "read"

\* No more is moved than was asked for, and a read moves at least a byte.
ChunkOK ==
  /\ chunk <= call.len - moved
  /\ pc \in {"copyread", "advanceread"} => chunk >= 1

\* The host's pause interrupts only while there is a byte, and so does a FIFO
\* that is nearly full: an interrupt reads one before it finds none.
PauseOK == pause => rxFifo # <<>>
ReadOK == (isr = "read" /\ rxFifo = <<>>) => rxIn # rxOut

\* Receive interrupts are off, and the program has yet to enable them.
AwakeOK ==
  "RE" \notin enabled =>
    rxIn # rxOut \/ (pc \in {"read", "copyread", "advanceread", "enable"} /\ moved > 0)

Inv == TypeOK /\ PcOK /\ ChunkOK /\ PauseOK /\ ReadOK /\ AwakeOK /\ TransmitterAwake
-----------------------------------------------------------------------------
(* Arithmetic, and what the constants are. *)

LEMMA Mod ==
  ASSUME NEW n \in Int, NEW m \in Nat \ {0}
  PROVE  n % m \in 0..(m - 1)
BY Z3

LEMMA PlusType ==
  ASSUME NEW i \in Int, NEW n \in Int
  PROVE  Plus(i, n) \in Index
BY Mod, ConstantsAssumption DEF Plus, Index

LEMMA LabelType == \A n \in Int : n % Labels \in Label
BY Mod, ConstantsAssumption DEF Label

LEMMA Constants ==
  /\ BufLen \in Nat /\ BufLen >= 2 /\ Depth \in Nat /\ Depth >= 1
  /\ Near \in Nat /\ Near < Depth /\ IntMax \in Nat /\ IntMax >= 3
  /\ Timeout \in 2..(IntMax - 1) /\ 0 \in Index /\ 0 \in Label
BY ConstantsAssumption DEF Index, Label

\* A full buffer is not an empty one.
LEMMA FullNotEmpty ==
  ASSUME rxIn \in Index, RxFull
  PROVE  rxIn # rxOut
<1>1. rxIn \in Nat /\ rxIn < BufLen /\ BufLen \in Nat /\ BufLen >= 2
  BY Constants DEF Index
<1>2. (rxIn + 1) % BufLen # rxIn
  BY <1>1, Z3
<1>3. QED
  BY <1>2 DEF RxFull, Plus
LEMMA AppendType ==
  ASSUME NEW s \in Seq(Label), NEW b \in Label
  PROVE  Append(s, b) \in Seq(Label) /\ Len(Append(s, b)) = Len(s) + 1
         /\ Len(s) \in Nat /\ Append(s, b) # <<>>
OBVIOUS

LEMMA TailType ==
  ASSUME NEW s \in Seq(Label), s # <<>>
  PROVE  Tail(s) \in Seq(Label) /\ Len(Tail(s)) = Len(s) - 1
         /\ Len(s) \in Nat /\ Head(s) \in Label
OBVIOUS
-----------------------------------------------------------------------------
(* The invariant: the host and the core. *)

LEMMA InitInv == Init => Inv
<1> SUFFICES ASSUME Init PROVE Inv
  OBVIOUS
<1>1. TypeOK
  <2>1. <<>> \in Seq(Label) /\ Len(<<>>) = 0
    OBVIOUS
  <2>2. QED
    BY <2>1, Constants DEF Init, TypeOK, NoView
<1>2. PcOK /\ ChunkOK
  BY DEF Init, PcOK, ChunkOK, NoCall, Reading, Filling
<1>3. PauseOK /\ ReadOK /\ AwakeOK /\ TransmitterAwake
  BY DEF Init, PauseOK, ReadOK, AwakeOK, TransmitterAwake
<1>4. QED
  BY <1>1, <1>2, <1>3 DEF Inv

LEMMA HostTakesInv == Inv /\ HostTakes => Inv'
<1> SUFFICES ASSUME Inv, HostTakes PROVE Inv'
  OBVIOUS
<1>1. TypeOK'
  <2>1. txFifo' \in Seq(Label) /\ Len(txFifo') <= Depth
    BY TailType, Constants DEF Inv, TypeOK, HostTakes
  <2>2. QED
    BY <2>1 DEF Inv, TypeOK, HostTakes, txVars, rxVars, host, isrVars, fgVars
<1>2. (PcOK /\ ChunkOK /\ PauseOK /\ ReadOK /\ AwakeOK /\ TransmitterAwake)'
  BY DEF Inv, PcOK, ChunkOK, PauseOK, ReadOK, AwakeOK, TransmitterAwake,
         HostTakes, txVars, rxVars, host, isrVars, fgVars
<1>3. QED
  BY <1>1, <1>2 DEF Inv

LEMMA HostSendsInv == Inv /\ HostSends => Inv'
<1> SUFFICES ASSUME Inv, HostSends PROVE Inv'
  OBVIOUS
<1>1. rxFifo' \in Seq(Label) /\ Len(rxFifo') <= Depth /\ rxFifo' # <<>>
  BY AppendType, Constants DEF Inv, TypeOK, HostSends
<1>2. sent' \in Label
  BY LabelType DEF Inv, TypeOK, HostSends, Label
<1>3. TypeOK'
  BY <1>1, <1>2
  DEF Inv, TypeOK, HostSends, txVars, rxVars, host, isrVars, fgVars
<1>4. (PcOK /\ ChunkOK /\ PauseOK /\ ReadOK /\ AwakeOK /\ TransmitterAwake)'
  BY <1>1 DEF Inv, PcOK, ChunkOK, PauseOK, ReadOK, AwakeOK, TransmitterAwake,
         HostSends, txVars, rxVars, host, isrVars, fgVars
<1>5. QED
  BY <1>3, <1>4 DEF Inv

LEMMA HostPausesInv == Inv /\ HostPauses => Inv'
<1> SUFFICES ASSUME Inv, HostPauses PROVE Inv'
  OBVIOUS
<1>1. TypeOK'
  BY DEF Inv, TypeOK, HostPauses, txVars, rxVars, host, isrVars, fgVars
<1>2. (PcOK /\ ChunkOK /\ PauseOK /\ ReadOK /\ AwakeOK /\ TransmitterAwake)'
  BY DEF Inv, PcOK, ChunkOK, PauseOK, ReadOK, AwakeOK, TransmitterAwake,
         HostPauses, txVars, rxVars, host, isrVars, fgVars
<1>3. QED
  BY <1>1, <1>2 DEF Inv

LEMMA SecondInv == Inv /\ Second => Inv'
<1> SUFFICES ASSUME Inv, Second PROVE Inv'
  OBVIOUS
<1>1. inactive' \in 0..IntMax
  BY Constants DEF Inv, TypeOK, Second
<1>2. TypeOK'
  BY <1>1 DEF Inv, TypeOK, Second, txVars, rxVars, isrVars, fgVars
<1>3. (PcOK /\ ChunkOK /\ PauseOK /\ ReadOK /\ AwakeOK /\ TransmitterAwake)'
  BY DEF Inv, PcOK, ChunkOK, PauseOK, ReadOK, AwakeOK, TransmitterAwake,
         Second, txVars, rxVars, isrVars, fgVars
<1>4. QED
  BY <1>2, <1>3 DEF Inv
-----------------------------------------------------------------------------
(* The interrupt routine. *)

\* What keeps the routine from turning an interrupt off too early or too late
\* when it goes from one step to another.
LEMMA IsrControlInv == Inv /\ IsrControl => Inv'
<1> SUFFICES ASSUME Inv, IsrControl PROVE Inv'
  OBVIOUS
<1>1. isrView' \in [wi : BOOLEAN, space : 0..Depth, avail : BOOLEAN]
  <2>1. Depth - Len(txFifo) \in 0..Depth /\ 0 \in 0..Depth
    BY Constants DEF Inv, TypeOK
  <2>2. WriteIrq \in BOOLEAN /\ ReadIrq \in BOOLEAN
    BY DEF WriteIrq, ReadIrq, Inv, TypeOK
  <2>3. QED
    BY <2>1, <2>2 DEF IsrControl, NoView
<1>2. isr' \in {"none", "control", "read", "write"}
  BY DEF IsrControl
<1>3. TypeOK'
  BY <1>1, <1>2 DEF Inv, TypeOK, IsrControl, core, txVars, rxVars, host, fgVars
<1>4. ReadOK'
  <2>1. ReadIrq => rxFifo # <<>>
    BY Constants DEF ReadIrq, Inv, TypeOK, PauseOK
  <2>2. QED
    BY <2>1 DEF IsrControl, core, ReadOK
<1>5. (PcOK /\ ChunkOK /\ PauseOK /\ AwakeOK /\ TransmitterAwake)'
  BY DEF Inv, PcOK, ChunkOK, PauseOK, AwakeOK, TransmitterAwake,
         IsrControl, core, txVars, rxVars, host, fgVars
<1>6. QED
  BY <1>3, <1>4, <1>5 DEF Inv

LEMMA ReadOverType ==
  ASSUME Inv, IsrReadOver
  PROVE  /\ enabled' \in SUBSET {"RE", "WE"} /\ isr' \in {"write", "control"}
         /\ "WE" \in enabled => "WE" \in enabled'
BY DEF Inv, TypeOK, IsrReadOver

LEMMA IsrStopsReadingInv == Inv /\ IsrStopsReading => Inv'
<1> SUFFICES ASSUME Inv, IsrStopsReading PROVE Inv'
  OBVIOUS
<1>1. TypeOK'
  BY ReadOverType
  DEF Inv, TypeOK, IsrStopsReading, core, txVars, rxVars, host, fgVars
<1>2. rxIn # rxOut
  BY FullNotEmpty DEF Inv, TypeOK, IsrStopsReading
<1>3. (PcOK /\ ChunkOK /\ PauseOK /\ ReadOK /\ AwakeOK /\ TransmitterAwake)'
  BY <1>2, ReadOverType
  DEF Inv, PcOK, ChunkOK, PauseOK, ReadOK, AwakeOK, TransmitterAwake,
      IsrStopsReading, core, txVars, rxVars, host, fgVars
<1>4. QED
  BY <1>1, <1>3 DEF Inv

LEMMA IsrReadsNothingInv == Inv /\ IsrReadsNothing => Inv'
<1> SUFFICES ASSUME Inv, IsrReadsNothing PROVE Inv'
  OBVIOUS
<1>1. isrView' \in [wi : BOOLEAN, space : 0..Depth, avail : BOOLEAN]
      /\ isrView'.avail = FALSE
  BY DEF Inv, TypeOK, IsrReadsNothing
<1>2. enabled' = enabled /\ isr' \in {"write", "control"}
  BY <1>1 DEF IsrReadsNothing, IsrReadOver
<1>3. TypeOK'
  BY <1>1, <1>2 DEF Inv, TypeOK, IsrReadsNothing, txVars, rxVars, host, fgVars
<1>4. (PcOK /\ ChunkOK /\ PauseOK /\ ReadOK /\ AwakeOK /\ TransmitterAwake)'
  BY <1>2 DEF Inv, PcOK, ChunkOK, PauseOK, ReadOK, AwakeOK, TransmitterAwake,
         IsrReadsNothing, txVars, rxVars, host, fgVars
<1>5. QED
  BY <1>3, <1>4 DEF Inv

\* The byte that is missed turns the interrupt off, but one was read before it.
LEMMA IsrMissesByteInv == Inv /\ IsrMissesByte => Inv'
<1> SUFFICES ASSUME Inv, IsrMissesByte PROVE Inv'
  OBVIOUS
<1>1. rxFifo' \in Seq(Label) /\ Len(rxFifo') = 1 /\ rxFifo' # <<>>
  BY DEF Inv, TypeOK, IsrMissesByte
<1>2. sent' \in Label
  <2>1. sent \in Int /\ sent' = (sent + 1) % Labels
    BY DEF Inv, TypeOK, IsrMissesByte, Label
  <2>2. QED
    BY <2>1, LabelType
<1>3. isrView' \in [wi : BOOLEAN, space : 0..Depth, avail : BOOLEAN]
  BY DEF Inv, TypeOK, IsrMissesByte
<1>4. TypeOK'
  BY <1>1, <1>2, <1>3, ReadOverType, Constants
  DEF Inv, TypeOK, IsrMissesByte, txVars, rxVars, host, fgVars
<1>5. rxIn # rxOut
  BY DEF Inv, ReadOK, IsrMissesByte
<1>6. (PcOK /\ ChunkOK /\ PauseOK /\ ReadOK /\ AwakeOK /\ TransmitterAwake)'
  BY <1>1, <1>5, ReadOverType
  DEF Inv, PcOK, ChunkOK, PauseOK, ReadOK, AwakeOK, TransmitterAwake,
      IsrMissesByte, txVars, rxVars, host, fgVars
<1>7. QED
  BY <1>4, <1>6 DEF Inv

LEMMA IsrReadsInv == Inv /\ IsrReads => Inv'
<1> SUFFICES ASSUME Inv, IsrReads PROVE Inv'
  OBVIOUS
<1>1. rxFifo' \in Seq(Label) /\ Len(rxFifo') <= Depth /\ Head(rxFifo) \in Label
  <2>1. rxFifo \in Seq(Label) /\ Len(rxFifo) <= Depth /\ rxFifo # <<>>
        /\ rxFifo' = Tail(rxFifo)
    BY DEF Inv, TypeOK, IsrReads, PopData
  <2>2. QED
    BY <2>1, TailType, Constants
<1>2. rxIn' \in Index /\ rxIn' # rxOut
  BY PlusType DEF Inv, TypeOK, IsrReads, RxFull, Index
<1>3. rxBuf' \in [Index -> Label]
  BY <1>1 DEF Inv, TypeOK, IsrReads
<1>4. isrView' \in [wi : BOOLEAN, space : 0..Depth, avail : BOOLEAN]
  BY DEF Inv, TypeOK, IsrReads
<1>5. TypeOK'
  BY <1>1, <1>2, <1>3, <1>4
  DEF Inv, TypeOK, IsrReads, PopData, txVars, host, fgVars
<1>6. (PcOK /\ ChunkOK /\ PauseOK /\ ReadOK /\ AwakeOK /\ TransmitterAwake)'
  BY <1>2 DEF Inv, PcOK, ChunkOK, PauseOK, ReadOK, AwakeOK, TransmitterAwake,
              IsrReads, PopData, txVars, host, fgVars
<1>7. QED
  BY <1>5, <1>6 DEF Inv

LEMMA IsrWritesInv == Inv /\ IsrWrites => Inv'
<1> SUFFICES ASSUME Inv, IsrWrites PROVE Inv'
  OBVIOUS
<1>1. txFifo' \in Seq(Label) /\ Len(txFifo') <= Depth
  <2>1. txBuf[txOut] \in Label
    BY DEF Inv, TypeOK
  <2>2. /\ txFifo \in Seq(Label) /\ Len(txFifo) <= Depth
        /\ txFifo' = IF Len(txFifo) < Depth THEN Append(txFifo, txBuf[txOut]) ELSE txFifo
    BY DEF Inv, TypeOK, IsrWrites, PushData
  <2>3. CASE Len(txFifo) < Depth
    BY <2>1, <2>2, <2>3, AppendType, Constants
  <2>4. CASE ~(Len(txFifo) < Depth)
    BY <2>2, <2>4
  <2>5. QED
    BY <2>3, <2>4
<1>2. txOut' \in Index
  BY PlusType DEF Inv, TypeOK, IsrWrites, Index
<1>3. isrView' \in [wi : BOOLEAN, space : 0..Depth, avail : BOOLEAN]
  <2>1. isrView \in [wi : BOOLEAN, space : 0..Depth, avail : BOOLEAN]
        /\ isrView.space > 0 /\ isrView' = [isrView EXCEPT !.space = @ - 1]
    BY DEF Inv, TypeOK, IsrWrites
  <2>2. isrView.space - 1 \in 0..Depth
    BY <2>1, Constants
  <2>3. QED
    BY <2>1, <2>2
<1>4. TypeOK'
  BY <1>1, <1>2, <1>3 DEF Inv, TypeOK, IsrWrites, rxVars, host, fgVars
<1>5. (PcOK /\ ChunkOK /\ PauseOK /\ ReadOK /\ AwakeOK /\ TransmitterAwake)'
  BY DEF Inv, PcOK, ChunkOK, PauseOK, ReadOK, AwakeOK, TransmitterAwake,
         IsrWrites, rxVars, host, fgVars
<1>6. QED
  BY <1>4, <1>5 DEF Inv

LEMMA IsrWriteOverInv == Inv /\ IsrWriteOver => Inv'
<1> SUFFICES ASSUME Inv, IsrWriteOver PROVE Inv'
  OBVIOUS
<1>1. /\ enabled' \in SUBSET {"RE", "WE"} /\ ("RE" \in enabled' <=> "RE" \in enabled)
      /\ txOut # txIn => enabled' = enabled
  BY DEF Inv, TypeOK, IsrWriteOver, Emptied
<1>2. TypeOK'
  BY <1>1 DEF Inv, TypeOK, IsrWriteOver, core, txVars, rxVars, host, fgVars
<1>3. (PcOK /\ ChunkOK /\ PauseOK /\ ReadOK /\ AwakeOK /\ TransmitterAwake)'
  BY <1>1 DEF Inv, PcOK, ChunkOK, PauseOK, ReadOK, AwakeOK, TransmitterAwake,
              IsrWriteOver, core, txVars, rxVars, host, fgVars
<1>4. QED
  BY <1>2, <1>3 DEF Inv
-----------------------------------------------------------------------------
(* The program. *)

LEMMA CallType ==
  ASSUME Inv
  PROVE  /\ call.len \in Nat
         /\ Left \in Nat /\ chunk \in Nat /\ chunk <= Left
<1>1. call.len \in Nat
  BY DEF Inv, TypeOK, Call, NoCall
<1>2. QED
  BY <1>1 DEF Inv, TypeOK, ChunkOK, Left

LEMMA BeginInv == Inv /\ Begin => Inv'
<1> SUFFICES ASSUME Inv, Begin PROVE Inv'
  OBVIOUS
<1>1. call' \in Call
  BY ConstantsAssumption DEF Inv, TypeOK, Begin, Use
<1>2. call'.fn \in {"write", "read", "close"} /\ call'.len \in Nat
  BY <1>1 DEF Call
<1>3. moved = 0 /\ chunk = 0
  BY CallType DEF Inv, TypeOK, PcOK, ChunkOK, NoCall, Begin, At
<1>4. TypeOK'
  BY <1>1 DEF Inv, TypeOK, Begin, At, core, txVars, rxVars, host, isrVars
<1>5. PcOK' /\ ChunkOK'
  BY <1>2, <1>3 DEF PcOK, ChunkOK, Begin, At, Goto, Reading, Filling
<1>6. (PauseOK /\ ReadOK /\ AwakeOK /\ TransmitterAwake)'
  BY DEF Inv, PauseOK, ReadOK, AwakeOK, TransmitterAwake,
         Begin, At, Goto, core, txVars, rxVars, host, isrVars
<1>7. QED
  BY <1>4, <1>5, <1>6 DEF Inv

LEMMA SetTimeoutInv == Inv /\ SetTimeout => Inv'
<1> SUFFICES ASSUME Inv, SetTimeout PROVE Inv'
  OBVIOUS
<1>1. timeout' \in 2..(IntMax - 1)
  <2>1. PICK arg \in use.timeouts :
          timeout' = IF arg >= 2 /\ arg < IntMax THEN arg ELSE IntMax - 1
    BY DEF SetTimeout
  <2>2. arg \in Int
    BY <2>1, ConstantsAssumption DEF Inv, TypeOK, Use
  <2>3. QED
    BY <2>1, <2>2, Constants
<1>2. TypeOK'
  BY <1>1 DEF Inv, TypeOK, SetTimeout, core, txVars, rxVars, isrVars, fgVars
<1>3. (PcOK /\ ChunkOK /\ PauseOK /\ ReadOK /\ AwakeOK /\ TransmitterAwake)'
  BY DEF Inv, PcOK, ChunkOK, PauseOK, ReadOK, AwakeOK, TransmitterAwake,
         SetTimeout, core, txVars, rxVars, isrVars, fgVars
<1>4. QED
  BY <1>2, <1>3 DEF Inv

LEMMA RoomType ==
  ASSUME Inv
  PROVE  Room(txOut) \in Nat /\ Ready(rxIn) \in Nat
BY Constants DEF Inv, TypeOK, Index, Room, Ready

LEMMA WriteLooksInv == Inv /\ WriteLooks => Inv'
<1> SUFFICES ASSUME Inv, WriteLooks PROVE Inv'
  OBVIOUS
<1>1. /\ pc = "write" /\ pc' \in {"copy", "kick"} /\ chunk' \in Nat /\ chunk' <= Left
  BY CallType, RoomType DEF WriteLooks, At, Goto, Min2
<1>2. TypeOK'
  BY <1>1 DEF Inv, TypeOK, WriteLooks, At, core, txVars, rxVars, host, isrVars
<1>3. PcOK' /\ ChunkOK'
  BY <1>1, CallType
  DEF PcOK, ChunkOK, WriteLooks, Reading, Filling, Left
<1>4. (PauseOK /\ ReadOK /\ AwakeOK /\ TransmitterAwake)'
  BY <1>1 DEF Inv, PauseOK, ReadOK, AwakeOK, TransmitterAwake,
              WriteLooks, At, core, txVars, rxVars, isrVars
<1>5. QED
  BY <1>2, <1>3, <1>4 DEF Inv

LEMMA WriteCopiesInv == Inv /\ WriteCopies => Inv'
<1> SUFFICES ASSUME Inv, WriteCopies PROVE Inv'
  OBVIOUS
<1>1. pc = "copy" /\ pc' = "advance"
  BY DEF WriteCopies, At, Goto
<1>2. txBuf' \in [Index -> Label]
  <2>1. ASSUME NEW i \in Index PROVE (written + (i - txIn)) % Labels \in Label
    <3>1. written + (i - txIn) \in Int
      BY DEF Inv, TypeOK, Index, Label
    <3>2. QED
      BY <3>1, LabelType
  <2>2. QED
    BY <2>1 DEF Inv, TypeOK, WriteCopies
<1>3. TypeOK'
  BY <1>2 DEF Inv, TypeOK, WriteCopies, At, core, rxVars, host, isrVars
<1>4. PcOK' /\ ChunkOK'
  BY <1>1 DEF Inv, PcOK, ChunkOK, WriteCopies, Reading, Filling
<1>5. (PauseOK /\ ReadOK /\ AwakeOK /\ TransmitterAwake)'
  BY <1>1 DEF Inv, PauseOK, ReadOK, AwakeOK, TransmitterAwake,
              WriteCopies, At, core, rxVars, isrVars
<1>6. QED
  BY <1>3, <1>4, <1>5 DEF Inv

LEMMA WriteAdvancesInv == Inv /\ WriteAdvances => Inv'
<1> SUFFICES ASSUME Inv, WriteAdvances PROVE Inv'
  OBVIOUS
<1>1. pc = "advance" /\ pc' = "write" /\ chunk' = 0 /\ moved' = moved + chunk
  BY DEF WriteAdvances, At, Goto
<1>2. txIn' \in Index /\ written' \in Label /\ snap' \in Index
  <2>1. txIn \in Int /\ chunk \in Int /\ written + chunk \in Int
    BY DEF Inv, TypeOK, Index, Label
  <2>2. QED
    BY <2>1, PlusType, LabelType, Constants DEF WriteAdvances
<1>3. TypeOK'
  <2>1. moved' \in Nat /\ chunk' \in Nat
    BY <1>1 DEF Inv, TypeOK
  <2>2. QED
    BY <1>2, <2>1 DEF Inv, TypeOK, WriteAdvances, At, core, rxVars, host, isrVars
<1>4. PcOK' /\ ChunkOK'
  BY <1>1, CallType
  DEF Inv, TypeOK, PcOK, ChunkOK, WriteAdvances, Reading, Filling, Left
<1>5. (PauseOK /\ ReadOK /\ AwakeOK /\ TransmitterAwake)'
  BY <1>1 DEF Inv, PauseOK, ReadOK, AwakeOK, TransmitterAwake,
              WriteAdvances, At, core, rxVars, isrVars
<1>6. QED
  BY <1>3, <1>4, <1>5 DEF Inv

LEMMA KickInv == Inv /\ Kick => Inv'
<1> SUFFICES ASSUME Inv, Kick PROVE Inv'
  OBVIOUS
<1>1. pc = "kick" /\ pc' \in {"wait", "return"} /\ enabled' = enabled \cup {"WE"}
  BY DEF Kick, KickEnables, At, Goto
<1>2. TypeOK'
  BY <1>1 DEF Inv, TypeOK, Kick, At, core, txVars, rxVars, host, isrVars
<1>3. PcOK' /\ ChunkOK'
  BY <1>1 DEF Inv, PcOK, ChunkOK, Kick, Reading, Filling
<1>4. (PauseOK /\ ReadOK /\ AwakeOK /\ TransmitterAwake)'
  BY <1>1 DEF Inv, PauseOK, ReadOK, AwakeOK, TransmitterAwake,
              Kick, At, core, txVars, rxVars, isrVars
<1>5. QED
  BY <1>2, <1>3, <1>4 DEF Inv

LEMMA WriteWaitsInv == Inv /\ (WriteWaits \/ WriteWaited) => Inv'
<1> SUFFICES ASSUME Inv, WriteWaits \/ WriteWaited PROVE Inv'
  OBVIOUS
<1>1. /\ pc \in {"wait", "waited"} /\ pc' \in {"waited", "return", "write"}
      /\ UNCHANGED <<core, enabled, txVars, rxVars, host, isrVars, call, snap,
                     chunk, moved, data, ret, written, sent>>
  BY DEF WriteWaits, WriteWaited, At, Goto
<1>2. TypeOK'
  BY <1>1 DEF Inv, TypeOK, core, txVars, rxVars, host, isrVars
<1>3. PcOK' /\ ChunkOK'
  BY <1>1 DEF Inv, PcOK, ChunkOK, Reading, Filling
<1>4. (PauseOK /\ ReadOK /\ AwakeOK /\ TransmitterAwake)'
  BY <1>1 DEF Inv, PauseOK, ReadOK, AwakeOK, TransmitterAwake,
              core, txVars, rxVars, isrVars
<1>5. QED
  BY <1>2, <1>3, <1>4 DEF Inv

LEMMA ReadLooksInv == Inv /\ ReadLooks => Inv'
<1> SUFFICES ASSUME Inv, ReadLooks PROVE Inv'
  OBVIOUS
<1>1. /\ pc = "read" /\ chunk' \in Nat /\ chunk' <= Left
      /\ pc' \in {"copyread", "enable", "return", "waitread"}
      /\ pc' = "copyread" => chunk' >= 1
      /\ moved > 0 => pc' \in {"copyread", "enable"}
  BY CallType, RoomType DEF ReadLooks, At, Goto, Min2, AfterRead
<1>2. TypeOK'
  BY <1>1 DEF Inv, TypeOK, ReadLooks, At, core, txVars, rxVars, host, isrVars
<1>3. PcOK' /\ ChunkOK'
  BY <1>1, CallType
  DEF Inv, PcOK, ChunkOK, ReadLooks, Reading, Filling, Left
<1>4. (PauseOK /\ ReadOK /\ AwakeOK /\ TransmitterAwake)'
  BY <1>1 DEF Inv, PauseOK, ReadOK, AwakeOK, TransmitterAwake,
              ReadLooks, At, core, txVars, rxVars, isrVars
<1>5. QED
  BY <1>2, <1>3, <1>4 DEF Inv

LEMMA ReadCopiesInv == Inv /\ ReadCopies => Inv'
<1> SUFFICES ASSUME Inv, ReadCopies PROVE Inv'
  OBVIOUS
<1>1. pc = "copyread" /\ pc' = "advanceread"
  BY DEF ReadCopies, At, Goto
<1>2. data' \in Seq(Label)
  <2> DEFINE got == [i \in 1..chunk |-> rxBuf[Plus(rxOut, i - 1)]]
  <2>1. ASSUME NEW i \in 1..chunk PROVE rxBuf[Plus(rxOut, i - 1)] \in Label
    <3>1. rxOut \in Int /\ i - 1 \in Int
      BY DEF Inv, TypeOK, Index
    <3>2. Plus(rxOut, i - 1) \in Index
      BY <3>1, PlusType
    <3>3. QED
      BY <3>2 DEF Inv, TypeOK
  <2>2. got \in Seq(Label)
    BY <2>1 DEF Inv, TypeOK
  <2>3. data \in Seq(Label) /\ data' = data \o got
    BY DEF Inv, TypeOK, ReadCopies
  <2> HIDE DEF got
  <2>4. QED
    BY <2>2, <2>3
<1>3. TypeOK'
  BY <1>2 DEF Inv, TypeOK, ReadCopies, At, core, txVars, rxVars, host, isrVars
<1>4. PcOK' /\ ChunkOK'
  BY <1>1 DEF Inv, PcOK, ChunkOK, ReadCopies, Reading, Filling
<1>5. (PauseOK /\ ReadOK /\ AwakeOK /\ TransmitterAwake)'
  BY <1>1 DEF Inv, PauseOK, ReadOK, AwakeOK, TransmitterAwake,
              ReadCopies, At, core, txVars, rxVars, isrVars
<1>6. QED
  BY <1>3, <1>4, <1>5 DEF Inv

\* The room that a read makes is what it will enable interrupts for.
LEMMA ReadAdvancesInv == Inv /\ ReadAdvances => Inv'
<1> SUFFICES ASSUME Inv, ReadAdvances PROVE Inv'
  OBVIOUS
<1>1. pc = "advanceread" /\ pc' = "read" /\ chunk' = 0 /\ moved' = moved + chunk
      /\ chunk >= 1 /\ chunk \in Nat /\ moved \in Nat /\ isr = "none" /\ isr' = isr
  BY DEF Inv, TypeOK, ChunkOK, ReadAdvances, At, Goto, isrVars
<1>2. rxOut' \in Index /\ snap' \in Index
  BY PlusType, Constants DEF Inv, TypeOK, ReadAdvances, Index
<1>3. TypeOK'
  BY <1>1, <1>2
  DEF Inv, TypeOK, ReadAdvances, At, core, txVars, host, isrVars
<1>4. PcOK' /\ ChunkOK'
  BY <1>1, CallType
  DEF Inv, TypeOK, PcOK, ChunkOK, ReadAdvances, Reading, Filling, Left
<1>5. (PauseOK /\ ReadOK /\ AwakeOK /\ TransmitterAwake)'
  BY <1>1 DEF Inv, PauseOK, ReadOK, AwakeOK, TransmitterAwake,
              ReadAdvances, At, core, txVars, isrVars
<1>6. QED
  BY <1>3, <1>4, <1>5 DEF Inv

LEMMA ReadWaitsInv == Inv /\ (ReadWaits \/ ReadWaited) => Inv'
<1> SUFFICES ASSUME Inv, ReadWaits \/ ReadWaited PROVE Inv'
  OBVIOUS
<1>1. /\ pc \in {"waitread", "waitedread"}
      /\ pc' \in {"waitedread", "return", "read"}
      /\ UNCHANGED <<core, enabled, txVars, rxVars, host, isrVars, call, snap,
                     chunk, moved, data, ret, written, sent>>
  BY DEF ReadWaits, ReadWaited, At, Goto
<1>2. TypeOK'
  BY <1>1 DEF Inv, TypeOK, core, txVars, rxVars, host, isrVars
<1>3. PcOK' /\ ChunkOK'
  BY <1>1 DEF Inv, PcOK, ChunkOK, Reading, Filling
<1>4. (PauseOK /\ ReadOK /\ AwakeOK /\ TransmitterAwake)'
  BY <1>1 DEF Inv, PauseOK, ReadOK, AwakeOK, TransmitterAwake,
              core, txVars, rxVars, isrVars
<1>5. QED
  BY <1>2, <1>3, <1>4 DEF Inv

LEMMA EnableReadInv == Inv /\ EnableRead => Inv'
<1> SUFFICES ASSUME Inv, EnableRead PROVE Inv'
  OBVIOUS
<1>1. pc = "enable" /\ pc' = "return" /\ enabled' = enabled \cup {"RE"}
  BY DEF EnableRead, At, Goto
<1>2. TypeOK'
  BY <1>1 DEF Inv, TypeOK, EnableRead, At, core, txVars, rxVars, host, isrVars
<1>3. PcOK' /\ ChunkOK'
  BY <1>1 DEF Inv, PcOK, ChunkOK, EnableRead, Reading, Filling
<1>4. (PauseOK /\ ReadOK /\ AwakeOK /\ TransmitterAwake)'
  BY <1>1 DEF Inv, PauseOK, ReadOK, AwakeOK, TransmitterAwake,
              EnableRead, At, core, txVars, rxVars, isrVars
<1>5. QED
  BY <1>2, <1>3, <1>4 DEF Inv

LEMMA FinishInv ==
  ASSUME Inv, NEW r \in Int, pc \in {"return", "close"}, At(pc), Finish(r)
  PROVE  Inv'
<1>1. TypeOK'
  <2>1. <<>> \in Seq(Label)
    OBVIOUS
  <2>2. QED
    BY <2>1, Constants
    DEF Inv, TypeOK, Finish, At, core, txVars, rxVars, host, isrVars
<1>2. PcOK' /\ ChunkOK'
  BY DEF PcOK, ChunkOK, Finish, Goto, NoCall, Reading, Filling
<1>3. (PauseOK /\ ReadOK /\ AwakeOK /\ TransmitterAwake)'
  BY DEF Inv, PauseOK, ReadOK, AwakeOK, TransmitterAwake,
         Finish, At, core, txVars, rxVars, isrVars
<1>4. QED
  BY <1>1, <1>2, <1>3 DEF Inv

LEMMA ReturnInv == Inv /\ (Return \/ Close) => Inv'
<1> SUFFICES ASSUME Inv, Return \/ Close PROVE Inv'
  OBVIOUS
<1>1. Result \in Int
  BY DEF Inv, TypeOK, Result, EIO, EWOULDBLOCK
<1>2. QED
  BY <1>1, FinishInv DEF Return, Close, At, EWOULDBLOCK

LEMMA NextInv == Inv /\ [Next]_vars => Inv'
<1> SUFFICES ASSUME Inv, [Next]_vars PROVE Inv'
  OBVIOUS
<1>1. CASE HostTakes \/ HostSends \/ HostPauses \/ Second
  BY <1>1, HostTakesInv, HostSendsInv, HostPausesInv, SecondInv
<1>2. CASE Isr
  BY <1>2, IsrControlInv, IsrStopsReadingInv, IsrReadsNothingInv,
     IsrMissesByteInv, IsrReadsInv, IsrWritesInv, IsrWriteOverInv DEF Isr
<1>3. CASE Begin \/ SetTimeout
  BY <1>3, BeginInv, SetTimeoutInv
<1>4. CASE Program
  BY <1>4, WriteLooksInv, WriteCopiesInv, WriteAdvancesInv, KickInv,
     WriteWaitsInv, ReadLooksInv, ReadCopiesInv, ReadAdvancesInv, ReadWaitsInv,
     EnableReadInv, ReturnInv DEF Program
<1>5. CASE UNCHANGED vars
  <2>1. TypeOK'
    BY <1>5 DEF Inv, TypeOK, vars, core, txVars, rxVars, host, isrVars, fgVars
  <2>2. (PcOK /\ ChunkOK /\ PauseOK /\ ReadOK /\ AwakeOK /\ TransmitterAwake)'
    BY <1>5 DEF Inv, PcOK, ChunkOK, PauseOK, ReadOK, AwakeOK, TransmitterAwake,
                vars, core, txVars, rxVars, host, isrVars, fgVars
  <2>3. QED
    BY <2>1, <2>2 DEF Inv
<1>6. QED
  BY <1>1, <1>2, <1>3, <1>4, <1>5 DEF Next
-----------------------------------------------------------------------------
(* The results. *)

LEMMA Invariant == Spec => []Inv
<1>1. QED
  BY InitInv, NextInv, PTL DEF Spec

\* The state of the driver is always of its types: no index leaves its buffer
\* (jtag_uart.h:90-118, init.c:139-182, write.c:100-127, read.c:115-142).
THEOREM TypeCorrect == Spec => []TypeOK
<1>1. Inv => TypeOK
  BY DEF Inv
<1>2. QED
  BY <1>1, Invariant, PTL

\* For every buffer length, no byte waits in the transmit buffer with its
\* interrupt off (init.c:169-194, write.c:128-139).
THEOREM NothingWaitsUnsent == Spec => []TransmitterAwake
<1>1. Inv => TransmitterAwake
  BY DEF Inv
<1>2. QED
  BY <1>1, Invariant, PTL

\* For every length of buffer and FIFO, receive interrupts are off only while
\* a read can still enable them (init.c:125-166, read.c:188-195).
THEOREM NothingWaitsUnread == Spec => []ReceiverAwake
<1>1. Inv => ReceiverAwake
  BY DEF Inv, PcOK, AwakeOK, ReceiverAwake, Reading
<1>2. QED
  BY <1>1, Invariant, PTL
-----------------------------------------------------------------------------
(* The two rings. *)

CallOK ==
  /\ pc \in Filling \cup {"wait", "waited"} => call.fn = "write"
  /\ pc = "close" => call.fn = "close"
  /\ pc = "return" => call.fn \in {"write", "read"}

\* The bytes a write puts in fit behind those of its ring, which the routine
\* can only make fewer meanwhile.
TxOK ==
  /\ pc \in {"copy", "advance"} =>
       /\ chunk >= 1 /\ txIn + chunk <= BufLen
       /\ Used(txIn, txOut) + chunk < BufLen
  /\ pc = "advance" =>
       \A i \in 1..chunk : txBuf[txIn + i - 1] = (written + i - 1) % Labels

\* The bytes a read takes are in its ring, and it has them.
RxOK ==
  /\ pc \in {"copyread", "advanceread"} =>
       chunk <= Used(rxIn, rxOut) /\ rxOut + chunk <= BufLen
  /\ pc = "advanceread" =>
       /\ Len(data) = moved + chunk
       /\ \A i \in 1..chunk : data[moved + i] = rxBuf[rxOut + i - 1]
  /\ pc \in Reading \ {"advanceread"} => Len(data) = moved
  /\ call.fn # "read" => data = <<>>

\* The routine counts no more room in the FIFO than there is.
SpaceOK == isrView.space <= Depth - Len(txFifo)

RingInv == CallOK /\ TxOK /\ RxOK /\ SpaceOK
-----------------------------------------------------------------------------
(* A ring buffer as a queue. *)

LEMMA Signed ==
  ASSUME NEW m \in Nat \ {0}, NEW n \in Int, 0 - m <= n, n < m
  PROVE  n % m = IF n >= 0 THEN n ELSE n + m
BY Z3

LEMMA Turn ==
  ASSUME NEW m \in Nat \ {0}, NEW t \in Nat, NEW k \in Nat, t < m, k <= m
  PROVE  (t + k) % m = IF t + k < m THEN t + k ELSE t + k - m
BY Z3

LEMMA IndexType == \A i \in Index : i \in Nat /\ i < BufLen
BY Constants DEF Index

LEMMA UsedIs ==
  ASSUME NEW in \in Index, NEW out \in Index
  PROVE  /\ Used(in, out) = IF in >= out THEN in - out ELSE in - out + BufLen
         /\ Used(in, out) \in Nat /\ Used(in, out) < BufLen
<1>1. /\ BufLen \in Nat \ {0} /\ in \in Nat /\ in < BufLen
      /\ out \in Nat /\ out < BufLen
  BY Constants, IndexType
<1>2. in - out \in Int /\ 0 - BufLen <= in - out /\ in - out < BufLen
  BY <1>1
<1>3. (in - out) % BufLen = IF in - out >= 0 THEN in - out ELSE in - out + BufLen
  BY <1>1, <1>2, Signed
<1>4. QED
  BY <1>1, <1>3 DEF Used

LEMMA PlusIs ==
  ASSUME NEW i \in Index, NEW k \in Nat, k <= BufLen
  PROVE  /\ Plus(i, k) = IF i + k < BufLen THEN i + k ELSE i + k - BufLen
         /\ Plus(i, k) \in Index
<1>1. BufLen \in Nat \ {0} /\ i \in Nat /\ i < BufLen
  BY Constants, IndexType
<1>2. (i + k) % BufLen = IF i + k < BufLen THEN i + k ELSE i + k - BufLen
  BY <1>1, Turn
<1>3. i + k \in Nat /\ i + k < BufLen + BufLen
  BY <1>1
<1>4. QED
  BY <1>1, <1>2, <1>3 DEF Plus, Index

LEMMA ContentsIs ==
  ASSUME NEW buf \in [Index -> Label], NEW out \in Index, NEW in \in Index
  PROVE  /\ Contents(buf, out, in) \in Seq(Label)
         /\ Len(Contents(buf, out, in)) = Used(in, out)
         /\ \A i \in 1..Used(in, out) :
              Contents(buf, out, in)[i] = buf[Plus(out, i - 1)]
<1>1. Used(in, out) \in Nat /\ Used(in, out) < BufLen
  BY UsedIs
<1>2. ASSUME NEW i \in 1..Used(in, out) PROVE buf[Plus(out, i - 1)] \in Label
  <2>1. i - 1 \in Nat /\ i - 1 <= BufLen
    BY <1>1, Constants
  <2>2. Plus(out, i - 1) \in Index
    BY <2>1, PlusIs
  <2>3. QED
    BY <2>2
<1>3. QED
  BY <1>1, <1>2 DEF Contents

\* Moving the out index takes the first bytes.
LEMMA Consume ==
  ASSUME NEW buf \in [Index -> Label], NEW out \in Index, NEW in \in Index,
         NEW n \in Nat, n <= Used(in, out)
  PROVE  Contents(buf, Plus(out, n), in)
           = SubSeq(Contents(buf, out, in), n + 1, Used(in, out))
<1> DEFINE C == Contents(buf, out, in)
           D == Contents(buf, Plus(out, n), in)
           E == SubSeq(C, n + 1, Used(in, out))
<1>1. Used(in, out) \in Nat /\ Used(in, out) < BufLen /\ BufLen \in Nat /\ n <= BufLen
  BY UsedIs, Constants
<1>2. Plus(out, n) \in Index
      /\ Plus(out, n) = IF out + n < BufLen THEN out + n ELSE out + n - BufLen
  BY <1>1, PlusIs
<1>3. Used(in, Plus(out, n)) = Used(in, out) - n
  <2>1. Used(in, Plus(out, n)) = IF in >= Plus(out, n) THEN in - Plus(out, n)
                                 ELSE in - Plus(out, n) + BufLen
    BY <1>2, UsedIs
  <2>2. Used(in, out) = IF in >= out THEN in - out ELSE in - out + BufLen
    BY UsedIs
  <2>3. QED
    BY <1>1, <1>2, <2>1, <2>2, IndexType
<1>4. C \in Seq(Label) /\ Len(C) = Used(in, out)
      /\ \A i \in 1..Used(in, out) : C[i] = buf[Plus(out, i - 1)]
  BY ContentsIs
<1>5. D \in Seq(Label) /\ Len(D) = Used(in, out) - n
      /\ \A i \in 1..(Used(in, out) - n) : D[i] = buf[Plus(Plus(out, n), i - 1)]
  <2>1. D \in Seq(Label) /\ Len(D) = Used(in, Plus(out, n))
        /\ \A i \in 1..Used(in, Plus(out, n)) : D[i] = buf[Plus(Plus(out, n), i - 1)]
    BY <1>2, ContentsIs
  <2>2. QED
    BY <1>3, <2>1
<1> HIDE DEF C, D
<1>6. E \in Seq(Label) /\ Len(E) = Used(in, out) - n
      /\ \A i \in 1..(Used(in, out) - n) : E[i] = C[n + i]
  BY <1>1, <1>4
<1>7. ASSUME NEW i \in 1..(Used(in, out) - n) PROVE D[i] = E[i]
  <2>1. i - 1 \in Nat /\ i - 1 <= BufLen /\ n + i \in 1..Used(in, out)
        /\ (n + i) - 1 \in Nat /\ (n + i) - 1 <= BufLen
    BY <1>1
  <2>2. Plus(out, (n + i) - 1)
          = IF out + ((n + i) - 1) < BufLen THEN out + ((n + i) - 1)
            ELSE out + ((n + i) - 1) - BufLen
    BY <2>1, PlusIs
  <2>3. Plus(Plus(out, n), i - 1)
          = IF Plus(out, n) + (i - 1) < BufLen THEN Plus(out, n) + (i - 1)
            ELSE Plus(out, n) + (i - 1) - BufLen
    BY <1>2, <2>1, PlusIs
  <2>4. Plus(Plus(out, n), i - 1) = Plus(out, (n + i) - 1)
    BY <1>1, <1>2, <2>1, <2>2, <2>3, IndexType
  <2>5. QED
    BY <1>4, <1>5, <1>6, <2>1, <2>4
<1> HIDE DEF E
<1>8. D = E
  BY <1>5, <1>6, <1>7, SeqEqual
<1>9. QED
  BY <1>8 DEF D, E, C

\* Moving the in index adds the bytes before it.
LEMMA Extend ==
  ASSUME NEW buf \in [Index -> Label], NEW out \in Index, NEW in \in Index,
         NEW s \in Seq(Label), Used(in, out) + Len(s) < BufLen,
         \A i \in 1..Len(s) : s[i] = buf[Plus(in, i - 1)]
  PROVE  /\ Contents(buf, out, Plus(in, Len(s))) = Contents(buf, out, in) \o s
         /\ Used(Plus(in, Len(s)), out) = Used(in, out) + Len(s)
<1> DEFINE n == Len(s)
           C == Contents(buf, out, in)
           D == Contents(buf, out, Plus(in, n))
           E == C \o s
<1>1. Used(in, out) \in Nat /\ Used(in, out) < BufLen /\ BufLen \in Nat
      /\ n \in Nat /\ n <= BufLen
  BY UsedIs, Constants
<1>2. Plus(in, n) \in Index
      /\ Plus(in, n) = IF in + n < BufLen THEN in + n ELSE in + n - BufLen
  BY <1>1, PlusIs
<1>3. Used(in, out) = IF in >= out THEN in - out ELSE in - out + BufLen
  BY UsedIs
<1>4. Used(Plus(in, n), out) = Used(in, out) + n
  <2>1. Used(Plus(in, n), out) = IF Plus(in, n) >= out THEN Plus(in, n) - out
                                 ELSE Plus(in, n) - out + BufLen
    BY <1>2, UsedIs
  <2>2. QED
    BY <1>1, <1>2, <1>3, <2>1, IndexType
<1>5. C \in Seq(Label) /\ Len(C) = Used(in, out)
      /\ \A i \in 1..Used(in, out) : C[i] = buf[Plus(out, i - 1)]
  BY ContentsIs
<1>6. D \in Seq(Label) /\ Len(D) = Used(in, out) + n
      /\ \A i \in 1..(Used(in, out) + n) : D[i] = buf[Plus(out, i - 1)]
  <2>1. D \in Seq(Label) /\ Len(D) = Used(Plus(in, n), out)
        /\ \A i \in 1..Used(Plus(in, n), out) : D[i] = buf[Plus(out, i - 1)]
    BY <1>2, ContentsIs
  <2>2. QED
    BY <1>4, <2>1
<1> HIDE DEF C, D
<1>7. E \in Seq(Label) /\ Len(E) = Used(in, out) + n
      /\ \A i \in 1..(Used(in, out) + n) :
           E[i] = IF i <= Used(in, out) THEN C[i] ELSE s[i - Used(in, out)]
  BY <1>1, <1>5, ConcatProperties
<1> HIDE DEF E
<1>8. ASSUME NEW i \in 1..(Used(in, out) + n) PROVE D[i] = E[i]
  <2>1. CASE i <= Used(in, out)
    <3>1. i \in 1..Used(in, out) /\ i \in 1..(Used(in, out) + n)
      BY <1>1, <2>1
    <3>2. D[i] = buf[Plus(out, i - 1)] /\ C[i] = buf[Plus(out, i - 1)] /\ E[i] = C[i]
      BY <1>5, <1>6, <1>7, <2>1, <3>1
    <3>3. QED
      BY <3>2
  <2>2. CASE i > Used(in, out)
    <3> DEFINE j == i - Used(in, out)
    <3>1. j \in 1..n /\ j - 1 \in Nat /\ j - 1 <= BufLen
          /\ i - 1 \in Nat /\ i - 1 <= BufLen /\ i = j + Used(in, out)
          /\ i \in Nat /\ j \in Nat
      BY <1>1, <2>2
    <3> HIDE DEF j
    <3>2. Plus(out, i - 1) = IF out + (i - 1) < BufLen THEN out + (i - 1)
                             ELSE out + (i - 1) - BufLen
      BY <3>1, PlusIs
    <3>3. Plus(in, j - 1) = IF in + (j - 1) < BufLen THEN in + (j - 1)
                            ELSE in + (j - 1) - BufLen
      BY <3>1, PlusIs
    <3>4. Plus(out, i - 1) = Plus(in, j - 1)
      <4>1. in \in Nat /\ in < BufLen /\ out \in Nat /\ out < BufLen
        BY IndexType
      <4>2. CASE in >= out
        BY <1>1, <1>3, <3>1, <3>2, <3>3, <4>1, <4>2
      <4>3. CASE in < out
        BY <1>1, <1>3, <3>1, <3>2, <3>3, <4>1, <4>3
      <4>4. QED
        BY <4>1, <4>2, <4>3
    <3>5. D[i] = buf[Plus(out, i - 1)] /\ E[i] = s[j] /\ s[j] = buf[Plus(in, j - 1)]
      BY <1>1, <1>6, <1>7, <2>2, <3>1 DEF j
    <3>6. QED
      BY <3>4, <3>5
  <2>3. QED
    BY <1>1, <2>1, <2>2
<1>9. D = E
  BY <1>6, <1>7, <1>8, SeqEqual
<1>10. QED
  BY <1>4, <1>9 DEF D, E, C

\* What is written outside the ring's bytes does not change them.
LEMMA Outside ==
  ASSUME NEW buf \in [Index -> Label], NEW new \in [Index -> Label],
         NEW out \in Index, NEW in \in Index, NEW n \in Nat,
         Used(in, out) + n < BufLen, in + n <= BufLen,
         \A i \in Index : i \notin in..(in + n - 1) => new[i] = buf[i]
  PROVE  Contents(new, out, in) = Contents(buf, out, in)
<1> DEFINE C == Contents(buf, out, in)
           D == Contents(new, out, in)
<1>1. Used(in, out) \in Nat /\ Used(in, out) < BufLen /\ BufLen \in Nat
      /\ Used(in, out) = IF in >= out THEN in - out ELSE in - out + BufLen
  BY UsedIs, Constants
<1>2. C \in Seq(Label) /\ Len(C) = Used(in, out)
      /\ \A i \in 1..Used(in, out) : C[i] = buf[Plus(out, i - 1)]
  BY ContentsIs
<1>3. D \in Seq(Label) /\ Len(D) = Used(in, out)
      /\ \A i \in 1..Used(in, out) : D[i] = new[Plus(out, i - 1)]
  BY ContentsIs
<1> HIDE DEF C, D
<1>4. ASSUME NEW i \in 1..Used(in, out) PROVE D[i] = C[i]
  <2>1. i - 1 \in Nat /\ i - 1 <= BufLen
    BY <1>1
  <2>2. Plus(out, i - 1) \in Index
        /\ Plus(out, i - 1) = IF out + (i - 1) < BufLen THEN out + (i - 1)
                              ELSE out + (i - 1) - BufLen
    BY <2>1, PlusIs
  <2>3. Plus(out, i - 1) \notin in..(in + n - 1)
    BY <1>1, <2>1, <2>2, IndexType
  <2>4. QED
    BY <1>2, <1>3, <2>2, <2>3
<1>5. D = C
  BY <1>2, <1>3, <1>4, SeqEqual
<1>6. QED
  BY <1>5 DEF C, D
-----------------------------------------------------------------------------
(* The mapping. *)

TxRing == Contents(txBuf, txOut, txIn)
RxRing == Contents(rxBuf, rxOut, rxIn)
Out == txFifo \o TxRing
In == RxRing \o rxFifo
Got == SubSeq(data, 1, IF call.fn = "read" THEN moved ELSE Len(data))

TxView == <<Out, written>>
RxView == <<In, sent>>
CallView == <<call, moved, Got, ret>>
Stutter == UNCHANGED <<TxView, RxView, CallView>>

LEMMA StutterIs == Stutter => UNCHANGED Stream!vars
BY DEF Stutter, TxView, RxView, CallView, Out, In, Got, TxRing, RxRing, Stream!vars

LEMMA Rings ==
  ASSUME Inv
  PROVE  /\ TxRing \in Seq(Label) /\ Len(TxRing) = Used(txIn, txOut)
         /\ RxRing \in Seq(Label) /\ Len(RxRing) = Used(rxIn, rxOut)
         /\ Used(txIn, txOut) \in Nat /\ Used(txIn, txOut) < BufLen
         /\ Used(rxIn, rxOut) \in Nat /\ Used(rxIn, rxOut) < BufLen
         /\ txFifo \in Seq(Label) /\ rxFifo \in Seq(Label)
         /\ Len(txFifo) \in Nat /\ Len(rxFifo) \in Nat
         /\ Len(txFifo) <= Depth /\ Len(rxFifo) <= Depth
         /\ BufLen \in Nat /\ Depth \in Nat
         /\ Out \in Seq(Label) /\ Len(Out) = Len(txFifo) + Used(txIn, txOut)
         /\ In \in Seq(Label) /\ Len(In) = Used(rxIn, rxOut) + Len(rxFifo)
<1>1. txBuf \in [Index -> Label] /\ txIn \in Index /\ txOut \in Index
      /\ rxBuf \in [Index -> Label] /\ rxIn \in Index /\ rxOut \in Index
      /\ txFifo \in Seq(Label) /\ rxFifo \in Seq(Label)
      /\ Len(txFifo) <= Depth /\ Len(rxFifo) <= Depth
  BY DEF Inv, TypeOK
<1>2. TxRing \in Seq(Label) /\ Len(TxRing) = Used(txIn, txOut)
  BY <1>1, ContentsIs DEF TxRing
<1>3. RxRing \in Seq(Label) /\ Len(RxRing) = Used(rxIn, rxOut)
  BY <1>1, ContentsIs DEF RxRing
<1>4. /\ Used(txIn, txOut) \in Nat /\ Used(txIn, txOut) < BufLen
      /\ Used(rxIn, rxOut) \in Nat /\ Used(rxIn, rxOut) < BufLen
  BY <1>1, UsedIs
<1>5. Out \in Seq(Label) /\ Len(Out) = Len(txFifo) + Used(txIn, txOut)
  BY <1>1, <1>2, ConcatProperties DEF Out
<1>6. In \in Seq(Label) /\ Len(In) = Used(rxIn, rxOut) + Len(rxFifo)
  BY <1>1, <1>3, ConcatProperties DEF In
<1>7. Len(txFifo) \in Nat /\ Len(rxFifo) \in Nat
  BY <1>1
<1>8. QED
  BY <1>1, <1>2, <1>3, <1>4, <1>5, <1>6, <1>7, Constants

LEMMA Lengths ==
  ASSUME Inv
  PROVE  /\ Used(txIn, txOut) \in Nat /\ Used(txIn, txOut) < BufLen
         /\ Used(rxIn, rxOut) \in Nat /\ Used(rxIn, rxOut) < BufLen
         /\ Len(txFifo) \in Nat /\ Len(rxFifo) \in Nat
         /\ Len(txFifo) <= Depth /\ Len(rxFifo) <= Depth
         /\ BufLen \in Nat /\ Depth \in Nat
         /\ Len(Out) = Len(txFifo) + Used(txIn, txOut)
         /\ Len(In) = Used(rxIn, rxOut) + Len(rxFifo)
BY Rings
-----------------------------------------------------------------------------
(* Sequences. *)

LEMMA TailConcat ==
  ASSUME NEW s \in Seq(Label), NEW t \in Seq(Label), s # <<>>
  PROVE  s \o t # <<>> /\ Tail(s \o t) = Tail(s) \o t
OBVIOUS

LEMMA ConcatAppend ==
  ASSUME NEW s \in Seq(Label), NEW t \in Seq(Label), NEW b \in Label
  PROVE  s \o Append(t, b) = Append(s \o t, b)
OBVIOUS

LEMMA Associative ==
  ASSUME NEW s \in Seq(Label), NEW t \in Seq(Label), NEW u \in Seq(Label)
  PROVE  s \o (t \o u) = (s \o t) \o u
OBVIOUS

\* A byte goes over from the head of one queue to the end of the other.
LEMMA Handover ==
  ASSUME NEW s \in Seq(Label), NEW t \in Seq(Label), t # <<>>
  PROVE  /\ Append(s, t[1]) \o SubSeq(t, 2, Len(t)) = s \o t
         /\ (s \o <<Head(t)>>) \o Tail(t) = s \o t
<1> DEFINE A == Append(s, Head(t))
<1>1. /\ Head(t) \in Label /\ Head(t) = t[1] /\ Tail(t) \in Seq(Label)
      /\ Len(t) \in Nat /\ Len(t) >= 1 /\ Len(Tail(t)) = Len(t) - 1 /\ Len(s) \in Nat
      /\ \A i \in 1..(Len(t) - 1) : Tail(t)[i] = t[i + 1]
  BY HeadTailProperties
<1>2. A \in Seq(Label) /\ Len(A) = Len(s) + 1
      /\ \A i \in 1..(Len(s) + 1) : A[i] = IF i <= Len(s) THEN s[i] ELSE t[1]
  BY <1>1
<1>3. SubSeq(t, 2, Len(t)) = Tail(t)
  BY TailIsSubSeq
<1>4. s \o <<Head(t)>> = A
  BY <1>1
<1> HIDE DEF A
<1>5. A \o Tail(t) \in Seq(Label) /\ Len(A \o Tail(t)) = Len(s) + Len(t)
      /\ \A i \in 1..(Len(s) + Len(t)) :
           (A \o Tail(t))[i] = IF i <= Len(s) + 1 THEN A[i] ELSE Tail(t)[i - (Len(s) + 1)]
  <2>1. A \o Tail(t) \in Seq(Label) /\ Len(A \o Tail(t)) = Len(A) + Len(Tail(t))
        /\ \A i \in 1..(Len(A) + Len(Tail(t))) :
             (A \o Tail(t))[i] = IF i <= Len(A) THEN A[i] ELSE Tail(t)[i - Len(A)]
    BY <1>1, <1>2, ConcatProperties
  <2>2. Len(A) + Len(Tail(t)) = Len(s) + Len(t) /\ Len(A) = Len(s) + 1
    BY <1>1, <1>2
  <2>3. QED
    BY <2>1, <2>2
<1>6. s \o t \in Seq(Label) /\ Len(s \o t) = Len(s) + Len(t)
      /\ \A i \in 1..(Len(s) + Len(t)) :
           (s \o t)[i] = IF i <= Len(s) THEN s[i] ELSE t[i - Len(s)]
  BY ConcatProperties
<1>7. ASSUME NEW i \in 1..(Len(s) + Len(t)) PROVE (A \o Tail(t))[i] = (s \o t)[i]
  <2>1. CASE i <= Len(s) + 1
    <3>1. i \in 1..(Len(s) + 1) /\ (i > Len(s) => i - Len(s) = 1)
      BY <1>1, <2>1
    <3>2. QED
      BY <1>1, <1>2, <1>5, <1>6, <2>1, <3>1
  <2>2. CASE i > Len(s) + 1
    <3>1. /\ i - (Len(s) + 1) \in 1..(Len(t) - 1)
          /\ (i - (Len(s) + 1)) + 1 = i - Len(s)
      BY <1>1, <2>2
    <3>2. (A \o Tail(t))[i] = Tail(t)[i - (Len(s) + 1)] /\ (s \o t)[i] = t[i - Len(s)]
      BY <1>1, <1>5, <1>6, <2>2
    <3>3. QED
      BY <1>1, <3>1, <3>2
  <2>3. i \in Nat /\ Len(s) + 1 \in Nat
    BY <1>1
  <2>4. i <= Len(s) + 1 \/ i > Len(s) + 1
    BY <2>3
  <2>5. QED
    BY <2>1, <2>2, <2>4
<1>8. A \o Tail(t) = s \o t
  BY <1>5, <1>6, <1>7, SeqEqual
<1>9. QED
  BY <1>1, <1>3, <1>4, <1>8 DEF A
-----------------------------------------------------------------------------
(* The steps: each keeps the rings in order, and is one of the queues' or    *)
(* none.                                                                     *)

StreamStep == Stream!Next \/ UNCHANGED Stream!vars

LEMMA RingInit == Init => RingInv /\ Stream!Init
<1> SUFFICES ASSUME Init PROVE RingInv /\ Stream!Init
  OBVIOUS
<1>1. Inv
  BY InitInv
<1>2. Used(0, 0) = 0 /\ Used(txIn, txOut) = 0 /\ Used(rxIn, rxOut) = 0
  BY UsedIs, Constants DEF Init
<1>3. RingInv
  BY Constants DEF Init, RingInv, CallOK, TxOK, RxOK, SpaceOK, Reading, Filling,
                   NoView, NoCall
<1>4. TxRing = <<>> /\ RxRing = <<>>
  <2>1. Len(TxRing) = 0 /\ Len(RxRing) = 0 /\ TxRing \in Seq(Label)
        /\ RxRing \in Seq(Label)
    BY <1>1, <1>2, Rings
  <2>2. QED
    BY <2>1, EmptySeq
<1>5. Out = <<>> /\ In = <<>> /\ Got = <<>>
  BY <1>4 DEF Out, In, Got, Init, NoCall
<1>6. Stream!Init
  BY <1>5 DEF Init, Stream!Init, NoCall, Stream!NoCall, Out, In, Got, TxRing, RxRing
<1>7. QED
  BY <1>3, <1>6

LEMMA HostTakesStep == Inv /\ RingInv /\ HostTakes => RingInv' /\ StreamStep
<1> SUFFICES ASSUME Inv, RingInv, HostTakes PROVE RingInv' /\ StreamStep
  OBVIOUS
<1>1. txFifo # <<>> /\ txFifo' = Tail(txFifo)
  BY DEF HostTakes
<1>2. Out # <<>> /\ Out' = Tail(Out)
  <2>1. TxRing' = TxRing
    BY DEF HostTakes, txVars, TxRing
  <2>2. QED
    BY <1>1, <2>1, Rings, TailConcat DEF Out
<1>3. UNCHANGED <<written, RxView, CallView>>
  BY DEF HostTakes, rxVars, fgVars, RxView, CallView, In, Got, RxRing
<1>4. Stream!HostTakes
  BY <1>2, <1>3 DEF Stream!HostTakes, RxView, CallView, Out, In, Got, TxRing, RxRing
<1>5. SpaceOK'
  <2>1. Len(txFifo') = Len(txFifo) - 1 /\ isrView' = isrView
    BY <1>1, Rings, TailType DEF HostTakes, isrVars
  <2>2. isrView.space \in Int
    BY Constants DEF Inv, TypeOK
  <2>3. QED
    BY <2>1, <2>2, Lengths DEF RingInv, SpaceOK
<1>6. CallOK' /\ TxOK' /\ RxOK'
  BY DEF RingInv, CallOK, TxOK, RxOK, HostTakes, txVars, rxVars, fgVars
<1>7. QED
  BY <1>4, <1>5, <1>6 DEF RingInv, StreamStep, Stream!Next

\* The byte the host sends goes to the end of the queue.
LEMMA Sending ==
  ASSUME Inv, Len(rxFifo) < Depth, sent \in Label,
         rxFifo' = Append(rxFifo, sent), sent' = (sent + 1) % Labels,
         UNCHANGED <<rxVars, TxView, CallView>>
  PROVE  Stream!HostSends
<1>1. In' = Append(In, sent)
  <2>1. RxRing' = RxRing
    BY DEF rxVars, RxRing
  <2>2. QED
    BY <2>1, Rings, ConcatAppend DEF In
<1>2. Len(In) < Depth + BufLen - 1
  BY Lengths
<1>3. QED
  BY <1>1, <1>2
  DEF Stream!HostSends, TxView, CallView, Out, In, Got, TxRing, RxRing

LEMMA HostSendsStep == Inv /\ RingInv /\ HostSends => RingInv' /\ StreamStep
<1> SUFFICES ASSUME Inv, RingInv, HostSends PROVE RingInv' /\ StreamStep
  OBVIOUS
<1>1. UNCHANGED <<rxVars, TxView, CallView>> /\ sent \in Label
  BY DEF HostSends, txVars, fgVars, TxView, CallView, Out, Got, TxRing, Inv, TypeOK
<1>2. Stream!HostSends
  BY <1>1, Sending DEF HostSends
<1>3. CallOK' /\ TxOK' /\ RxOK' /\ SpaceOK'
  BY DEF RingInv, CallOK, TxOK, RxOK, SpaceOK, HostSends, txVars, rxVars, fgVars,
         isrVars
<1>4. QED
  BY <1>2, <1>3 DEF RingInv, StreamStep, Stream!Next

LEMMA IsrMissesByteStep == Inv /\ RingInv /\ IsrMissesByte => RingInv' /\ StreamStep
<1> SUFFICES ASSUME Inv, RingInv, IsrMissesByte PROVE RingInv' /\ StreamStep
  OBVIOUS
<1>1. UNCHANGED <<rxVars, TxView, CallView>> /\ sent \in Label
  BY DEF IsrMissesByte, txVars, fgVars, TxView, CallView, Out, Got, TxRing, Inv, TypeOK
<1>2. rxFifo' = Append(rxFifo, sent) /\ Len(rxFifo) < Depth
  BY Constants DEF IsrMissesByte
<1>3. Stream!HostSends
  BY <1>1, <1>2, Sending DEF IsrMissesByte
<1>4. isrView'.space = isrView.space
  BY DEF IsrMissesByte, Inv, TypeOK
<1>5. CallOK' /\ TxOK' /\ RxOK' /\ SpaceOK'
  BY <1>4 DEF RingInv, CallOK, TxOK, RxOK, SpaceOK, IsrMissesByte, txVars, rxVars,
         fgVars
<1>6. QED
  BY <1>3, <1>5 DEF RingInv, StreamStep, Stream!Next

\* Steps that touch neither the queues nor the program.
LEMMA QuietStep ==
  ASSUME Inv, RingInv,
         HostPauses \/ IsrControl \/ IsrStopsReading \/ IsrReadsNothing
         \/ IsrWriteOver \/ Second \/ SetTimeout
  PROVE  RingInv' /\ StreamStep
<1>1. UNCHANGED <<txFifo, rxFifo, txVars, rxVars, fgVars, written, sent>>
  BY DEF HostPauses, IsrControl, IsrStopsReading, IsrReadsNothing, IsrWriteOver,
         Second, SetTimeout, core
<1>2. UNCHANGED Stream!vars
  BY <1>1, StutterIs
  DEF Stutter, TxView, RxView, CallView, Out, In, Got, TxRing, RxRing, txVars, rxVars,
      fgVars
<1>3. SpaceOK'
  <2>1. isrView' = isrView \/ isrView'.space = isrView.space
        \/ isrView'.space = Depth - Len(txFifo) \/ isrView'.space = 0
    BY DEF HostPauses, IsrControl, IsrStopsReading, IsrReadOver, IsrReadsNothing,
           IsrWriteOver, Second, SetTimeout, isrVars, NoView, Inv, TypeOK
  <2>2. QED
    BY <1>1, <2>1, Rings DEF RingInv, SpaceOK
<1>4. CallOK' /\ TxOK' /\ RxOK'
  BY <1>1 DEF RingInv, CallOK, TxOK, RxOK, txVars, rxVars, fgVars
<1>5. QED
  BY <1>2, <1>3, <1>4 DEF RingInv, StreamStep

\* The routine moves a byte from the FIFO to the ring: the queue is the same.
LEMMA IsrReadsStep == Inv /\ RingInv /\ IsrReads => RingInv' /\ StreamStep
<1> SUFFICES ASSUME Inv, RingInv, IsrReads PROVE RingInv' /\ StreamStep
  OBVIOUS
<1> DEFINE b == Head(rxFifo)
           one == <<b>>
<1>1. /\ rxBuf \in [Index -> Label] /\ rxIn \in Index /\ rxOut \in Index
      /\ rxFifo \in Seq(Label) /\ rxFifo # <<>>
      /\ rxFifo' = Tail(rxFifo) /\ rxIn' = Plus(rxIn, 1) /\ rxOut' = rxOut
      /\ rxBuf' = [rxBuf EXCEPT ![rxIn] = b] /\ Plus(rxIn, 1) # rxOut
  BY DEF Inv, TypeOK, IsrReads, PopData, RxFull
<1>2. b \in Label /\ rxBuf' \in [Index -> Label] /\ rxBuf'[rxIn] = b
      /\ \A i \in Index : i # rxIn => rxBuf'[i] = rxBuf[i]
  BY <1>1, TailType
<1>3. rxIn \in Nat /\ rxIn < BufLen /\ rxOut \in Nat /\ rxOut < BufLen /\ BufLen \in Nat
      /\ Used(rxIn, rxOut) \in Nat
      /\ Used(rxIn, rxOut) = IF rxIn >= rxOut THEN rxIn - rxOut ELSE rxIn - rxOut + BufLen
  BY <1>1, UsedIs, IndexType, Constants
<1>4. Used(rxIn, rxOut) + 1 < BufLen
  <2>1. Plus(rxIn, 1) = IF rxIn + 1 < BufLen THEN rxIn + 1 ELSE rxIn + 1 - BufLen
    BY <1>1, PlusIs, Constants
  <2>2. QED
    BY <1>1, <1>3, <2>1
<1>5. Contents(rxBuf', rxOut, rxIn) = RxRing
  <2>1. PICK n \in Nat : n = 1
    OBVIOUS
  <2>2. \A i \in Index : i \notin rxIn..(rxIn + n - 1) => rxBuf'[i] = rxBuf[i]
    BY <1>2, <1>3, <2>1
  <2>3. Used(rxIn, rxOut) + n < BufLen /\ rxIn + n <= BufLen
    BY <1>3, <1>4, <2>1
  <2> HIDE DEF b
  <2>4. rxBuf \in [Index -> Label] /\ rxBuf' \in [Index -> Label]
        /\ rxIn \in Index /\ rxOut \in Index
    BY <1>1, <1>2
  <2>5. Contents(rxBuf', rxOut, rxIn) = Contents(rxBuf, rxOut, rxIn)
    BY <2>2, <2>3, <2>4, Outside
  <2>6. QED
    BY <2>5 DEF RxRing
<1>6. RxRing' = RxRing \o one /\ Used(rxIn', rxOut') = Used(rxIn, rxOut) + 1
  <2>1. one \in Seq(Label) /\ Len(one) = 1
    BY <1>2
  <2>2. \A i \in 1..Len(one) : one[i] = rxBuf'[Plus(rxIn, i - 1)]
    <3>1. Plus(rxIn, 0) = rxIn
      BY <1>1, <1>3, PlusIs
    <3>2. QED
      BY <1>2, <2>1, <3>1
  <2> HIDE DEF one
  <2>3. Contents(rxBuf', rxOut, Plus(rxIn, Len(one))) = Contents(rxBuf', rxOut, rxIn) \o one
        /\ Used(Plus(rxIn, Len(one)), rxOut) = Used(rxIn, rxOut) + Len(one)
    <3>1. rxBuf' \in [Index -> Label] /\ rxIn \in Index /\ rxOut \in Index
          /\ one \in Seq(Label) /\ Used(rxIn, rxOut) + Len(one) < BufLen
      BY <1>1, <1>2, <1>4, <2>1
    <3>2. QED
      BY <3>1, <2>2, Extend
  <2>4. QED
    BY <1>1, <1>5, <2>1, <2>3 DEF RxRing
<1>7. In' = In
  <2>1. (RxRing \o one) \o Tail(rxFifo) = RxRing \o rxFifo
    BY <1>1, Rings, Handover
  <2>2. QED
    BY <1>1, <1>6, <2>1 DEF In
<1>8. UNCHANGED Stream!vars
  <2>1. UNCHANGED <<TxView, sent, CallView>>
    BY DEF IsrReads, PopData, txVars, fgVars, TxView, CallView, Out, Got, TxRing
  <2>2. QED
    BY <1>7, <2>1, StutterIs DEF Stutter, RxView
<1>9. RxOK'
  <2>1. UNCHANGED <<pc, chunk, moved, data, call>>
    BY DEF IsrReads, fgVars
  <2>2. ASSUME pc = "advanceread", NEW i \in 1..chunk
        PROVE  rxBuf'[rxOut + i - 1] = rxBuf[rxOut + i - 1]
    <3>1. chunk \in Nat /\ chunk <= Used(rxIn, rxOut) /\ rxOut + chunk <= BufLen
      BY <2>2 DEF Inv, TypeOK, RingInv, RxOK
    <3>2. rxOut + i - 1 \in Index /\ rxOut + i - 1 # rxIn
      BY <1>3, <3>1 DEF Index
    <3>3. QED
      BY <1>2, <3>2
  <2>3. chunk \in Nat /\ Used(rxIn', rxOut') = Used(rxIn, rxOut) + 1 /\ rxOut' = rxOut
    BY <1>1, <1>6 DEF Inv, TypeOK
  <2>4. (pc' \in {"copyread", "advanceread"} =>
           chunk' <= Used(rxIn', rxOut') /\ rxOut' + chunk' <= BufLen)
    BY <1>3, <2>1, <2>3 DEF RingInv, RxOK
  <2>5. pc' = "advanceread" =>
          /\ Len(data') = moved' + chunk'
          /\ \A i \in 1..chunk' : data'[moved' + i] = rxBuf'[rxOut' + i - 1]
    BY <2>1, <2>2, <2>3 DEF RingInv, RxOK
  <2>6. QED
    BY <2>1, <2>4, <2>5 DEF RingInv, RxOK
<1>10. CallOK' /\ TxOK' /\ SpaceOK'
  BY DEF RingInv, CallOK, TxOK, SpaceOK, IsrReads, PopData, txVars, fgVars, Inv, TypeOK
<1>11. QED
  BY <1>8, <1>9, <1>10 DEF RingInv, StreamStep

\* And from the ring to the other FIFO, where there is room for it.
LEMMA IsrWritesStep == Inv /\ RingInv /\ IsrWrites => RingInv' /\ StreamStep
<1> SUFFICES ASSUME Inv, RingInv, IsrWrites PROVE RingInv' /\ StreamStep
  OBVIOUS
<1>1. /\ txBuf \in [Index -> Label] /\ txIn \in Index /\ txOut \in Index /\ txOut # txIn
      /\ txOut' = Plus(txOut, 1) /\ txIn' = txIn /\ txBuf' = txBuf
      /\ isrView.space \in 0..Depth /\ isrView.space > 0
      /\ isrView'.space = isrView.space - 1
  BY DEF Inv, TypeOK, IsrWrites
<1>2. txIn \in Nat /\ txIn < BufLen /\ txOut \in Nat /\ txOut < BufLen /\ BufLen \in Nat
      /\ Used(txIn, txOut) = IF txIn >= txOut THEN txIn - txOut ELSE txIn - txOut + BufLen
  BY <1>1, UsedIs, IndexType, Constants
<1>3. Used(txIn, txOut) >= 1 /\ Used(txIn, txOut) \in Nat
  BY <1>1, <1>2
<1>4. Len(txFifo) < Depth
  BY <1>1, Rings DEF RingInv, SpaceOK
<1>5. TxRing[1] = txBuf[txOut]
  <2>1. Plus(txOut, 0) = txOut
    BY <1>1, <1>2, PlusIs
  <2>2. 1 \in 1..Used(txIn, txOut)
    BY <1>3
  <2>3. TxRing[1] = txBuf[Plus(txOut, 1 - 1)]
    BY <1>1, <2>2, ContentsIs DEF TxRing
  <2>4. QED
    BY <2>1, <2>3
<1>6. TxRing' = SubSeq(TxRing, 2, Len(TxRing))
  <2>1. Contents(txBuf, Plus(txOut, 1), txIn)
          = SubSeq(Contents(txBuf, txOut, txIn), 1 + 1, Used(txIn, txOut))
    BY <1>1, <1>3, Consume
  <2>2. TxRing' = Contents(txBuf, Plus(txOut, 1), txIn)
    BY <1>1 DEF TxRing
  <2>3. Len(TxRing) = Used(txIn, txOut) /\ 1 + 1 = 2
    BY Rings
  <2>4. QED
    BY <2>1, <2>2, <2>3 DEF TxRing
<1>7. Out' = Out
  <2>1. txFifo' = Append(txFifo, TxRing[1])
    BY <1>4, <1>5 DEF IsrWrites, PushData
  <2>2. TxRing # <<>>
    BY <1>3, Rings
  <2>3. Append(txFifo, TxRing[1]) \o SubSeq(TxRing, 2, Len(TxRing)) = txFifo \o TxRing
    BY <2>2, Rings, Handover
  <2>4. QED
    BY <1>6, <2>1, <2>3 DEF Out
<1>8. UNCHANGED Stream!vars
  <2>1. UNCHANGED <<written, RxView, CallView>>
    BY DEF IsrWrites, rxVars, fgVars, RxView, CallView, In, Got, RxRing
  <2>2. QED
    BY <1>7, <2>1, StutterIs DEF Stutter, TxView
<1>9. TxOK'
  <2>1. Used(txIn', txOut') = Used(txIn, txOut) - 1
    <3>1. Plus(txOut, 1) \in Index
          /\ Plus(txOut, 1) = IF txOut + 1 < BufLen THEN txOut + 1 ELSE txOut + 1 - BufLen
      BY <1>1, PlusIs, Constants
    <3>2. Used(txIn, Plus(txOut, 1))
            = IF txIn >= Plus(txOut, 1) THEN txIn - Plus(txOut, 1)
              ELSE txIn - Plus(txOut, 1) + BufLen
      BY <1>1, <3>1, UsedIs
    <3>3. QED
      BY <1>1, <1>2, <3>1, <3>2
  <2>2. UNCHANGED <<pc, chunk, written>>
    BY DEF IsrWrites, fgVars
  <2>3. chunk \in Nat /\ UNCHANGED <<txIn, txBuf>>
    BY <1>1 DEF Inv, TypeOK
  <2>4. pc' \in {"copy", "advance"} =>
          /\ chunk' >= 1 /\ txIn' + chunk' <= BufLen
          /\ Used(txIn', txOut') + chunk' < BufLen
    BY <1>2, <1>3, <2>1, <2>2, <2>3 DEF RingInv, TxOK
  <2>5. QED
    BY <2>2, <2>3, <2>4 DEF RingInv, TxOK
<1>10. SpaceOK'
  <2>1. Len(txFifo') = Len(txFifo) + 1
    BY <1>1, <1>4, Rings, AppendType DEF IsrWrites, PushData
  <2>2. isrView.space \in Nat /\ isrView'.space = isrView.space - 1
    BY <1>1, Constants
  <2>3. QED
    BY <2>1, <2>2, Lengths DEF RingInv, SpaceOK
<1>11. CallOK' /\ RxOK'
  BY DEF RingInv, CallOK, RxOK, IsrWrites, rxVars, fgVars
<1>12. QED
  BY <1>8, <1>9, <1>10, <1>11 DEF RingInv, StreamStep
-----------------------------------------------------------------------------
(* The program's steps. *)

LEMMA BeginStep == Inv /\ RingInv /\ Begin => RingInv' /\ StreamStep
<1> SUFFICES ASSUME Inv, RingInv, Begin PROVE RingInv' /\ StreamStep
  OBVIOUS
<1>1. call = NoCall /\ call' \in Call /\ pc = "none" /\ pc' = call'.fn
  BY ConstantsAssumption DEF Inv, TypeOK, PcOK, Begin, At, Goto, Use
<1>2. data = <<>> /\ moved = 0
  BY <1>1, CallType DEF RingInv, RxOK, NoCall, Inv, TypeOK, ChunkOK
<1>3. UNCHANGED <<TxView, RxView>> /\ UNCHANGED <<moved, data, chunk>> /\ ret' = 0
      /\ UNCHANGED <<txFifo, txVars, rxVars, isrView, written>>
  BY DEF Begin, At, core, txVars, rxVars, isrVars, TxView, RxView, Out, In, TxRing,
         RxRing
<1>4. Got = <<>> /\ Got' = <<>>
  BY <1>2, <1>3 DEF Got
<1>5. Stream!Begin
  BY <1>1, <1>3, <1>4
  DEF Stream!Begin, Stream!NoCall, Stream!Call, NoCall, Call, TxView, RxView, Out, In,
      Got, TxRing, RxRing
<1>6. pc' \in {"write", "read", "close"}
  BY <1>1 DEF Call
<1>7. CallOK' /\ TxOK'
  BY <1>1, <1>6 DEF CallOK, TxOK, Filling
<1>8. RxOK'
  <2>1. Len(data') = 0 /\ moved' = 0 /\ data' = <<>>
    BY <1>2, <1>3
  <2>2. QED
    BY <1>6, <2>1 DEF RxOK
<1>9. SpaceOK'
  BY <1>3 DEF RingInv, SpaceOK
<1>10. QED
  BY <1>5, <1>7, <1>8, <1>9 DEF RingInv, StreamStep, Stream!Next

\* Steps that change where the program is, or the enable bits, and no more.
LEMMA WaitStep ==
  ASSUME Inv, RingInv,
         Kick \/ WriteWaits \/ WriteWaited \/ ReadWaits \/ ReadWaited \/ EnableRead
  PROVE  RingInv' /\ StreamStep
<1>1. UNCHANGED <<txFifo, rxFifo, txVars, rxVars, isrView, call, chunk, moved, data,
                  ret, written, sent>>
  BY DEF Kick, WriteWaits, WriteWaited, ReadWaits, ReadWaited, EnableRead, At, core,
         isrVars
<1>2. UNCHANGED Stream!vars
  BY <1>1, StutterIs
  DEF Stutter, TxView, RxView, CallView, Out, In, Got, TxRing, RxRing, txVars, rxVars
<1>3. \/ pc \in Filling \cup {"wait", "waited"}
         /\ pc' \in {"write", "wait", "waited", "return"}
      \/ pc \in Reading \ {"copyread", "advanceread"}
         /\ pc' \in {"read", "waitedread", "return"}
  BY DEF Kick, WriteWaits, WriteWaited, ReadWaits, ReadWaited, EnableRead, At, Goto,
         Reading, Filling
<1>4. CallOK'
  BY <1>1, <1>3 DEF RingInv, CallOK, Inv, PcOK, Filling
<1>5. TxOK' /\ SpaceOK'
  BY <1>1, <1>3 DEF RingInv, TxOK, SpaceOK
<1>6. RxOK'
  BY <1>1, <1>3 DEF RingInv, RxOK, Reading, Filling
<1>7. QED
  BY <1>2, <1>4, <1>5, <1>6 DEF RingInv, StreamStep

\* What fits before the end of the buffer leaves one byte of it free.
LEMMA RoomFits ==
  ASSUME Inv, Room(txOut) > 0
  PROVE  /\ Room(txOut) \in Nat /\ txIn + Room(txOut) <= BufLen
         /\ Used(txIn, txOut) + Room(txOut) < BufLen
<1>1. txIn \in Index /\ txOut \in Index
  BY DEF Inv, TypeOK
<1>2. txIn \in Nat /\ txIn < BufLen /\ txOut \in Nat /\ txOut < BufLen /\ BufLen \in Nat
      /\ Used(txIn, txOut) = IF txIn >= txOut THEN txIn - txOut ELSE txIn - txOut + BufLen
  BY <1>1, UsedIs, IndexType, Constants
<1>3. QED
  BY <1>2 DEF Room

LEMMA WriteLooksStep == Inv /\ RingInv /\ WriteLooks => RingInv' /\ StreamStep
<1> SUFFICES ASSUME Inv, RingInv, WriteLooks PROVE RingInv' /\ StreamStep
  OBVIOUS
<1>1. UNCHANGED <<txFifo, rxFifo, txVars, rxVars, isrView, call, moved, data, ret,
                  written, sent>>
  BY DEF WriteLooks, At, core, isrVars
<1>2. UNCHANGED Stream!vars
  BY <1>1, StutterIs
  DEF Stutter, TxView, RxView, CallView, Out, In, Got, TxRing, RxRing, txVars, rxVars
<1>3. pc = "write" /\ pc' \in {"copy", "kick"}
  BY DEF WriteLooks, At, Goto
<1>4. CallOK' /\ RxOK' /\ SpaceOK'
  BY <1>1, <1>3 DEF RingInv, CallOK, RxOK, SpaceOK, Reading, Filling
<1>5. TxOK'
  <2>1. ASSUME pc' = "copy"
        PROVE  chunk' >= 1 /\ txIn + chunk' <= BufLen
               /\ Used(txIn, txOut) + chunk' < BufLen
    <3>1. Left > 0 /\ Room(txOut) > 0 /\ chunk' = Min2(Room(txOut), Left) /\ Left \in Nat
      BY <2>1, CallType DEF WriteLooks, Goto
    <3>2. chunk' \in Nat /\ chunk' >= 1 /\ chunk' <= Room(txOut) /\ Room(txOut) \in Nat
      BY <3>1, RoomFits DEF Min2
    <3>3. txIn \in Nat /\ Used(txIn, txOut) \in Nat /\ BufLen \in Nat
      BY Rings, IndexType DEF Inv, TypeOK
    <3>4. QED
      BY <3>1, <3>2, <3>3, RoomFits
  <2>2. QED
    BY <1>1, <1>3, <2>1 DEF TxOK, txVars
<1>6. QED
  BY <1>2, <1>4, <1>5 DEF RingInv, StreamStep

\* The bytes are copied behind those of the ring.
LEMMA WriteCopiesStep == Inv /\ RingInv /\ WriteCopies => RingInv' /\ StreamStep
<1> SUFFICES ASSUME Inv, RingInv, WriteCopies PROVE RingInv' /\ StreamStep
  OBVIOUS
<1>1. pc = "copy" /\ pc' = "advance"
      /\ UNCHANGED <<txFifo, rxFifo, txIn, txOut, rxVars, isrView, call, chunk, moved,
                     data, ret, written, sent>>
  BY DEF WriteCopies, At, Goto, core, isrVars
<1>2. txBuf' = [i \in Index |-> IF i \in txIn..(txIn + chunk - 1)
                                THEN (written + (i - txIn)) % Labels ELSE txBuf[i]]
  BY DEF WriteCopies
<1>3. /\ txBuf \in [Index -> Label] /\ txBuf' \in [Index -> Label]
      /\ txIn \in Index /\ txOut \in Index /\ chunk \in Nat
      /\ txIn + chunk <= BufLen /\ Used(txIn, txOut) + chunk < BufLen /\ chunk >= 1
  <2>1. TypeOK'
    BY WriteCopiesInv DEF Inv
  <2>2. QED
    BY <1>1, <2>1 DEF Inv, TypeOK, RingInv, TxOK
<1>4. \A i \in Index : i \notin txIn..(txIn + chunk - 1) => txBuf'[i] = txBuf[i]
  BY <1>2
<1>5. Contents(txBuf', txOut, txIn) = Contents(txBuf, txOut, txIn)
  BY <1>3, <1>4, Outside
<1>6. UNCHANGED Stream!vars
  <2>1. Out' = Out
    BY <1>1, <1>5 DEF Out, TxRing
  <2>2. QED
    BY <1>1, <2>1, StutterIs
    DEF Stutter, TxView, RxView, CallView, In, Got, RxRing, rxVars
<1>7. TxOK'
  <2>1. ASSUME NEW i \in 1..chunk
        PROVE  txBuf'[txIn + i - 1] = (written + i - 1) % Labels
    <3>1. txIn \in Nat /\ BufLen \in Nat /\ i \in Nat /\ written \in Nat
      BY <1>3, IndexType, Constants DEF Inv, TypeOK, Label
    <3>2. /\ txIn + i - 1 \in Index /\ txIn + i - 1 \in txIn..(txIn + chunk - 1)
          /\ written + ((txIn + i - 1) - txIn) = written + i - 1
      BY <1>3, <3>1 DEF Index
    <3>3. txBuf'[txIn + i - 1] = (written + ((txIn + i - 1) - txIn)) % Labels
      BY <1>2, <3>2
    <3>4. QED
      BY <3>2, <3>3
  <2>2. QED
    BY <1>1, <1>3, <2>1 DEF TxOK
<1>8. CallOK' /\ RxOK' /\ SpaceOK'
  BY <1>1 DEF RingInv, CallOK, RxOK, SpaceOK, Reading, Filling
<1>9. QED
  BY <1>6, <1>7, <1>8 DEF RingInv, StreamStep

\* And they are put in the queue.
LEMMA WriteAdvancesStep == Inv /\ RingInv /\ WriteAdvances => RingInv' /\ StreamStep
<1> SUFFICES ASSUME Inv, RingInv, WriteAdvances PROVE RingInv' /\ StreamStep
  OBVIOUS
<1> DEFINE s == Stream!Run(written, chunk)
<1>1. pc = "advance" /\ pc' = "write"
      /\ UNCHANGED <<txFifo, rxFifo, txBuf, txOut, rxVars, isrView, call, data, ret, sent>>
      /\ txIn' = Plus(txIn, chunk) /\ moved' = moved + chunk
      /\ written' = (written + chunk) % Labels /\ chunk' = 0
  BY DEF WriteAdvances, At, Goto, core, isrVars
<1>2. /\ txBuf \in [Index -> Label] /\ txIn \in Index /\ txOut \in Index /\ chunk \in Nat
      /\ txIn + chunk <= BufLen /\ Used(txIn, txOut) + chunk < BufLen /\ chunk >= 1
      /\ \A i \in 1..chunk : txBuf[txIn + i - 1] = (written + i - 1) % Labels
  BY <1>1 DEF Inv, TypeOK, RingInv, TxOK
<1>3. s \in Seq(Label) /\ Len(s) = chunk
      /\ \A i \in 1..chunk : s[i] = (written + i - 1) % Labels
  <2>1. ASSUME NEW i \in 1..chunk PROVE (written + i - 1) % Labels \in Label
    <3>1. written + i - 1 \in Int
      BY DEF Inv, TypeOK, Label
    <3>2. QED
      BY <3>1, LabelType
  <2>2. QED
    BY <1>2, <2>1 DEF Stream!Run
<1> HIDE DEF s
<1>4. Contents(txBuf, txOut, Plus(txIn, chunk)) = Contents(txBuf, txOut, txIn) \o s
  <2>1. ASSUME NEW i \in 1..Len(s) PROVE s[i] = txBuf[Plus(txIn, i - 1)]
    <3>1. i - 1 \in Nat /\ i - 1 <= BufLen /\ i \in 1..chunk /\ txIn \in Nat
          /\ txIn + (i - 1) < BufLen /\ txIn + (i - 1) = txIn + i - 1
      BY <1>2, <1>3, IndexType, Constants
    <3>2. Plus(txIn, i - 1) = txIn + i - 1
      BY <1>2, <3>1, PlusIs
    <3>3. QED
      BY <1>2, <1>3, <3>1, <3>2
  <2>2. Used(txIn, txOut) + Len(s) < BufLen
    BY <1>2, <1>3
  <2>3. Contents(txBuf, txOut, Plus(txIn, Len(s))) = Contents(txBuf, txOut, txIn) \o s
    BY <1>2, <1>3, <2>1, <2>2, Extend
  <2>4. QED
    BY <1>3, <2>3
<1>5. Out' = Out \o s
  <2>1. TxRing' = TxRing \o s
    BY <1>1, <1>4 DEF TxRing
  <2>2. txFifo \o (TxRing \o s) = (txFifo \o TxRing) \o s
    <3>1. txFifo \in Seq(Label) /\ TxRing \in Seq(Label) /\ s \in Seq(Label)
      BY <1>3, Rings
    <3> HIDE DEF TxRing
    <3>2. QED
      BY <3>1, Associative
  <2>3. QED
    BY <1>1, <2>1, <2>2 DEF Out
<1>6. call.fn = "write" /\ chunk \in 1..(call.len - moved)
      /\ Len(Out) + chunk <= Depth + BufLen - 1
  <2>1. call.fn = "write"
    BY <1>1 DEF RingInv, CallOK, Filling
  <2>2. chunk \in 1..(call.len - moved)
    BY <1>2, CallType DEF Left, Inv, TypeOK
  <2>3. QED
    BY <1>2, <2>1, <2>2, Lengths
<1>7. UNCHANGED <<RxView, call, Got, ret>>
  BY <1>1, <1>6 DEF RxView, In, RxRing, Got, rxVars
<1>8. Stream!Put
  BY <1>1, <1>5, <1>6, <1>7
  DEF Stream!Put, s, RxView, Out, In, Got, TxRing, RxRing
<1>9. CallOK' /\ TxOK' /\ RxOK' /\ SpaceOK'
  BY <1>1, <1>6 DEF RingInv, CallOK, TxOK, RxOK, SpaceOK, Reading, Filling
<1>10. QED
  BY <1>8, <1>9 DEF RingInv, StreamStep, Stream!Next

\* What can be read before the end of the buffer is in the ring.
LEMMA ReadyFits ==
  ASSUME Inv
  PROVE  /\ Ready(rxIn) \in Nat /\ rxOut + Ready(rxIn) <= BufLen
         /\ Ready(rxIn) <= Used(rxIn, rxOut)
<1>1. rxIn \in Index /\ rxOut \in Index
  BY DEF Inv, TypeOK
<1>2. rxIn \in Nat /\ rxIn < BufLen /\ rxOut \in Nat /\ rxOut < BufLen /\ BufLen \in Nat
      /\ Used(rxIn, rxOut) = IF rxIn >= rxOut THEN rxIn - rxOut ELSE rxIn - rxOut + BufLen
  BY <1>1, UsedIs, IndexType, Constants
<1>3. QED
  BY <1>2 DEF Ready

LEMMA ReadLooksStep == Inv /\ RingInv /\ ReadLooks => RingInv' /\ StreamStep
<1> SUFFICES ASSUME Inv, RingInv, ReadLooks PROVE RingInv' /\ StreamStep
  OBVIOUS
<1>1. UNCHANGED <<txFifo, rxFifo, txVars, rxVars, isrView, call, moved, data, ret,
                  written, sent>>
  BY DEF ReadLooks, At, core, isrVars
<1>2. UNCHANGED Stream!vars
  BY <1>1, StutterIs
  DEF Stutter, TxView, RxView, CallView, Out, In, Got, TxRing, RxRing, txVars, rxVars
<1>3. pc = "read" /\ call.fn = "read"
      /\ pc' \in {"copyread", "enable", "return", "waitread"}
  BY DEF ReadLooks, At, Goto, AfterRead, Inv, PcOK, Reading
<1>4. CallOK' /\ TxOK' /\ SpaceOK'
  BY <1>1, <1>3 DEF RingInv, CallOK, TxOK, SpaceOK, Filling
<1>5. RxOK'
  <2>1. ASSUME pc' = "copyread"
        PROVE  chunk' <= Used(rxIn, rxOut) /\ rxOut + chunk' <= BufLen
    <3>1. chunk' = Min2(Ready(rxIn), Left) /\ Left \in Nat
      BY CallType DEF ReadLooks
    <3>2. chunk' \in Nat /\ chunk' <= Ready(rxIn) /\ Ready(rxIn) \in Nat
      BY <3>1, ReadyFits DEF Min2
    <3>3. rxOut \in Nat /\ Used(rxIn, rxOut) \in Nat /\ BufLen \in Nat
      BY Rings, IndexType DEF Inv, TypeOK
    <3>4. QED
      BY <3>1, <3>2, <3>3, ReadyFits
  <2>2. Len(data') = moved'
    BY <1>1, <1>3 DEF RingInv, RxOK, Reading
  <2>3. QED
    BY <1>1, <1>3, <2>1, <2>2 DEF RxOK, rxVars
<1>6. QED
  BY <1>2, <1>4, <1>5 DEF RingInv, StreamStep

\* The bytes before the end of the buffer, one after the other.
LEMMA Ahead ==
  ASSUME Inv, RingInv, pc \in {"copyread", "advanceread"}, NEW i \in 1..chunk
  PROVE  /\ Plus(rxOut, i - 1) = rxOut + i - 1
         /\ RxRing[i] = rxBuf[rxOut + i - 1] /\ i \in 1..Used(rxIn, rxOut)
<1>1. /\ rxBuf \in [Index -> Label] /\ rxIn \in Index /\ rxOut \in Index /\ chunk \in Nat
      /\ chunk <= Used(rxIn, rxOut) /\ rxOut + chunk <= BufLen
  BY DEF Inv, TypeOK, RingInv, RxOK
<1>2. /\ i - 1 \in Nat /\ i - 1 <= BufLen /\ rxOut \in Nat /\ i \in 1..Used(rxIn, rxOut)
      /\ rxOut + (i - 1) < BufLen /\ rxOut + (i - 1) = rxOut + i - 1
  <2>1. rxOut \in Nat /\ BufLen \in Nat /\ i \in Nat /\ i >= 1 /\ i <= chunk
    BY <1>1, IndexType, Constants
  <2>2. Used(rxIn, rxOut) \in Nat
    BY Rings
  <2>3. QED
    BY <1>1, <2>1, <2>2
<1>3. Plus(rxOut, i - 1) = rxOut + i - 1
  BY <1>1, <1>2, PlusIs
<1>4. RxRing[i] = rxBuf[Plus(rxOut, i - 1)]
  BY <1>1, <1>2, ContentsIs DEF RxRing
<1>5. QED
  BY <1>2, <1>3, <1>4

\* Until the out index moves, what was copied is not taken from the queue.
LEMMA ReadCopiesStep == Inv /\ RingInv /\ ReadCopies => RingInv' /\ StreamStep
<1> SUFFICES ASSUME Inv, RingInv, ReadCopies PROVE RingInv' /\ StreamStep
  OBVIOUS
<1> DEFINE got == [i \in 1..chunk |-> rxBuf[Plus(rxOut, i - 1)]]
<1>1. pc = "copyread" /\ pc' = "advanceread" /\ call.fn = "read" /\ data' = data \o got
      /\ UNCHANGED <<txFifo, rxFifo, txVars, rxVars, isrView, call, chunk, moved, ret,
                     written, sent>>
  BY DEF ReadCopies, At, Goto, core, isrVars, Inv, PcOK, Reading
<1>2. /\ rxBuf \in [Index -> Label] /\ rxOut \in Index /\ chunk \in Nat
      /\ data \in Seq(Label) /\ moved \in Nat /\ Len(data) = moved
      /\ chunk <= Used(rxIn, rxOut) /\ rxOut + chunk <= BufLen
  BY <1>1 DEF Inv, TypeOK, RingInv, RxOK, Reading
<1>3. got \in Seq(Label) /\ Len(got) = chunk
      /\ \A i \in 1..chunk : got[i] = rxBuf[rxOut + i - 1]
  <2>1. ASSUME NEW i \in 1..chunk
        PROVE  /\ Plus(rxOut, i - 1) = rxOut + i - 1
               /\ rxBuf[Plus(rxOut, i - 1)] \in Label
    <3>1. Plus(rxOut, i - 1) = rxOut + i - 1
      BY <1>1, Ahead
    <3>2. i - 1 \in Int /\ rxOut \in Int
      BY <1>2, IndexType
    <3>3. Plus(rxOut, i - 1) \in Index
      BY <3>2, PlusType
    <3>4. QED
      BY <1>2, <3>1, <3>3
  <2>2. QED
    BY <1>2, <2>1
<1> HIDE DEF got
<1>4. data' \in Seq(Label) /\ Len(data') = moved + chunk
      /\ \A i \in 1..(moved + chunk) :
           data'[i] = IF i <= moved THEN data[i] ELSE got[i - moved]
  BY <1>1, <1>2, <1>3, ConcatProperties
<1>5. Got' = Got
  <2>1. Got = SubSeq(data, 1, moved) /\ Got' = SubSeq(data', 1, moved)
    BY <1>1 DEF Got
  <2>2. \A i \in 1..moved : data'[i] = data[i] /\ i \in 1..(moved + chunk)
    BY <1>2, <1>4
  <2>3. QED
    BY <1>2, <1>4, <2>1, <2>2
<1>6. UNCHANGED Stream!vars
  BY <1>1, <1>5, StutterIs
  DEF Stutter, TxView, RxView, CallView, Out, In, TxRing, RxRing, txVars, rxVars
<1>7. RxOK'
  <2>1. ASSUME NEW i \in 1..chunk
        PROVE  data'[moved + i] = rxBuf[rxOut + i - 1]
    <3>1. moved + i \in 1..(moved + chunk) /\ ~(moved + i <= moved)
          /\ (moved + i) - moved = i
      BY <1>2
    <3>2. QED
      BY <1>3, <1>4, <3>1
  <2>2. QED
    BY <1>1, <1>2, <1>4, <2>1 DEF RxOK, rxVars
<1>8. CallOK' /\ TxOK' /\ SpaceOK'
  BY <1>1 DEF RingInv, CallOK, TxOK, SpaceOK, Filling
<1>9. QED
  BY <1>6, <1>7, <1>8 DEF RingInv, StreamStep

\* The first bytes of a concatenation are dropped.
LEMMA Drop ==
  ASSUME NEW s \in Seq(Label), NEW t \in Seq(Label), NEW n \in Nat, n <= Len(s)
  PROVE  SubSeq(s \o t, n + 1, Len(s \o t)) = SubSeq(s, n + 1, Len(s)) \o t
<1> DEFINE C == s \o t
           H == SubSeq(s, n + 1, Len(s))
           L == SubSeq(C, n + 1, Len(C))
           R == H \o t
<1>1. Len(s) \in Nat /\ Len(t) \in Nat
  OBVIOUS
<1>2. C \in Seq(Label) /\ Len(C) = Len(s) + Len(t)
      /\ \A i \in 1..(Len(s) + Len(t)) : C[i] = IF i <= Len(s) THEN s[i] ELSE t[i - Len(s)]
  BY ConcatProperties
<1>3. H \in Seq(Label) /\ Len(H) = Len(s) - n
      /\ \A i \in 1..(Len(s) - n) : H[i] = s[n + i]
  BY <1>1
<1> HIDE DEF C, H
<1>4. L \in Seq(Label) /\ Len(L) = Len(s) + Len(t) - n
      /\ \A i \in 1..(Len(s) + Len(t) - n) : L[i] = C[n + i]
  BY <1>1, <1>2
<1>5. R \in Seq(Label) /\ Len(R) = Len(s) - n + Len(t)
      /\ \A i \in 1..(Len(s) - n + Len(t)) :
           R[i] = IF i <= Len(s) - n THEN H[i] ELSE t[i - (Len(s) - n)]
  <2>1. R \in Seq(Label) /\ Len(R) = Len(H) + Len(t)
        /\ \A i \in 1..(Len(H) + Len(t)) : R[i] = IF i <= Len(H) THEN H[i] ELSE t[i - Len(H)]
    BY <1>3, ConcatProperties
  <2>2. QED
    BY <1>3, <2>1
<1> HIDE DEF L, R
<1>6. ASSUME NEW i \in 1..(Len(s) + Len(t) - n) PROVE L[i] = R[i]
  <2>1. i \in Nat /\ n + i \in 1..(Len(s) + Len(t)) /\ i \in 1..(Len(s) - n + Len(t))
        /\ (i <= Len(s) - n => i \in 1..(Len(s) - n) /\ n + i <= Len(s))
        /\ (~(i <= Len(s) - n) => ~(n + i <= Len(s)))
        /\ (n + i) - Len(s) = i - (Len(s) - n)
    BY <1>1
  <2>2. L[i] = C[n + i]
    BY <1>4
  <2>3. CASE i <= Len(s) - n
    BY <1>2, <1>3, <1>5, <2>1, <2>2, <2>3
  <2>4. CASE ~(i <= Len(s) - n)
    BY <1>2, <1>5, <2>1, <2>2, <2>4
  <2>5. QED
    BY <2>3, <2>4
<1>7. L = R
  <2>1. Len(L) = Len(R) /\ Len(L) = Len(s) + Len(t) - n
    BY <1>1, <1>4, <1>5
  <2>2. QED
    BY <1>4, <1>5, <1>6, <2>1, SeqEqual
<1>8. QED
  BY <1>7 DEF L, R, C, H

LEMMA ReadAdvancesStep == Inv /\ RingInv /\ ReadAdvances => RingInv' /\ StreamStep
<1> SUFFICES ASSUME Inv, RingInv, ReadAdvances PROVE RingInv' /\ StreamStep
  OBVIOUS
<1>1. pc = "advanceread" /\ pc' = "read" /\ call.fn = "read"
      /\ UNCHANGED <<txFifo, rxFifo, txVars, rxBuf, rxIn, isrView, call, data, ret,
                     written, sent>>
      /\ rxOut' = Plus(rxOut, chunk) /\ moved' = moved + chunk /\ chunk' = 0
  BY DEF ReadAdvances, At, Goto, core, isrVars, Inv, PcOK, Reading
<1>2. /\ rxBuf \in [Index -> Label] /\ rxIn \in Index /\ rxOut \in Index /\ chunk \in Nat
      /\ data \in Seq(Label) /\ moved \in Nat /\ Len(data) = moved + chunk /\ chunk >= 1
      /\ chunk <= Used(rxIn, rxOut)
      /\ \A i \in 1..chunk : data[moved + i] = rxBuf[rxOut + i - 1]
  BY <1>1 DEF Inv, TypeOK, ChunkOK, RingInv, RxOK
<1>3. In' = SubSeq(In, chunk + 1, Len(In))
  <2>1. Contents(rxBuf, Plus(rxOut, chunk), rxIn)
          = SubSeq(Contents(rxBuf, rxOut, rxIn), chunk + 1, Used(rxIn, rxOut))
    BY <1>2, Consume
  <2>2. RxRing' = Contents(rxBuf, Plus(rxOut, chunk), rxIn)
    BY <1>1 DEF RxRing
  <2>3. RxRing \in Seq(Label) /\ rxFifo \in Seq(Label) /\ Len(RxRing) = Used(rxIn, rxOut)
    BY Rings
  <2>4. RxRing' = SubSeq(RxRing, chunk + 1, Len(RxRing))
    BY <2>1, <2>2, <2>3 DEF RxRing
  <2> HIDE DEF RxRing
  <2>5. SubSeq(RxRing \o rxFifo, chunk + 1, Len(RxRing \o rxFifo))
          = SubSeq(RxRing, chunk + 1, Len(RxRing)) \o rxFifo
    BY <1>2, <2>3, Drop
  <2>6. QED
    BY <1>1, <2>4, <2>5 DEF In
<1>4. chunk <= Len(In) /\ In \in Seq(Label)
  <2>1. In \in Seq(Label)
    BY Rings
  <2>2. QED
    BY <1>2, <2>1, Lengths
<1>5. \A i \in 1..chunk : In[i] = data[moved + i]
  <2>1. ASSUME NEW i \in 1..chunk PROVE In[i] = data[moved + i]
    <3>1. RxRing[i] = rxBuf[rxOut + i - 1] /\ i \in 1..Used(rxIn, rxOut)
      BY <1>1, Ahead
    <3>2. In[i] = RxRing[i]
      <4>1. RxRing \in Seq(Label) /\ rxFifo \in Seq(Label) /\ Len(RxRing) = Used(rxIn, rxOut)
            /\ Used(rxIn, rxOut) \in Nat /\ Len(rxFifo) \in Nat
        BY Rings
      <4>2. i \in 1..(Len(RxRing) + Len(rxFifo)) /\ i <= Len(RxRing)
        BY <3>1, <4>1
      <4> HIDE DEF RxRing
      <4>3. QED
        BY <4>1, <4>2, ConcatProperties DEF In
    <3>3. QED
      BY <1>2, <3>1, <3>2
  <2>2. QED
    BY <2>1
<1>6. Got' = Got \o SubSeq(In, 1, chunk)
  <2> DEFINE G == SubSeq(data, 1, moved)
             S == SubSeq(In, 1, chunk)
             E == G \o S
  <2>1. G \in Seq(Label) /\ Len(G) = moved /\ \A i \in 1..moved : G[i] = data[i]
    BY <1>2
  <2>2. S \in Seq(Label) /\ Len(S) = chunk /\ \A i \in 1..chunk : S[i] = data[moved + i]
    BY <1>2, <1>4, <1>5
  <2> HIDE DEF G, S
  <2>3. E \in Seq(Label) /\ Len(E) = moved + chunk
        /\ \A i \in 1..(moved + chunk) : E[i] = IF i <= moved THEN G[i] ELSE S[i - moved]
    <3>1. E \in Seq(Label) /\ Len(E) = Len(G) + Len(S)
          /\ \A i \in 1..(Len(G) + Len(S)) : E[i] = IF i <= Len(G) THEN G[i] ELSE S[i - Len(G)]
      BY <2>1, <2>2, ConcatProperties
    <3>2. QED
      BY <2>1, <2>2, <3>1
  <2> HIDE DEF E
  <2>4. ASSUME NEW i \in 1..(moved + chunk) PROVE E[i] = data[i]
    <3>1. CASE i <= moved
      <4>1. i \in 1..moved
        BY <1>2, <3>1
      <4>2. QED
        BY <2>1, <2>3, <3>1, <4>1
    <3>2. CASE ~(i <= moved)
      <4>1. i - moved \in 1..chunk /\ moved + (i - moved) = i
        BY <1>2, <3>2
      <4>2. QED
        BY <2>2, <2>3, <3>2, <4>1
    <3>3. QED
      BY <3>1, <3>2
  <2>5. E = data
    BY <1>2, <2>3, <2>4, SeqEqual
  <2>6. Got' = data
    <3>1. Got' = SubSeq(data, 1, Len(data))
      BY <1>1, <1>2 DEF Got
    <3>2. QED
      BY <1>2, <3>1
  <2>7. Got = G
    BY <1>1 DEF Got, G
  <2>8. QED
    BY <2>5, <2>6, <2>7 DEF E, S
<1>7. chunk \in 1..(call.len - moved)
  BY <1>2, CallType DEF Left
<1>8. UNCHANGED <<TxView, sent, call, ret>>
  BY <1>1 DEF TxView, Out, TxRing, txVars
<1>9. Stream!Get
  BY <1>1, <1>3, <1>4, <1>6, <1>7, <1>8
  DEF Stream!Get, TxView, Out, In, Got, TxRing, RxRing
<1>10. CallOK' /\ TxOK' /\ SpaceOK'
  BY <1>1 DEF RingInv, CallOK, TxOK, SpaceOK, Filling
<1>11. RxOK'
  BY <1>1, <1>2 DEF RxOK
<1>12. QED
  BY <1>9, <1>10, <1>11 DEF RingInv, StreamStep, Stream!Next

\* The result is what the calls of the queues return.
LEMMA ReturnStep == Inv /\ RingInv /\ (Return \/ Close) => RingInv' /\ StreamStep
<1> SUFFICES ASSUME Inv, RingInv, Return \/ Close PROVE RingInv' /\ StreamStep
  OBVIOUS
<1>1. /\ UNCHANGED <<txFifo, rxFifo, txVars, rxVars, isrView, written, sent>>
      /\ pc' = "none" /\ call' = NoCall /\ moved' = 0 /\ data' = <<>> /\ chunk' = 0
  BY DEF Return, Close, Finish, At, Goto, core, isrVars
<1>2. call # NoCall /\ ret' \in Stream!Result
  <2>1. CASE Return
    <3>1. pc = "return" /\ ret' = Result /\ call.fn \in {"write", "read"}
      BY <2>1 DEF Return, Finish, At, RingInv, CallOK
    <3>2. QED
      BY <3>1 DEF Result, Stream!Result, NoCall, EIO, EWOULDBLOCK, Stream!EIO,
                  Stream!EWOULDBLOCK
  <2>2. CASE Close
    <3>1. pc = "close" /\ call.fn = "close"
          /\ (ret' = 0 \/ (call.nonblock /\ ret' = EWOULDBLOCK))
      BY <2>2 DEF Close, Finish, At, RingInv, CallOK
    <3>2. QED
      BY <3>1 DEF Stream!Result, NoCall, EWOULDBLOCK, Stream!EWOULDBLOCK
  <2>3. QED
    BY <2>1, <2>2
<1>3. UNCHANGED <<TxView, RxView>> /\ Got' = <<>>
  BY <1>1 DEF TxView, RxView, Out, In, TxRing, RxRing, Got, txVars, rxVars, NoCall
<1>4. Stream!Return
  BY <1>1, <1>2, <1>3
  DEF Stream!Return, Stream!NoCall, NoCall, TxView, RxView, Out, In, Got, TxRing, RxRing
<1>5. CallOK' /\ TxOK' /\ RxOK' /\ SpaceOK'
  BY <1>1 DEF RingInv, CallOK, TxOK, RxOK, SpaceOK, Reading, Filling
<1>6. QED
  BY <1>4, <1>5 DEF RingInv, StreamStep, Stream!Next

LEMMA RingNext == Inv /\ RingInv /\ [Next]_vars => RingInv' /\ StreamStep
<1> SUFFICES ASSUME Inv, RingInv, [Next]_vars PROVE RingInv' /\ StreamStep
  OBVIOUS
<1>1. CASE HostTakes
  BY <1>1, HostTakesStep
<1>2. CASE HostSends
  BY <1>2, HostSendsStep
<1>3. CASE HostPauses \/ IsrControl \/ IsrStopsReading \/ IsrReadsNothing
           \/ IsrWriteOver \/ Second \/ SetTimeout
  BY <1>3, QuietStep
<1>4. CASE IsrMissesByte \/ IsrReads \/ IsrWrites
  BY <1>4, IsrMissesByteStep, IsrReadsStep, IsrWritesStep
<1>5. CASE Begin
  BY <1>5, BeginStep
<1>6. CASE WriteLooks \/ WriteCopies \/ WriteAdvances
  BY <1>6, WriteLooksStep, WriteCopiesStep, WriteAdvancesStep
<1>7. CASE Kick \/ WriteWaits \/ WriteWaited \/ ReadWaits \/ ReadWaited \/ EnableRead
  BY <1>7, WaitStep
<1>8. CASE ReadLooks \/ ReadCopies \/ ReadAdvances
  BY <1>8, ReadLooksStep, ReadCopiesStep, ReadAdvancesStep
<1>9. CASE Return \/ Close
  BY <1>9, ReturnStep
<1>10. CASE UNCHANGED vars
  <2>1. UNCHANGED Stream!vars
    BY <1>10, StutterIs
    DEF vars, core, txVars, rxVars, fgVars, Stutter, TxView, RxView, CallView, Out, In,
        Got, TxRing, RxRing
  <2>2. RingInv'
    BY <1>10 DEF vars, core, txVars, rxVars, fgVars, isrVars, RingInv, CallOK, TxOK, RxOK,
                 SpaceOK
  <2>3. QED
    BY <2>1, <2>2 DEF StreamStep
<1>11. QED
  BY <1>1, <1>2, <1>3, <1>4, <1>5, <1>6, <1>7, <1>8, <1>9, <1>10
  DEF Next, Isr, Program

\* Whatever the interrupt routine, the host and its absence do between the
\* program's steps, and wherever the rings wrap, the console is two queues of
\* bytes: none is lost, repeated or reordered, and a call returns how many it
\* has moved (write.c:74-221, read.c:62-199, init.c:90-197).
THEOREM ImplementsByteStream == Spec => Implements
<1>1. Init => RingInv /\ Stream!Init
  BY RingInit
<1>2. Inv /\ RingInv /\ [Next]_vars => RingInv' /\ [Stream!Next]_(Stream!vars)
  BY RingNext DEF StreamStep
<1>3. QED
  BY <1>1, <1>2, Invariant, PTL DEF Spec, Implements, Stream!Spec
=============================================================================
