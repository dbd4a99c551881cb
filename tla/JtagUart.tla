------------------------------ MODULE JtagUart ------------------------------
(***************************************************************************)
(* The console: the interrupt-driven driver of the JTAG UART               *)
(* (altera_avalon_jtag_uart_*.c of the BSP), with the registers and FIFOs  *)
(* of the core (MebX_Qsys_Project_jtag_uart.v).                            *)
(*                                                                         *)
(* Three things run at the same time: the function the program has called, *)
(* one access to a shared variable at a time; the interrupt routine, which *)
(* preempts it between any two; the host, between any two steps of either. *)
(* The alarm that looks for the host comes from the timer's interrupt.     *)
(* Each direction has a ring buffer with one producer and one consumer, no *)
(* lock, and an interrupt enable bit that both of them change.             *)
(***************************************************************************)
EXTENDS Integers, Sequences

CONSTANTS
  BufLen,    \* ALTERA_AVALON_JTAG_UART_BUF_LEN: 2048
  Depth,     \* bytes in a FIFO of the core: 64
  Near,      \* a FIFO this near to empty or full interrupts: 8
  Timeout,   \* ALTERA_AVALON_JTAG_UART_DEFAULT_TIMEOUT: 10 seconds
  IntMax,    \* host_inactive counts no further than IntMax - 2
  Labels,    \* bytes are numbered, modulo Labels
  Uses       \* ways the console is used, see Use

VARIABLES
  use,             \* how the console is used: it does not change
  txFifo, rxFifo,  \* the core's FIFOs, first byte first
  pause,           \* pause_irq: the host paused while bytes were waiting
  ac,              \* the AC bit: the host has been active
  enabled,         \* irq_enable, and the enable bits of the core
  txBuf, txIn, txOut,
  rxBuf, rxIn, rxOut,
  inactive,        \* host_inactive: seconds without a sign of the host
  timeout,         \* seconds after which it is taken to be gone
  isr, isrView,    \* where the interrupt routine is, and its locals
  pc,              \* where the called function is
  call,            \* its arguments
  snap,            \* its local copy of tx_out or of rx_in
  chunk,           \* its n
  moved, data,     \* ptr - start, and the bytes it has read
  ret,             \* what the last call returned
  written, sent    \* history: numbers of the next bytes

core   == <<txFifo, rxFifo, pause, ac>>
txVars == <<txBuf, txIn, txOut>>
rxVars == <<rxBuf, rxIn, rxOut>>
host   == <<use, inactive, timeout>>
isrVars == <<isr, isrView>>
fgVars == <<pc, call, snap, chunk, moved, data, ret>>
vars == <<core, enabled, txVars, rxVars, host, isrVars, fgVars, written, sent>>

Index == 0..(BufLen - 1)
Label == 0..(Labels - 1)

NoCall == [fn |-> "none", nonblock |-> FALSE, len |-> 0]
Call == [fn : {"write", "read", "close"}, nonblock : BOOLEAN, len : Nat]

\* The calls a program makes, and the timeouts it sets; where program and host
\* stop, nowhere if at Labels; whether the host is connected all the time.
Use == [calls : SUBSET Call, timeouts : SUBSET Int, writes : 0..Labels,
        sends : 0..Labels, connected : BOOLEAN]

ASSUME ConstantsAssumption ==
  /\ BufLen \in Nat /\ BufLen >= 2 /\ Depth \in Nat \ {0} /\ Near \in 0..(Depth - 1)
  /\ Labels \in Nat \ {0} /\ IntMax \in Nat /\ Timeout \in 2..(IntMax - 1)
  /\ Uses \subseteq Use

NoView == [wi |-> FALSE, space |-> 0, avail |-> FALSE]

EIO == -5
EWOULDBLOCK == -11

Min2(a, b) == IF a <= b THEN a ELSE b
Plus(i, n) == (i + n) % BufLen

\* Bytes in a ring buffer; it is full one byte short of its length.
Used(in, out) == (in - out) % BufLen
RxFull == Plus(rxIn, 1) = rxOut

\* What interrupts: the transmit FIFO nearly empty, bytes in the receive FIFO
\* and the host pausing, or the receive FIFO nearly full.
WriteIrq == "WE" \in enabled /\ Len(txFifo) <= Near
ReadIrq  == "RE" \in enabled /\ (pause \/ Depth - Len(rxFifo) <= Near)
-----------------------------------------------------------------------------
\* altera_avalon_jtag_uart_init has run.
Init ==
  /\ use \in Uses
  /\ txFifo = <<>> /\ rxFifo = <<>> /\ pause = FALSE /\ ac = FALSE
  /\ enabled = {"RE"}
  /\ txBuf = [i \in Index |-> 0] /\ txIn = 0 /\ txOut = 0
  /\ rxBuf = [i \in Index |-> 0] /\ rxIn = 0 /\ rxOut = 0
  /\ inactive = 0 /\ timeout = Timeout
  /\ isr = "none" /\ isrView = NoView
  /\ pc = "none" /\ call = NoCall /\ snap = 0 /\ chunk = 0
  /\ moved = 0 /\ data = <<>> /\ ret = 0 /\ written = 0 /\ sent = 0
-----------------------------------------------------------------------------
(* The host and the core. *)

HostTakes ==
  /\ txFifo # <<>> /\ txFifo' = Tail(txFifo)
  /\ UNCHANGED <<rxFifo, pause, ac, enabled, txVars, rxVars, host, isrVars,
                 fgVars, written, sent>>

HostSends ==
  /\ sent < use.sends /\ Len(rxFifo) < Depth /\ ac' = TRUE
  /\ rxFifo' = Append(rxFifo, sent) /\ sent' = (sent + 1) % Labels
  /\ UNCHANGED <<txFifo, pause, enabled, txVars, rxVars, host, isrVars, fgVars,
                 written>>

\* The host has nothing more to send, and says so.
HostPauses ==
  /\ ac' = TRUE /\ pause' = (pause \/ rxFifo # <<>>)
  /\ UNCHANGED <<txFifo, rxFifo, enabled, txVars, rxVars, host, isrVars,
                 fgVars, written, sent>>

\* Reading the data register takes a byte, if there is one, and the pause.
PopData == rxFifo' = Tail(rxFifo) /\ pause' = FALSE

\* Writing it to a full FIFO loses the byte.
PushData(b) ==
  txFifo' = IF Len(txFifo) < Depth THEN Append(txFifo, b) ELSE txFifo
-----------------------------------------------------------------------------
(* altera_avalon_jtag_uart_irq. *)

\* The control register is read, at the start of each round.
IsrControl ==
  /\ isr = "control" \/ (isr = "none" /\ (ReadIrq \/ WriteIrq))
  /\ isr' = IF ReadIrq THEN "read" ELSE IF WriteIrq THEN "write" ELSE "none"
  /\ isrView' = IF ReadIrq \/ WriteIrq
                THEN [wi |-> WriteIrq, space |-> Depth - Len(txFifo),
                      avail |-> ReadIrq]
                ELSE NoView
  /\ UNCHANGED <<core, enabled, txVars, rxVars, host, fgVars, written, sent>>

\* The read ends, as far as the latest RAVAIL tells with bytes left: interrupts
\* are disabled until the program has read some.
IsrReadOver ==
  /\ enabled' = IF isrView'.avail THEN enabled \ {"RE"} ELSE enabled
  /\ isr' = IF isrView.wi THEN "write" ELSE "control"

\* There is no room.
IsrStopsReading ==
  /\ isr = "read" /\ RxFull
  /\ UNCHANGED isrView /\ IsrReadOver
  /\ UNCHANGED <<core, txVars, rxVars, host, fgVars, written, sent>>

\* RVALID is zero, and so is RAVAIL.
IsrReadsNothing ==
  /\ isr = "read" /\ ~RxFull /\ rxFifo = <<>>
  /\ pause' = FALSE
  /\ isrView' = [isrView EXCEPT !.avail = FALSE] /\ IsrReadOver
  /\ UNCHANGED <<txFifo, rxFifo, ac, txVars, rxVars, host, fgVars, written, sent>>

\* A byte arrives in the clock of the read: RVALID is zero, RAVAIL is not.
\* The byte is left in the FIFO, and interrupts are disabled for it though
\* there is room.
IsrMissesByte ==
  /\ isr = "read" /\ ~RxFull /\ rxFifo = <<>> /\ sent < use.sends
  /\ rxFifo' = <<sent>> /\ sent' = (sent + 1) % Labels
  /\ ac' = TRUE /\ pause' = FALSE
  /\ isrView' = [isrView EXCEPT !.avail = TRUE] /\ IsrReadOver
  /\ UNCHANGED <<txFifo, txVars, rxVars, host, fgVars, written>>

IsrReads ==
  /\ isr = "read" /\ ~RxFull /\ rxFifo # <<>>
  /\ PopData
  /\ rxBuf' = [rxBuf EXCEPT ![rxIn] = Head(rxFifo)] /\ rxIn' = Plus(rxIn, 1)
  /\ isrView' = [isrView EXCEPT !.avail = rxFifo' # <<>>]
  /\ UNCHANGED <<txFifo, ac, enabled, txVars, rxOut, host, isr, fgVars,
                 written, sent>>

IsrWrites ==
  /\ isr = "write" /\ isrView.space > 0 /\ txOut # txIn
  /\ PushData(txBuf[txOut]) /\ txOut' = Plus(txOut, 1)
  /\ isrView' = [isrView EXCEPT !.space = @ - 1]
  /\ UNCHANGED <<rxFifo, pause, ac, enabled, txBuf, txIn, rxVars, host, isr,
                 fgVars, written, sent>>

\* Mutant: the interrupt is turned off also when only the FIFO is full.
Emptied_Always == enabled \ {"WE"}

\* The buffer is empty: nothing to interrupt for.
Emptied == IF isrView.space > 0 THEN enabled \ {"WE"} ELSE enabled

IsrWriteOver ==
  /\ isr = "write" /\ ~(isrView.space > 0 /\ txOut # txIn)
  /\ enabled' = Emptied /\ isr' = "control"
  /\ UNCHANGED <<core, txVars, rxVars, host, isrView, fgVars, written, sent>>

Isr == \/ IsrControl \/ IsrStopsReading \/ IsrReadsNothing \/ IsrMissesByte
       \/ IsrReads \/ IsrWrites \/ IsrWriteOver

\* altera_avalon_jtag_uart_timeout, once a second, from the timer's interrupt.
Second ==
  /\ isr = "none" /\ (use.connected => ac)
  /\ ac' = FALSE
  /\ inactive' = IF ac THEN 0
                 ELSE IF inactive < IntMax - 2 THEN inactive + 1 ELSE inactive
  /\ UNCHANGED <<txFifo, rxFifo, pause, enabled, txVars, rxVars, use, timeout,
                 isrVars, fgVars, written, sent>>
-----------------------------------------------------------------------------
(* The program.  A step of its own is taken only while no interrupt runs.  *)

Goto(p) == isr = "none" /\ pc' = p

At(p) == pc = p /\ UNCHANGED <<core, host, isrVars>>

Begin ==
  /\ At("none") /\ call' \in use.calls
  /\ call'.fn = "write" => written < use.writes
  /\ ret' = 0
  /\ Goto(call'.fn)
  /\ UNCHANGED <<enabled, txVars, rxVars, snap, chunk, moved, data, written,
                 sent>>

\* altera_avalon_jtag_uart_ioctl(TIOCSTIMEOUT)
SetTimeout ==
  /\ pc = "none" /\ isr = "none"
  /\ \E arg \in use.timeouts :
       timeout' = IF arg >= 2 /\ arg < IntMax THEN arg ELSE IntMax - 1
  /\ UNCHANGED <<core, enabled, txVars, rxVars, use, inactive, isrVars, fgVars,
                 written, sent>>

Left == call.len - moved

\* Mutant: a buffer that is filled to the last byte looks empty.
Room_OneMore(out) ==
  IF txIn < out THEN out - txIn ELSE BufLen - txIn

\* The bytes that fit before the end of the buffer.
Room(out) ==
  IF txIn < out THEN out - 1 - txIn
  ELSE IF out > 0 THEN BufLen - txIn
  ELSE BufLen - 1 - txIn

\* altera_avalon_jtag_uart_write
WriteLooks ==
  /\ At("write")
  /\ snap' = txOut /\ chunk' = Min2(Room(txOut), Left)
  /\ Goto(IF Left > 0 /\ Room(txOut) > 0 THEN "copy" ELSE "kick")
  /\ UNCHANGED <<enabled, txVars, rxVars, call, moved, data, ret, written,
                 sent>>

WriteCopies ==
  /\ At("copy")
  /\ txBuf' = [i \in Index |-> IF i \in txIn..(txIn + chunk - 1)
                               THEN (written + (i - txIn)) % Labels ELSE txBuf[i]]
  /\ Goto("advance")
  /\ UNCHANGED <<enabled, txIn, txOut, rxVars, call, snap, chunk, moved, data,
                 ret, written, sent>>

WriteAdvances ==
  /\ At("advance")
  /\ txIn' = Plus(txIn, chunk) /\ moved' = moved + chunk
  /\ written' = (written + chunk) % Labels
  /\ snap' = 0 /\ chunk' = 0 /\ Goto("write")
  /\ UNCHANGED <<enabled, txBuf, txOut, rxVars, call, data, ret, sent>>

\* Mutant: the interrupt is enabled only if bytes are left.
KickEnables_IfFull == IF Left > 0 THEN {"WE"} ELSE {}

KickEnables == {"WE"}

\* irq_enable is changed, with interrupts disabled.
Kick ==
  /\ At("kick") /\ enabled' = enabled \cup KickEnables
  /\ Goto(IF Left > 0 /\ ~call.nonblock THEN "wait" ELSE "return")
  /\ UNCHANGED <<txVars, rxVars, call, snap, chunk, moved, data, ret, written,
                 sent>>

\* Mutant: the host is gone one second later.
Gone_Later == inactive > timeout

Gone == inactive >= timeout

\* The loop that waits for the interrupt routine ends.
WriteWaits ==
  /\ At("wait") /\ (snap # txOut \/ Gone)
  /\ Goto("waited")
  /\ UNCHANGED <<enabled, txVars, rxVars, call, snap, chunk, moved, data, ret,
                 written, sent>>

\* Any second without the host counts here, not timeout seconds of them.
WriteWaited ==
  /\ At("waited") /\ Goto(IF inactive # 0 THEN "return" ELSE "write")
  /\ UNCHANGED <<enabled, txVars, rxVars, call, snap, chunk, moved, data, ret,
                 written, sent>>

\* Mutant: bytes are found only before the end of the buffer.
Ready_Straight(in) == IF in >= rxOut THEN in - rxOut ELSE 0

\* The bytes that can be read before the end of the buffer.
Ready(in) == IF in >= rxOut THEN in - rxOut ELSE BufLen - rxOut

\* Mutant: a read that got all it asked for does not enable interrupts.
AfterRead_IfShort ==
  IF moved > 0 /\ Left > 0 THEN "enable"
  ELSE IF moved > 0 \/ Left = 0 \/ call.nonblock THEN "return" ELSE "waitread"

AfterRead ==
  IF moved > 0 THEN "enable"
  ELSE IF Left = 0 \/ call.nonblock THEN "return" ELSE "waitread"

\* altera_avalon_jtag_uart_read
ReadLooks ==
  /\ At("read")
  /\ snap' = rxIn /\ chunk' = Min2(Ready(rxIn), Left)
  /\ Goto(IF Left > 0 /\ Ready(rxIn) > 0 THEN "copyread" ELSE AfterRead)
  /\ UNCHANGED <<enabled, txVars, rxVars, call, moved, data, ret, written,
                 sent>>

ReadCopies ==
  /\ At("copyread")
  /\ data' = data \o [i \in 1..chunk |-> rxBuf[Plus(rxOut, i - 1)]]
  /\ Goto("advanceread")
  /\ UNCHANGED <<enabled, txVars, rxVars, call, snap, chunk, moved, ret,
                 written, sent>>

ReadAdvances ==
  /\ At("advanceread")
  /\ rxOut' = Plus(rxOut, chunk) /\ moved' = moved + chunk
  /\ snap' = 0 /\ chunk' = 0 /\ Goto("read")
  /\ UNCHANGED <<enabled, txVars, rxBuf, rxIn, call, data, ret, written, sent>>

ReadWaits ==
  /\ At("waitread") /\ (snap # rxIn \/ Gone)
  /\ Goto("waitedread")
  /\ UNCHANGED <<enabled, txVars, rxVars, call, snap, chunk, moved, data, ret,
                 written, sent>>

ReadWaited ==
  /\ At("waitedread") /\ Goto(IF snap = rxIn THEN "return" ELSE "read")
  /\ UNCHANGED <<enabled, txVars, rxVars, call, snap, chunk, moved, data, ret,
                 written, sent>>

\* There is room in the buffer again; interrupts are disabled meanwhile.
EnableRead ==
  /\ At("enable") /\ enabled' = enabled \cup {"RE"} /\ Goto("return")
  /\ UNCHANGED <<txVars, rxVars, call, snap, chunk, moved, data, ret, written,
                 sent>>

Result == IF moved > 0 THEN moved
          ELSE IF call.nonblock THEN EWOULDBLOCK ELSE EIO

Finish(r) ==
  /\ Goto("none") /\ ret' = r /\ call' = NoCall
  /\ moved' = 0 /\ data' = <<>> /\ snap' = 0 /\ chunk' = 0
  /\ UNCHANGED <<enabled, txVars, rxVars, written, sent>>

Return == At("return") /\ Finish(Result)

\* altera_avalon_jtag_uart_close waits for the buffer, not for the FIFO.
Close ==
  /\ At("close")
  /\ \/ (txOut = txIn \/ Gone) /\ Finish(0)
     \/ txOut # txIn /\ ~Gone /\ call.nonblock /\ Finish(EWOULDBLOCK)

Program ==
  \/ WriteLooks \/ WriteCopies \/ WriteAdvances \/ Kick
  \/ WriteWaits \/ WriteWaited
  \/ ReadLooks \/ ReadCopies \/ ReadAdvances \/ ReadWaits \/ ReadWaited
  \/ EnableRead \/ Return \/ Close

Next == \/ HostTakes \/ HostSends \/ HostPauses \/ Isr \/ Second
        \/ Begin \/ SetTimeout \/ Program

\* The processor goes on, and serves the timer's interrupt some time.
Spec == Init /\ [][Next]_vars /\ WF_vars(Program) /\ SF_vars(Isr) /\ SF_vars(Second)
-----------------------------------------------------------------------------
(* Properties. *)

TypeOK ==
  /\ use \in Uses
  /\ txFifo \in Seq(Label) /\ rxFifo \in Seq(Label)
  /\ Len(txFifo) <= Depth /\ Len(rxFifo) <= Depth
  /\ pause \in BOOLEAN /\ ac \in BOOLEAN
  /\ enabled \in SUBSET {"RE", "WE"}
  /\ txBuf \in [Index -> Label] /\ txIn \in Index /\ txOut \in Index
  /\ rxBuf \in [Index -> Label] /\ rxIn \in Index /\ rxOut \in Index
  /\ inactive \in 0..IntMax /\ timeout \in 2..(IntMax - 1)
  /\ isr \in {"none", "control", "read", "write"}
  /\ isrView \in [wi : BOOLEAN, space : 0..Depth, avail : BOOLEAN]
  /\ call \in Call \cup {NoCall}
  /\ snap \in Index /\ chunk \in Nat /\ moved \in Nat /\ data \in Seq(Label)
  /\ ret \in Int /\ written \in Label /\ sent \in Label

\* No byte waits in the transmit buffer with its interrupt off, unless the
\* write that put it there is still going to kick: the routine that finds the
\* buffer empty and the program that fills it never miss each other
\* (write.c:128-138, irq: "turn off the TX interrupt").
TransmitterAwake ==
  txOut # txIn => \/ "WE" \in enabled
                  \/ pc \in {"write", "copy", "advance", "kick"}

\* Only a read that returns bytes enables receive interrupts (read.c:188-195):
\* they are off only while there is a byte for it to return, or it has taken
\* one and is still going to enable them.  Otherwise nothing ever would.
ReceiverAwake ==
  "RE" \notin enabled => rxIn # rxOut \/ (call.fn = "read" /\ moved > 0)

\* A write whose bytes are being taken gives up only when the host has been
\* inactive for as long as it takes to be "assumed inactive" (jtag_uart.h:96):
\* what it then reports is "Host not connected" (write.c:214).
GivesUpIfGone ==
  [][(pc = "waited" /\ pc' = "return" /\ snap # txOut) => Gone]_vars

\* The bytes of a ring buffer.
Contents(buf, out, in) ==
  [i \in 1..Used(in, out) |-> buf[Plus(out, i - 1)]]

\* The two queues of the console, each a FIFO and a ring buffer.
Stream ==
  INSTANCE ByteStream
    WITH Capacity <- Depth + BufLen - 1,
         Counts <- Nat,
         out <- txFifo \o Contents(txBuf, txOut, txIn),
         in <- Contents(rxBuf, rxOut, rxIn) \o rxFifo,
         data <- SubSeq(data, 1, IF call.fn = "read" THEN moved ELSE Len(data))

Implements == Stream!Spec

\* A write or a close ends if the host takes what is in the FIFO, and also if
\* it falls silent for good, unless the timeout has been set to never.
HostReads == WF_vars(HostTakes)
HostGone == ~use.connected /\ <>[][~HostSends /\ ~HostPauses]_vars /\ <>[](timeout < IntMax - 1)

OutputEnds ==
  (HostReads \/ HostGone) =>
    (call.fn \in {"write", "close"} ~> call.fn = "none")

\* A host that takes bytes gets those in the buffer: it is empty again and
\* again, or goes on being emptied.
OutputArrives ==
  HostReads => ([]<>(txOut = txIn) \/ []<><<IsrWrites>>_vars)

\* A program that reads again and again gets what the host has sent, if the
\* host pauses: no byte is left behind in the FIFO with its interrupt off.
HostPolls == WF_vars(HostPauses)
ProgramReads == []<><<Begin /\ call'.fn = "read">>_vars

InputArrives ==
  (HostPolls /\ ProgramReads) =>
    ([]<>(rxIn = rxOut /\ rxFifo = <<>>) \/ []<><<ReadAdvances>>_vars)
=============================================================================
