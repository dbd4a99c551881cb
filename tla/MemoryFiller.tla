---------------------------- MODULE MemoryFiller ----------------------------
(***************************************************************************)
(* The memory filler (Memory_Filler/*.vhd): software writes a base         *)
(* address, a length, a data word and a timeout to its registers, and      *)
(* starts it; it writes the data word to every memory word of the range.   *)
(*                                                                         *)
(* The module composes the configuration slave, the writer controller,     *)
(* the controller's timeout (DelayBlock) and the bus master                *)
(* (AvalonWriter).  One Clock step is one rising edge of clock_sink_clk    *)
(* for all of them.  The memory and the software are external: the memory  *)
(* may ask to wait on any clock, the software may write any register.      *)
(***************************************************************************)
EXTENDS Naturals

CONSTANTS
  WordBytes,   \* bytes of a memory word: 32
  MaxAddr,     \* last word address: 2^59 - 1
  Bases,       \* byte addresses the software fills from
  Lengths,     \* lengths in bytes it asks for
  Data,        \* values of the data register; 0 is its reset value
  Timeouts,    \* timeouts it asks for; 0 is no timeout
  ClkDiv,      \* clocks of a timeout tick, less one: 49999
  Manners      \* whether software is polite, see polite

ASSUME ConstantsAssumption ==
  /\ WordBytes \in Nat \ {0} /\ MaxAddr \in Nat /\ ClkDiv \in Nat \ {0}
  /\ Bases \subseteq 0..(WordBytes * (MaxAddr + 1) - 1) /\ 0 \in Bases
  /\ Lengths \subseteq Nat /\ 0 \in Lengths
  /\ 0 \in Data
  /\ Timeouts \subseteq Nat /\ 0 \in Timeouts
  /\ Manners \subseteq BOOLEAN

VARIABLES
  polite,    \* the software writes nothing to a busy filler: never changes
  regs,      \* the data registers of the configuration slave
  wrStart,   \* wr_start, a pulse
  wrReset,   \* wr_reset, a pulse
  gap,       \* clocks until the slave can take another write
  cstate,    \* s_mfil_avm_writer_controller_state
  addrCnt,   \* s_wr_addr_cnt
  dataCnt,   \* s_wr_data_cnt
  timeoutError,  \* s_wr_timeout_error
  errOut,    \* controller_wr_timeout_err_o
  request,   \* the address and data given to the bus master
  delay,     \* s_timeout_delay_clear, _trigger and _timer
  idle, divcnt, divevt, timer, finished,   \* the delay block
  wstate, word,                            \* the bus master
  job,       \* history: the registers when the fill was started
  accepted,  \* history: words the memory took for it
  age        \* history: clocks since it was started, if it has a timeout

slaveVars  == <<polite, regs, wrStart, wrReset, gap>>
ctrlVars   == <<cstate, addrCnt, dataCnt, timeoutError, errOut, request, delay>>
delayVars  == <<idle, divcnt, divevt, timer, finished>>
writerVars == <<wstate, word>>
histVars   == <<job, accepted, age>>
vars == <<slaveVars, ctrlVars, delayVars, writerVars, histVars>>

Word   == [addr : 0..MaxAddr, data : Data]
NoWord == [addr |-> 0, data |-> 0]
Registers == [base : Bases, length : Lengths, data : Data, timeout : Timeouts]
NoRegisters == [base |-> 0, length |-> 0, data |-> 0, timeout |-> 0]

Delay  == INSTANCE DelayBlock
Writer == INSTANCE AvalonWriter

States == {"IDLE", "BUFFER_WAITING", "BUFFER_FETCH", "WRITE_START",
           "WRITE_WAITING", "FINISHED"}

\* controller_wr_busy_o, registered with the state.
Busy == cstate \notin {"IDLE", "FINISHED"}

\* A timeout of t ticks, in clocks, and the age at which it is noticed.
TimeoutClocks(t) == t * (ClkDiv + 1)
Deadline == TimeoutClocks(job.timeout) + 1

TypeOK ==
  /\ polite \in Manners
  /\ regs \in Registers /\ wrStart \in BOOLEAN /\ wrReset \in BOOLEAN
  /\ gap \in 0..2
  /\ cstate \in States
  /\ addrCnt \in 0..MaxAddr /\ dataCnt \in Nat
  /\ timeoutError \in BOOLEAN /\ errOut \in BOOLEAN
  /\ request \in Word
  /\ delay \in [clear : BOOLEAN, trigger : BOOLEAN, timer : Timeouts]
  /\ idle \in BOOLEAN /\ divcnt \in 0..ClkDiv /\ divevt \in BOOLEAN
  /\ timer \in Nat /\ finished \in BOOLEAN
  /\ wstate \in Writer!WriterStates /\ word \in Word
  /\ job \in Registers /\ accepted \in Nat /\ age \in Nat

Init ==
  /\ polite \in Manners
  /\ regs = NoRegisters /\ wrStart = FALSE /\ wrReset = FALSE /\ gap = 0
  /\ cstate = "IDLE" /\ addrCnt = 0 /\ dataCnt = 0
  /\ timeoutError = FALSE /\ errOut = FALSE /\ request = NoWord
  /\ delay = [clear |-> FALSE, trigger |-> FALSE, timer |-> 0]
  /\ Delay!Init /\ Writer!Init
  /\ job = NoRegisters /\ accepted = 0 /\ age = 0

\* The board's reset controller resets the filler, in the middle of
\* anything.
SystemReset ==
  /\ regs' = NoRegisters /\ wrStart' = FALSE /\ wrReset' = FALSE /\ gap' = 0
  /\ cstate' = "IDLE" /\ addrCnt' = 0 /\ dataCnt' = 0
  /\ timeoutError' = FALSE /\ errOut' = FALSE /\ request' = NoWord
  /\ delay' = [clear |-> FALSE, trigger |-> FALSE, timer |-> 0]
  /\ idle' = TRUE /\ divcnt' = 0 /\ divevt' = FALSE /\ timer' = 0
  /\ finished' = FALSE /\ wstate' = "IDLE" /\ word' = NoWord
  /\ job' = NoRegisters /\ accepted' = 0 /\ age' = 0 /\ UNCHANGED polite
-----------------------------------------------------------------------------
(* The configuration slave.  A write is performed on its first clock and   *)
(* acknowledged on the second; a write presented on the third would be     *)
(* acknowledged and lost, so software that executes other instructions in  *)
(* between performs one at most every third clock.                         *)

MayWrite == gap = 0 /\ (polite => ~Busy /\ ~wrStart)

WriteData ==
  /\ MayWrite /\ gap' = 2
  /\ \/ \E b \in Bases : regs' = [regs EXCEPT !.base = b]
     \/ \E n \in Lengths : regs' = [regs EXCEPT !.length = n]
     \/ \E d \in Data : regs' = [regs EXCEPT !.data = d]
     \/ \E t \in Timeouts : regs' = [regs EXCEPT !.timeout = t]
  /\ wrStart' = FALSE /\ wrReset' = FALSE

WriteStart ==
  /\ MayWrite /\ gap' = 2
  /\ wrStart' = TRUE /\ wrReset' = FALSE /\ UNCHANGED regs

WriteReset ==
  /\ MayWrite /\ gap' = 2
  /\ wrStart' = FALSE /\ wrReset' = TRUE /\ UNCHANGED regs

\* p_control_triggers: start and reset are pulses.
NoWrite ==
  /\ gap' = IF gap = 0 THEN 0 ELSE gap - 1
  /\ wrStart' = FALSE /\ wrReset' = FALSE /\ UNCHANGED regs

Slave ==
  /\ WriteData \/ WriteStart \/ WriteReset \/ NoWrite
  /\ UNCHANGED polite
-----------------------------------------------------------------------------
(* The writer controller.                                                  *)

\* After its case statement the process looks at the reset pulse, and then
\* at the end of the timeout: they override the next state.
Enter(s) ==
  /\ cstate' = IF wrReset THEN "IDLE" ELSE IF finished THEN "FINISHED" ELSE s

SetError(e) == timeoutError' = (e \/ (finished /\ ~wrReset))

\* Mutant: an unaligned length is rounded down.
StartCount_RoundedDown(length) ==
  IF length \div WordBytes = 0 THEN 0 ELSE length \div WordBytes - 1

\* The words of a fill, less one.  The code means to take one from an
\* aligned length "that is not already zero", but it looks at the counter,
\* not at the length.
StartCount(length) ==
  IF length % WordBytes = 0 /\ dataCnt # 0
  THEN dataCnt - 1
  ELSE length \div WordBytes

\* Mutant: the delay block is given its time, but no trigger.
StartJob_NotTriggered ==
  /\ addrCnt' = regs.base \div WordBytes
  /\ dataCnt' = StartCount(regs.length)
  /\ delay' = [clear |-> FALSE, trigger |-> FALSE, timer |-> regs.timeout]
  /\ Enter("BUFFER_WAITING")

StartJob ==
  /\ addrCnt' = regs.base \div WordBytes
  /\ dataCnt' = StartCount(regs.length)
  /\ delay' = [clear |-> FALSE, trigger |-> regs.timeout # 0,
               timer |-> regs.timeout]
  /\ Enter("BUFFER_WAITING")

Idle ==
  /\ cstate = "IDLE"
  /\ IF wrStart
     THEN StartJob
     ELSE /\ addrCnt' = 0 /\ dataCnt' = 0
          /\ delay' = [clear |-> FALSE, trigger |-> FALSE, timer |-> 0]
          /\ Enter("IDLE")
  /\ SetError(FALSE)

\* Mutant: the word is requested whether the master is ready or not.
BufferWaiting_NotReady ==
  /\ cstate = "BUFFER_WAITING"
  /\ delay' = [delay EXCEPT !.trigger = FALSE]
  /\ Enter("BUFFER_FETCH")
  /\ SetError(timeoutError)
  /\ UNCHANGED <<addrCnt, dataCnt>>

BufferWaiting ==
  /\ cstate = "BUFFER_WAITING"
  /\ delay' = [delay EXCEPT !.trigger = FALSE]
  /\ Enter(IF Writer!Ready THEN "BUFFER_FETCH" ELSE "BUFFER_WAITING")
  /\ SetError(timeoutError)
  /\ UNCHANGED <<addrCnt, dataCnt>>

\* Mutant: the state that holds the request for one clock is skipped.
BufferFetch_NoRequest ==
  /\ cstate = "BUFFER_FETCH"
  /\ Enter("WRITE_WAITING") /\ SetError(timeoutError)
  /\ UNCHANGED <<addrCnt, dataCnt, delay>>

BufferFetch ==
  /\ cstate = "BUFFER_FETCH"
  /\ Enter("WRITE_START") /\ SetError(timeoutError)
  /\ UNCHANGED <<addrCnt, dataCnt, delay>>

WriteStartState ==
  /\ cstate = "WRITE_START"
  /\ Enter("WRITE_WAITING") /\ SetError(timeoutError)
  /\ UNCHANGED <<addrCnt, dataCnt, delay>>

NextAddr(a) == IF a = MaxAddr THEN 0 ELSE a + 1

\* Mutant: the last word is taken for one more.
WordDone_OneMore ==
  /\ addrCnt' = NextAddr(addrCnt)
  /\ IF dataCnt = 0
     THEN Enter("BUFFER_FETCH") /\ UNCHANGED dataCnt
     ELSE Enter("BUFFER_FETCH") /\ dataCnt' = dataCnt - 1

WordDone ==
  /\ addrCnt' = NextAddr(addrCnt)
  /\ IF dataCnt = 0
     THEN Enter("FINISHED") /\ UNCHANGED dataCnt
     ELSE /\ dataCnt' = dataCnt - 1
          /\ Enter(IF Writer!Ready THEN "BUFFER_FETCH" ELSE "BUFFER_WAITING")

WriteWaiting ==
  /\ cstate = "WRITE_WAITING"
  /\ IF Writer!Done
     THEN WordDone
     ELSE Enter("WRITE_WAITING") /\ UNCHANGED <<addrCnt, dataCnt>>
  /\ SetError(timeoutError) /\ UNCHANGED delay

\* Mutant: the timeout is left running.
Finished_TimeoutRuns ==
  /\ cstate = "FINISHED"
  /\ addrCnt' = 0 /\ dataCnt' = 0
  /\ delay' = [clear |-> FALSE, trigger |-> FALSE, timer |-> 0]
  /\ Enter("FINISHED") /\ SetError(timeoutError)

\* FINISHED lasts until the software writes the reset bit.
Finished ==
  /\ cstate = "FINISHED"
  /\ addrCnt' = 0 /\ dataCnt' = 0
  /\ delay' = [clear |-> TRUE, trigger |-> FALSE, timer |-> 0]
  /\ Enter("FINISHED") /\ SetError(timeoutError)

\* The outputs are computed from the state just entered, but from the old
\* values of the counters and of the error flag.
Outputs ==
  /\ errOut' = (cstate' = "FINISHED" /\ timeoutError)
  /\ request' = IF cstate' = "WRITE_START"
                THEN [addr |-> addrCnt, data |-> regs.data]
                ELSE NoWord

Controller ==
  /\ \/ Idle \/ BufferWaiting \/ BufferFetch
     \/ WriteStartState \/ WriteWaiting \/ Finished
  /\ Outputs
-----------------------------------------------------------------------------
Min2(a, b) == IF a <= b THEN a ELSE b

Started == cstate = "IDLE" /\ wrStart
Accept(wait) == Writer!Presenting /\ ~wait

\* A word the memory takes in WRITE_WAITING or FINISHED was presented for
\* the fill in progress.
History(wait) ==
  /\ job' = IF Started THEN regs ELSE job
  /\ accepted' = IF Started THEN 0
                 ELSE IF Accept(wait) /\ cstate \in {"WRITE_WAITING", "FINISHED"}
                 THEN accepted + 1 ELSE accepted
  /\ age' = IF Started \/ job.timeout = 0 THEN 0 ELSE Min2(age + 1, Deadline + 2)

\* One clock, in which the memory asks to wait or not.
Tick(wait) ==
  /\ Slave /\ Controller
  /\ Delay!Clock(delay.clear, delay.trigger, delay.timer)
  /\ Writer!Clock(cstate = "WRITE_START", cstate = "FINISHED", request, wait)
  /\ History(wait)

Clock == \E wait \in BOOLEAN : Tick(wait)

\* The clock in which the memory takes the word it is presented.
MemoryTakes == Writer!Presenting /\ Tick(FALSE)

Next == Clock \/ SystemReset

\* The clock does not stop.
Spec == Init /\ [][Next]_vars /\ WF_vars(Clock)

\* A memory that does not make the filler wait for ever.
MemoryIsFair == WF_vars(MemoryTakes)
-----------------------------------------------------------------------------
(* Properties. *)

\* A fill that ends without an error has written its range: every byte of
\* it, and at most one memory word more.
FillCovers ==
  (cstate = "FINISHED" /\ ~timeoutError) =>
    /\ accepted * WordBytes >= job.length
    /\ accepted * WordBytes <= job.length + WordBytes

\* ... and not a whole word more: "check if the write data length is aligned
\* to 32 bytes and is not already zero" (mfil_avm_writer_controller_ent.vhd:116).
FillExact ==
  (cstate = "FINISHED" /\ ~timeoutError /\ job.length # 0) =>
    (accepted - 1) * WordBytes < job.length

\* The words go out in order, each to the address after the last, whatever
\* the software does meanwhile to the registers, with starts and with resets.
AddressInOrder ==
  (cstate = "WRITE_WAITING" /\ Writer!Presenting) =>
    word.addr = (job.base \div WordBytes + accepted) % (MaxAddr + 1)

\* Software that leaves the registers alone gets one value in all of them.
DataInOrder ==
  (polite /\ Writer!Presenting /\ cstate = "WRITE_WAITING") =>
    word.data = job.data

\* Aborting the word that is waiting frees the bus before software that waits
\* for the end of a fill can start the next one: no word of the one is ever
\* written in the other.
StartsFresh == (polite /\ Started) => ~Writer!Presenting

\* The handshake of controller and master: the controller never waits for a
\* word that is not on the bus or just done.
NeverWaitsForNothing ==
  cstate = "WRITE_WAITING" => wstate \in {"WRITING", "WAITING", "DONE"}

\* An idle filler stays idle until it is started: no timeout of the fill
\* before makes it report an error.  True of polite software only.
LeavesIdle == cstate = "IDLE" /\ cstate' # "IDLE"

IdleUntilStart == [][polite /\ LeavesIdle => wrStart]_vars

\* "check if a write start was requested" is all that ends the idle state
\* (mfil_avm_writer_controller_ent.vhd:107).
IdleUntilStarted == [][LeavesIdle => wrStart]_vars

\* A timeout strikes at its deadline, not sooner and not later.
TimeoutOnTime ==
  [][polite =>
     /\ (~timeoutError /\ timeoutError') => age = Deadline
     /\ (Busy /\ job.timeout # 0) => age <= Deadline]_vars

\* A fill with a timeout ends though the memory hangs, and with any
\* sequence of register writes.
TimeoutEnds == (Busy /\ job.timeout # 0) ~> ~Busy

\* A fill without one ends if the memory takes its words.
FillEnds == MemoryIsFair => (Busy ~> ~Busy)

\* The abstract job.
Phase ==
  CASE cstate = "IDLE"     -> "idle"
    [] cstate = "FINISHED" -> IF timeoutError THEN "failed" ELSE "done"
    [] OTHER               -> "filling"

Words == job.length \div WordBytes + 1

\* The job is promised to polite software only.
Job == INSTANCE FillJob
         WITH phase <- IF polite THEN Phase ELSE "idle",
              total <- IF polite THEN Words ELSE 0,
              written <- IF polite THEN accepted ELSE 0

Implements == Job!Spec
=============================================================================
