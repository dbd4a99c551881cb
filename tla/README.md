# A TLA+ model of the SimuCam TR4 board

This directory holds TLA+ specifications, TLC models and TLAPS proofs for the
logic of the repository: the VHDL of the two Qsys components written for
this board (`rst_controller`, `Memory_Filler`), the C driver of the first, the
bit-banged I2C driver, the DDR3 tests and the main loop of the NIOS II program
`TR4_DDR3_MemTest`, and the two parts of its board support package that run
concurrently with it: the interrupt-driven console driver and the system clock
with its alarms. Everything else in `src/` is vendor IP, generated
interconnect, thin glue of the board support package, or copies of VHDL of
other SimuCam boards that no project file compiles.

Paths below are relative to `src/G3U_HW_V02_2GB/`.

## 1. Inventory

### Reset controller
`Hardware_Project/Avalon/RST_Controller/*`, driver
`Qsys_Project/software/TR4_DDR3_MemTest/driver/reset/reset.c`,
wiring `Hardware_Project/MebX_TopLevel.vhd:315-316,347-349`.

* State: the SimuCam reset register (control bit, counter clear bit, 30-bit
  timer), the device reset register (one bit), the edge detector
  (`s_simucam_reset_cmd_delayed`, `s_simucam_start`, `s_simucam_stop`), the
  watchdog (`s_simucam_reset`, `s_simucam_delay`, `s_reset_counter`), its
  output `simucam_reset_signal`, the counter of releases `s_reset_cnt`.
* Operations: out of power-up (or when `SW(0)` is pushed) the controller holds
  the system in reset for 100 ms, lets it run for 900 ms, and starts again,
  until software clears the control bit. The driver does that, and everything
  else, with a read, a change of one field and a write.
* Interaction: the output resets CPU, bus and all peripherals, **but not the
  controller**. Software is therefore cut off in the middle of anything and
  starts again from nothing, while the registers keep what it wrote.
* Hard: the release racing the timer; commands that become pulses two clocks
  after the write; writes that the slave performs twice; resets between the
  read and the write of a read-modify-write; a clear bit without reset value.
* Correct means: a released system runs; an unreleased one is restarted for
  ever, after the right number of clocks; no command is lost or taken twice;
  releases are counted once; the timer value survives every read-modify-write.

### Memory filler
`Hardware_Project/Avalon/Memory_Filler/*`: configuration slave, writer
controller, timeout (delay block) and Avalon bus master, wired together in
`mfil_memory_filler_top.vhd`. It is in the Qsys system, with a data master on
the DDR3 interconnect; the test program does not use it yet.

* State: the data registers and the start and reset pulses; the controller's
  state, address and word counters, error flag and the delay block's inputs;
  the delay block's divider and timer; the master's state and registered word.
* Operations: write a register, start, reset; then one word at a time is
  handed to the master, which presents it while the memory asks to wait.
* Interaction: controller and master by request / ready / done / abort,
  controller and delay block by trigger / clear / finished, all registered, so
  that everything arrives one clock later than it was decided.
* Hard: a reset or timeout in the middle of a word; a timeout left running; a
  master that is still busy when the next fill starts; the timeout and the
  end of the fill in neighbouring clocks; aligned and unaligned lengths;
  the last address; a memory that never answers.
* Correct means: a fill that ends without an error has written its range, in
  order, with its data, and nothing carried over from the fill before; a
  timeout strikes at its deadline; every fill ends.

### I2C master
`driver/i2c/i2c.c`: `i2c_start`, `i2c_stop`, `i2c_write`, `i2c_read`, and
`I2C_Write`, `I2C_Read`, `I2C_MultipleRead` made of them, on two PIO ports.

* State: the ports' data and direction registers; the byte, bit and result of the
  function in progress; on the other side the EEPROM's shift register,
  address pointer and cells.
* Interaction: two lines. SDA is driven by both ends and is only meaningful
  relative to SCL. The program reads the SPD bytes with one multiple read
  (`TEST_I2C`, `main.c:42`); the EEPROM test of `ddr3.c` uses the other two.
* Hard: a byte that is not acknowledged in the middle of a transfer; who drives SDA
  when the direction is turned around; the acknowledge of the last byte; a system reset in the middle
  of a transfer, which the EEPROM does not see.
* Correct means: a call returns the bytes of the EEPROM, or has stored its byte, or
  fails; the bus is released on every path; SDA moves only while SCL is
  low, start and stop excepted; after a reset driver and EEPROM get back in step.

### DDR3 tests and test program
`api_driver/ddr3/ddr3.c`, `mem_test.c`, `main.c`.

* State: the window register of the address span extender, the seed
  `uliInitialState` and the vector `xSZData`, all global and shared by the
  tests; the locals of the test in progress; `bLoop` and `bPass` of main. The module has 4 GB;
  the window shows one half, 2^31 bytes at address 0. There is no data cache.
* Operations: select a half; write it, with numbers of a xorshift generator
  seeded with the clock, or with a vector repeated; read it back and
  compare. main waits for a button and does so for both halves, once or for ever.
* Hard: the seed, the vector and the window a read test relies on belong to an earlier call;
  lengths of 2^31 bytes in signed integers; results that are overwritten or ignored; a
  loop whose end condition nothing changes; resets between writing and reading.
* Correct means: a good half never fails, in the orders of calls the tests allow, a test that returns TRUE has
  compared every word, and the defects the pattern is made for are found.

### Console driver
`Qsys_Project/software/TR4_DDR3_MemTest_bsp/drivers/src/altera_avalon_jtag_uart_*.c`, with the
registers and FIFOs of `MebX_Qsys_Project_jtag_uart.v`. It is what `printf` and `getc` of the test
program end in.

* State: a ring buffer for each direction, with an index for either end; `irq_enable`;
  `host_inactive` and `timeout`; the locals of the function the program is in; those of the
  interrupt routine; the core's FIFOs, its pause and activity bits.
* Operations: write, read, close, blocking or not, the ioctl that sets the timeout, the
  interrupt routine, and the alarm that once a second looks for the host.
* Interaction: program and interrupt routine share the rings without a lock, one as
  producer, the other as consumer, and both change the enable bits. The
  program waits for the routine by polling an index, and gives up when the alarm has counted enough.
* Hard: the routine between any two accesses of the program; the host, which may leave at any
  moment, between any two of either; the last byte before the buffer is full or wraps; a byte that arrives
  in the clock of a read; an interrupt turned off just when there is work for it.
* Correct means: no byte is lost, repeated or reordered; no interrupt stays off while
  something waits for it; every call ends, the host being there or not.

### System clock and alarms
`TR4_DDR3_MemTest_bsp/HAL/src/alt_tick.c`, `alt_alarm_start.c`, `HAL/inc/priv/alt_alarm.h`, `sys/alt_llist.h`.

* State: the tick counter, 32 bits wide; the list of registered alarms, each with its time and a
  flag for times after the counter's next wrap.
* Operations: start and stop an alarm; the tick, which walks the list and calls back.
* Interaction: the console driver's alarm comes from here; callbacks run in the timer's
  interrupt and may start and stop alarms themselves, in the middle of the walk.
* Hard: the wrap, 49 days after power-up; changes to the list under the walk.
* Correct means: a callback comes in its tick, not one earlier or later, and
  every registered alarm comes.

### Not modelled
The UniPHY DDR3 controller and its calibration sequencer, the NIOS II core, the
generated interconnect with its bridges, the rest of the HAL, flash scripts, and the VHDL
copies under `Qsys_Project/MebX_Qsys_Project/synthesis/submodules/` (`ftdi_*`,
`rmap_*`, `spw_*`, `sync_*`, ...) that belong to other boards: they are vendor code,
generated code, or not part of the build. What the models need of them is a
nondeterministic environment: a memory that may ask to wait for any time, a
CPU that may take any time between two instructions.

The calibration sequencer alone is 33000 of the 52000 lines of C in the repository: one vendor file of 10885
lines, generated three times, that finds delay settings by trial and error on the analog timing
of a memory bus. A discrete model of it would have to make up the very thing it measures.
The largest of the other files, `system.h`, is a generated table of addresses.

Of the HAL, `open`, `read`, `write`, `ioctl` and the file descriptor table only
pass calls on to the driver (`alt_fd_*`, `altera_avalon_jtag_uart_fd.c`), and nothing in the program opens or
closes a descriptor after start-up.

Of `ddr3.c`, `bDdr3EepromTest` and `bDdr3EepromDump` are not modelled: they are straight-line calls of
`I2C_Read`, `I2C_Write` and `I2C_MultipleRead`, each of which is an operation of `I2cDriver`, and nothing calls them.

## 2. Modules

| module | what it is |
| --- | --- |
| `ResetSupervisor` | abstract: armed / held, with fairness |
| `RstController` | controller, register slave and driver; refines `ResetSupervisor` |
| `RstController_proofs` | theorems about `RstController` |
| `FillJob` | abstract: a fill, its words, done or failed |
| `DelayBlock` | the timeout of the filler, one clock at a time |
| `DelayTiming` | the delay block under an arbitrary driver |
| `DelayTiming_proofs` | its length, proved |
| `AvalonWriter` | the bus master, one clock at a time |
| `MemoryFiller` | slave, controller, `DelayBlock`, `AvalonWriter`; refines `FillJob` |
| `MemoryFiller_proofs` | theorems about `MemoryFiller` |
| `EepromAccess` | abstract: a call on the EEPROM, its result, calls broken off by a reset |
| `SpdEeprom` | the EEPROM, a device outside the repository, one change of a line at a time |
| `I2cDriver` | `i2c.c`, one port access at a time, with `SpdEeprom`; refines `EepromAccess` |
| `I2cDriver_proofs` | theorems about `I2cDriver`, with the refinement |
| `Xorshift32` | the generator, on 32-bit words |
| `Ddr3Tests`, `MCDdr3Tests` | main and the random tests, on memories with defects; the defects TLC tries |
| `Ddr3Tests_proofs` | theorems about the generator and `Ddr3Tests` |
| `VectorTests` | the vector tests, with C's integer conversions |
| `VectorTests_proofs` | theorems about `VectorTests` |
| `ByteStream` | abstract: the console as two queues of bytes |
| `JtagUart`, `MCConsole` | console driver, interrupt routine, UART core and host; refines `ByteStream`; the ways of using it TLC tries |
| `JtagUart_proofs` | theorems about `JtagUart`, with the refinement |
| `SystemClock` | tick counter, alarms, walk and callbacks |
| `SystemClock_proofs` | theorems about `SystemClock` |

In the hardware modules (the first ten) **one step is one rising clock edge**: every component
computes its registers from the old values of all of them, so a clock is a
conjunction of one formula per VHDL process, and within a process one
disjunct per state. Where the VHDL assigns a signal more than once, the last
assignment wins (`Expire` after `Commands`; `Enter` after the state's own
choice). Only the asynchronous resets (`PushReset`, `SystemReset`) are steps of
their own. Mutated copies of definitions (`X_SomeBug`, above `X`) are plausible
bugs used to test that the properties can fail; no other definition uses them.

### `RstController`
`reg`, `rs232` are the registers; `delayed`, `start`, `stop`, `active`, `delay`,
`counter`, `signal`, `cnt` the signals of `p_simucam_reset`; `ack`, `readdata` the
registered outputs of the slave; `bus`, `call`, `data` the access the CPU
presents, the driver function in progress and its local `uliReg`. The fields
of a 32-bit word are a record. `releases` and `since` are history: they do not
influence anything. The CPU calls any driver function that changes a register,
at any time, in any order, any number of times: main's own call
(`main.c:203`) is one of these behaviours.

Software writes whenever it likes. `late` is history: a release was put on the bus in the
running phase with fewer than `Slack` clocks of it left. The
properties about released systems (`ReleasedIsRunning`, the refinement) are claimed up to
the first late release, all others always; so one run has both. 4 is exact: it is what the bus write, the edge
detector, the pulse and the counter need, and with 3 TLC finds a counterexample to
`ReleasedIsRunning`.

Accesses have at least one idle clock between them (`BusFree`): the program is
built with -O0, and the bridge to the 50 MHz domain adds more. The device
reset register has one bit in the hardware, so the masks of the driver are that bit.

### `MemoryFiller`
`regs`, `wrStart`, `wrReset`, `gap` are the configuration slave, which performs one
write in three clocks at most; `cstate` ... `delay` the controller; `idle` ...
`finished` the delay block, `wstate` and `word` the master. Registered outputs that
are functions of the new state (busy, request, abort, ready, done) are written as
functions of the state; those that mix the new state with old values (`errOut`,
`request`) are variables. `job`, `accepted`, `age` are history. The eight dwords of the
data value are one value, the two of the address one address.

The environment: the memory asks to wait or not on every clock; the software
writes any register at any time, or, when `polite`, only while the filler is not
busy, which is what polling the busy register gives. `polite` is chosen from `Manners` at the
start and never changes: the properties that need polite software have it as a
hypothesis, and one run tries both kinds.

### `I2cDriver` and `SpdEeprom`
A function of the API is the list of the `i2c_*` calls it makes (`Body`); those after a
byte that was not acknowledged are skipped (`ifOk`), the stop never is. An
`i2c_*` function is a list of port accesses (`Lines`) with one loop over the bits of a byte
(`LoopFirst`, `LoopLast`). A step is one access to a port, as an `IOWR` or `IORD` is: between any two the
board may be reset (`Reset`): the ports then go back to their reset values (SCL low, SDA an input,
`system.h`), SCL first, and the EEPROM goes on where it is. `usleep` only makes the
accesses slow and is left out; so is printing.

`Sda` is the line: pulled up, low if either end holds it low. The EEPROM reacts to
starts, stops and edges of SCL, acknowledges or, with `MayNack`, does not, and
stores what was written at the stop. The module is external: it is how `i2c.c` uses it, with the
addressing of an SPD EEPROM. Both ends driving SDA against each other is a `NoFight` violation
only while SCL is high; the turn-around of the direction while SCL is low is what the protocol leaves it for.

`EepromAccess` is what callers rely on. After a reset has broken a call off its promise
is a weaker one, because the EEPROM may take the first bytes of the next call for data or send into them.

### `Xorshift32`, `Ddr3Tests`
A word is the set of the positions of its ones, so exclusive or is `#` of two Booleans and
the shifts drop bits by themselves. `test` says what the program is doing,
a step of a test is one word written or compared. The defect of the memory is fixed in a behaviour: the
cell that each address reaches, and bits stuck at one or zero; a read delivers what that makes of the
cell. `Reset` may come at any step and clears what the program's start clears; the cells
survive it or not. `written` is history. Progress printing, the time
measurement and the switch's default case (main passes the two IDs only) are left out;
the SPD read is a step without effect (see `I2cDriver`).

### `VectorTests`
The loops of `bDdr3MemoryWriteTest`, `bDdr3MemoryReadTest` and `TMEM_Verify`, one chunk
at a time. They have one text, up to names and the vector: the write and read tests share the global
`xSZData` (256 words), for both halves; `TMEM_Verify` fills a vector of its own on its stack (`szData`, 257 words), and is the two loops one
after the other (`verify`) on the half in the window. A write test takes a new vector from the clock.
`Unsigned` and `Signed` are the conversions C makes where an
`int` meets an `alt_u32`, for an `int` of `-Limit .. Limit - 1`: 2^31 on the board. `memcpy` takes its length as
an unsigned number and copies anything behind the end of the vector. The vectors' words are arbitrary, which
includes the multiples of 13 and the four constants of the code. The memory may change a word between writing and reading
(`Decay`). The test calls come in any order. `holds` is history: which of the two vectors, as it is now, each half was filled with.
It is what `NoFalseAlarm` depends on: writing both halves and then reading the first, or a `TMEM_Verify` between
a write and a read, makes a good memory fail, in the code and in the model.

### `JtagUart` and `ByteStream`
One step is one access to a variable that program and interrupt routine share, or to a register; the copy of
a chunk of bytes is one step, because the other side does not look at those bytes until the index has
moved (that it does not is what the refinement shows). The routine runs only when its interrupt is
pending, and the program only while the routine does not: one processor. The host, the core's FIFOs and the
activity bit move at any time. Names of the model's variables are those of `altera_avalon_jtag_uart_state` without
their prefixes; `enabled` is `irq_enable` and the core's copy of it, which the code changes together with
interrupts disabled. `pc` names the places of the three functions: `write` and `read` look at the
indices, `copy` and `advance` move a chunk, `kick` enables the interrupt, `wait` and
`waited` are the polling loop and the test behind it.

Bytes are numbers, counted by the histories `written` and `sent` modulo `Labels`, so that a byte in
the wrong place shows. `use` says what program and host do in a behaviour; it does not change.
`IsrMissesByte` is a race in the core: a byte that arrives in the clock of the read makes RVALID zero and
RAVAIL one, so the routine turns receive interrupts off (`altera_avalon_jtag_uart_init.c:156`) though the ring has room, and the byte stays in
the FIFO. The driver is built without an operating system (no `ALT_SEMAPHORE`), and not in small mode.
`ByteStream` knows neither rings nor interrupts: a write appends pieces to one queue, a read
takes pieces of the other, and a call returns what it moved. The mapping hides what a read has copied but
not yet taken.

### `SystemClock`
A step is one alarm visited by the walk, a tick, or one call. The list's order is left out: a walk visits
what was registered when it began, in any order, which includes the order of the list; an alarm started by
a callback goes to the head, behind the walk. `left` is history: the ticks until each alarm is due, counted
without wrapping. A callback runs while its alarm is the one the walk is at (`StartInWalk`, `StopInWalk`); it may start alarms that are
not registered, of any interval, and stop any other, which the walk then will not come to. What the code cannot take is not offered:
starting an alarm twice, stopping the one the walk comes to next, and an interval of 2^32 - 1. A start with 0 ticks is due at the next tick.

`AlarmComes` is about calls and not about the history: a registered alarm is called, later and later again, unless it leaves the
list. An alarm whose flag is never cleared would be passed at every tick and never be called.

## 3. Runs

| run | module, configuration | shows |
| --- | --- | --- |
| `rst` | `RstController`, `Rst.cfg` | `ArmedAsCommanded`, `TimerKept`, `CountsReleases`, `PhaseLengths`, `UnreleasedIsReset`; up to a late release `ReleasedIsRunning` and the refinement of `ResetSupervisor` with its liveness |
| `rst_race` | `RstRace.cfg` | **violation** of `ReleaseEndsReset` |
| `filler` | `MemoryFiller`, `Filler.cfg` | `FillCovers`, `AddressInOrder`, `NeverWaitsForNothing`; for polite software `DataInOrder`, `StartsFresh`, `IdleUntilStart`, `TimeoutOnTime`, the refinement of `FillJob`; `FillEnds` if the memory takes every word in the end, `TimeoutEnds` even if it does not |
| `filler_exact` | `FillerExact.cfg` | **violation** of `FillExact` |
| `filler_stale` | `FillerStale.cfg` | **violation** of `IdleUntilStarted` |
| `i2c` | `I2cDriver`, `I2c.cfg` | `BusReleased`, `NoFight`, `AckMeansTaken`, `LineDiscipline`, `BackInStep`, the refinement of `EepromAccess` |
| `ddr3_tests` | `MCDdr3Tests`, `Ddr3Tests.cfg` | `NoFalseAlarm`, `ResultExact`, `AliasFound`, `ContinuedTest` |
| `vector_short` | `VectorTests`, `VectorShort.cfg` | `WriteCovers`, `StaysInside`, `NoFalseAlarm`, `TrueMeansVerified`, `TestsEnd` |
| `vector_long` | `VectorLong.cfg` | **violation** of `TrueMeansVerified` |
| `console` | `MCConsole`, `Console.cfg` | `TransmitterAwake`, `ReceiverAwake`, the refinement of `ByteStream`; `OutputEnds`, `OutputArrives`, `InputArrives` |
| `console_gone` | `ConsoleGone.cfg` | **violation** of `GivesUpIfGone` |
| `clock` | `SystemClock`, `Clock.cfg` | `OnTime`, `AlarmComes` |

`DelayTiming` has no run of its own: that the delay block is exact is proved for every length,
and `TimeoutOnTime` of the filler checks it in its place.

### Bounds
Reset controller: phases of 2 and 11 clocks instead of 5 and 45 million. The longest
driver call takes fewer clocks than the running phase, so every access can fall
before, in and after every edge of the timer; a driver call that starts
in one running phase and is cut off by the next reset occurs, and so does a release
followed by a hold followed by a release. `CountMod = 3` lets the counter wrap;
one push of the switch can come at any clock. `SinceMax` caps the history clock above every value the
properties compare it with.

Memory filler: words of 2 bytes, 3 word addresses with a base at the last of them (the
address wraps in a fill), lengths of zero, unaligned and aligned (one to three
words), timeouts off or long enough to strike in each state of the second word,
ticks of 3 clocks. A fill takes at least 4 clocks a word and at most as long as
the memory likes. `Deadline + 2` caps the history clock `age`.

I2C: bytes of 8 bits, as on the bus; an EEPROM of 2 bytes, of which calls
use the second so that a wrong address shows; values with no, some and all bits set; multiple reads of 1
byte (no acknowledge at all) and 3 (past the end of the EEPROM); every byte
acknowledged or not; one reset, at any port access. A second reset would find the
EEPROM in one of the states in which the first can leave it.

DDR3 tests: halves of 3 words; the clock at 0, 1 and 10; the real 32-bit generator;
no defect, two crossed addresses, an upper half that is the lower one, a dead word, a stuck
bit, no upper half; one reset. Every defect is met by every test, and a reset falls
before, in and after each. The proofs are for any size and any defect.

Vector tests: two halves of 5 words of 4 bytes, a global vector of 2 words and a local one of 3, so that the loops of both
end in a shorter chunk, and an `int` of 6 bits (`Limit` 32). Two halves and two vectors are enough for each to be written between a write
and a read of the other. In `vector_long` a half has as many bytes as `Limit`, as the half of the board has.

Console: rings of 4 bytes, so that a full one holds 3 and calls of 4, 3, 2 and 1 bytes fill it, wrap in
the middle of a chunk and end in front of the wrap; FIFOs of 2 that interrupt when empty or full (`Near`
0); a timeout of 2 seconds, changed to "never" by an ioctl; bytes numbered modulo 6, more than a ring and a FIFO hold. Three ways of use
(`MCConsole`): a program that prints, without end, to a host that may leave; one that reads 4 bytes in calls that block and that do not;
one that does both without blocking, so that the two directions change the enable bits around each other. Without the split the product of both
directions is too large, and they share only the enable bits, the host's activity and the program.

System clock: a counter of 5 values, intervals of 0, 1 and 3 (the longest that is
allowed) ticks, so that an alarm is started before every wrap and due after it; three alarms, the fewest with which a
callback can stop one that the walk has not come to and that is not the next. Alarms do not know of each other beyond that.

### Fairness
In the hardware modules `Spec` has only weak fairness of `Clock`: the clock does not stop. For
`UnreleasedIsReset`, `TimeoutEnds` and the refinement of the supervisor's
liveness nothing else is needed, since a clock step is deterministic except for what the environment
does. `FillEnds` has
`MemoryIsFair` as its hypothesis: a memory that is presented a word takes it at some time. The Avalon slave is the DDR3
controller, which refreshes but does not starve a master.

The programs have weak fairness of their own steps: a CPU that is not reset goes on.
Nobody has to press a button or call a test. `BusySpec` of `I2cDriver` adds that software goes on calling,
as the continued test does; without calls nothing could get back in step. `BackInStep`
supposes that from some time on the EEPROM acknowledges what is addressed to it.

The console has weak fairness of the program's steps, and strong fairness of the interrupt routine
and of the alarm's second: either may be kept off by the other, but not for ever. That the host takes bytes,
or falls silent for good (`HostReads`, `HostGone`), that it pauses and that the program reads again and
again are hypotheses of the properties that need them. `SystemClock` has weak fairness of the tick and of the walk.

## 4. Findings

* **A release can stop the system in reset** (`rst_race`). The phase timer is
  handled after the commands and with the old value of `s_simucam_reset`
  (`rst_controller_top.vhd:137`): if it expires in the clock the stop pulse is
  taken, the output rises (line 153) and the watchdog stops. Only `SW(0)` helps.
  The window is a few clocks in 900 ms; `ReleaseIsSafe` says exactly how
  early a release has to be.
* **Aligned fills write one word too many** (`filler_exact`). The condition of
  `mfil_avm_writer_controller_ent.vhd:117` reads the counter before the
  assignment two lines above it, so the decrement never happens.
* **A cancelled fill's timeout comes later** (`filler_stale`, software that is not polite). The reset goes to
  IDLE without clearing the delay block; the idle filler (or the next fill)
  is then moved to FINISHED with an error.
* **The vector read test compares nothing** (`vector_long`). Both halves have 2^31 bytes, and
  `iNRemainedLen` is an `int` (`ddr3.c:625`): it becomes INT_MIN, the number of words to compare negative,
  and the test returns TRUE. The write test (`ddr3.c:507-512`) calls `memcpy` with a length of 2^31 on a
  vector of 1 KB. Neither is called by `main`; `TMEM_Verify`, whose call is
  commented out, has the same lines, but would be given 2^30 bytes. The `_proofs` module shows that the loops are right
  for every length below 2^31. The read test also fails a good memory after a write test of the other half, or after `TMEM_Verify`
  (section 2); no comment says in which order the tests are to be called.
* **A waiting write gives up after one second of silence** (`console_gone`). The loop around the wait is left when
  `host_inactive` is not zero (`altera_avalon_jtag_uart_write.c:187`), also when the wait ended because the interrupt routine took bytes.
  With a host that has been silent for a second while its FIFO still has room, a write of more than the buffer holds returns short, long before the timeout
  of 10 seconds. `printf` then writes the rest with its next call; a caller that does not look at the result loses it.

Other places a maintainer should know of are in `PROJECT.json` under `hazards`. Not listed there, because no
behaviour of this build shows them: back-to-back accesses, which both slaves acknowledge but do not perform;
fields of the console driver that are not `volatile`, in an optimising build; ticks lost while interrupts
are disabled for longer than a tick; a read of no bytes from the EEPROM, which would wrap the counter of
`I2C_MultipleRead`; FINISHED of the filler, in which a start is not heard until a reset is written; and that both halves are each written
and read before the other (`main.c:258`), so an upper half that is the lower one again passes.

## 5. Proofs

tlapm checks every leaf; the "isabelle-process not found" message of the tool
can be ignored, as no step uses Isabelle.

`RstController_proofs` proves, from `ConstantsAssumption` alone, for every length of the phases,
every counter width and every number of switch pushes:

* `TypeCorrect`: `Spec => []TypeOK`. `TypeInv` adds that a bus access belongs to
  a driver function.
* `CountCorrect`: `Spec => []CountsReleases`.
* `CommandsNotLost`: `Spec => [](ArmedAsCommanded /\ TimerKept)`. The inductive
  invariant `CommandInv` says what the edge detector and the pulses can be
  in relation to the control bit, and that the data of a read-modify-write
  carries the timer value from the read to the write.
* `TimerIsKept`: `Spec => []TimerKept`, a corollary.
* `PhasesLast`: `Spec => PhaseLengths`. The clocks behind a phase and those left on the counter add up
  (`RunTimes`, `HeldTimes`), whatever is written meanwhile. It needs `CommandInv`: a start pulse taken while the
  watchdog counts would change the phase its counter belongs to, and no command still on its way when the system is reset is a hold.
* `ReleaseIsSafe`: with `Slack >= 4` and `RunTime >= 4`, `Spec => []ReleasedIsRunning`. The
  strengthening `ReleaseInv` gives a margin: how many clocks of the running phase are
  left at each stage between the CPU's write and the stop pulse being taken (`Margin`), which every
  clock uses up by one.
* `ImplementsSupervisor`: under the assumptions of `ReleaseIsSafe` every step is a step of
  the supervisor or a stutter.

`DelayTiming_proofs` proves `DelayExact` for every divider and every delay:
the elapsed time is always the ticks taken off the timer, times the length of a
tick, plus the position of the divider.

`MemoryFiller_proofs` proves, from `ConstantsAssumption` alone, so for every word size, address
space, set of register contents and tick length, for polite and for rude
software, and with resets of the system at any clock:

* `FillerTypeCorrect`: `Spec => []TypeOK`, one lemma per component.
* `HandshakeCorrect`: `Spec => []NeverWaitsForNothing`.
* `AddressesInOrder`: `Spec => []AddressInOrder`.
* `FillIsCovered`: `Spec => []FillCovers`.

They share the inductive invariant `FillInv`. Its part `Filling` says, for each
pair of states of controller and master that can occur together, that the words taken and the
word counter add up to the words of the fill, and that the address counter is
the address of the next word to be taken, modulo the size of the address space. Its part `Pulses` says that start
and reset pulses are three clocks apart at least, which is why the word
counter is zero whenever a start is seen: without it the length of a fill could depend
on the fill before it. The division and the wrap-around are the lemmas
`DivBounds`, `AddrRange` and `WrapAround`.

For software that leaves the registers alone during a fill (`polite`; the runs `filler_exact` and `filler_stale`
show what the other kind can get) it proves:

* `DataStays`: `Spec => []DataInOrder`.
* `FillsStartFresh`: `Spec => []StartsFresh`.
* `IdleIsKept`: `Spec => IdleUntilStart`.
* `TimeoutsOnTime`: `Spec => TimeoutOnTime`.
* `FillerImplementsJob`: `Spec => Implements`, the whole refinement of `FillJob`.

These need the stronger `PoliteInv`, which adds `Orderly`: that no start or reset pulse is on its way during a fill
(`Commands`), that the registers still hold what the fill was started with (`Registered`), that the bus
is free again before the software can see that a fill has ended (`Freed`), that divider and timer of the delay block add up with
the clocks since the start, `age`, to the deadline (`Timing`), and that the delay block is counting
only for a fill that has a timeout (`Watch`). Without `Timing` and `Watch` a timeout of the last fill could
strike in the next.

`I2cDriver_proofs` proves, for every EEPROM size, every set of calls, addresses, values and lengths, an EEPROM that
may leave any byte unacknowledged, and any number of resets between any two port accesses:

* `LineIsDisciplined`: `Spec => LineDiscipline`, for any number of bits in a byte.
* `I2cTypeCorrect`: `Spec => []TypeOK`.
* `BusIsReleased`, `NobodyFights`: `Spec => []BusReleased` and `[]NoFight`.
* `AcksAreTrue`: `Spec => AckMeansTaken`.
* `DriverKeepsPromise`: `Spec => Promise!SafeSpec`, the refinement of `EepromAccess` but for "every call returns".

All but the first are proved for `EightBits`, that is `Bits = 8`: the loops of `i2c_write` and `i2c_read` go over eight bits
(`i2c.c:217`, `i2c.c:257`), and the provers know powers of two only as
numbers. The invariants build on each other:

1. `PortInv`: where the program is (`Flow`), and what the last access left on the three port registers (`Ports`). The
   bodies of the three functions of the API are computed once (`Bodies`, `Kinds`, `Arguments`), with the n-th function
   of a read of any length, and what follows a byte that was or was not acknowledged is `NextFunction`.
2. `TypeInv` adds the types of driver and EEPROM.
3. `HearInv` adds `Listening`: when the EEPROM receives, also after a reset that left it in the middle of
   something, the driver is not reading a byte, and while it writes one bit `bit` is the next for both. It is needed after a reset
   too: it is why a reset followed by a read does not change the memory.
4. `SyncInv` adds, until the first reset, that the EEPROM is in the state the driver takes it to be in (`Sync`).
5. `DataInv` adds what is on the way: the bytes stored so far are those of the EEPROM (`Got`), the address counter
   points at the next one (`PointerAt`), and `data` and `shift` are the two parts of the byte being
   passed (`ReadData`); and, resets included, how many bytes have been stored (`Lengths`).

Then nothing but the last access of `i2c_stop` returns from a call or changes the memory (`Returns`, `MemStays`), and
that access is `Succeed`, `Fail` or, after a reset, `ReturnAnything` (`ReturnRefines`).

`Ddr3Tests_proofs` first proves of the generator that it maps words to words, that it is injective (each of the three
statements can be undone, bit by bit; `XorshiftInjective`), and that zero is its fixed point. Then, for halves of any size, any set of defects, any
clock and any number of resets, it proves `TestsTypeCorrect`, `ResultIsExact`, `NoFalseAlarms`,
`DeadWordsFound` and `AliasesFound`. The inductive invariant `TestInv` says that the numbers written form a chain: each is the generator's
successor of the one before, the first that of the seed, and that both tests are at the place of the
chain their pointer says; so the read test compares each word with what the write test wrote
there. A dead word is found because a state that is not zero never has zero
as its successor (`XorshiftZero`, `XorshiftInjective`). `AliasesFound` is `Spec => []AliasFound` under `LongPeriod`: no word but zero
comes back to itself within as many numbers as a half has words. Then the numbers of a test are all different
(`AllDifferent`). A half has 2^29 words, and the period of these three shifts is 2^32 - 1: as a linear map of 32 bits the generator has
that order. This is arithmetic with a 32 by 32 matrix that the provers cannot do, so it is a hypothesis.

`VectorTests_proofs` proves under `Short` (fewer than 2^31 bytes; `VectorLong.cfg` shows that it is needed) all the
safety properties of `vector_short`, for any number of halves, every pair of vectors, word size and length, and every order of calls: `LoopsTypeCorrect`,
`WriteCoversMemory`, `WriteStaysInside`, `NoGoodMemoryFails`, `TrueIsVerified`. The
invariant `LoopInv` has the counts in bytes and in words agree, and every chunk but the last be a whole
vector, so that each chunk starts where the vector starts again (`Counted`, lemma `Chunk`), and the words
passed hold the pattern (`Passed`); that a half that holds a vector still holds it whole (`WriteCovers`); and
that only a call of `TMEM_Verify` in progress has a local vector, in the half in the window (`Mine`, `LocalOK`): without it a half could hold a vector that
is gone.

`SystemClock_proofs` proves `TimesAreKept` and `CallbacksOnTime` for every width of the counter, every set of alarms
and intervals: `Spec => OnTime`. The inductive invariant relates, for every registered alarm, its `time`,
its flag and the counter to the ticks `left`: the time is the counter plus what is left, less one turn if the
flag is set, and the flag of an alarm the walk has not come to may still be that of the tick
before. It holds although callbacks stop alarms ahead of the walk, because a stopped one is dropped from the walk too. This is why the flag must not be cleared before the counter has wrapped.

`JtagUart_proofs` proves, from `ConstantsAssumption` alone, so for rings and FIFOs of any length, any calls, timeouts and
hosts:

* `TypeCorrect`: `Spec => []TypeOK`.
* `NothingWaitsUnsent`, `NothingWaitsUnread`: `Spec => []TransmitterAwake` and `[]ReceiverAwake`. The invariant `Inv` adds where
  receive interrupts may be off (`AwakeOK`), and that the routine, once called, reads a byte before it can
  miss one (`PauseOK`, `ReadOK`): if it could miss the first, it would turn the interrupt off with nothing in the ring,
  and no read would turn it on again.
* `ImplementsByteStream`: `Spec => Implements`. `RingInv` says that the chunk a write is
  copying fits behind the bytes of its ring, which the routine can only make fewer; that a read's chunk is in its ring, which
  the routine can only make more; and that the routine counts no more room in the FIFO than there is, so `PushData`
  never loses a byte. The lemmas `Consume`, `Extend` and `Outside` say what moving either index and writing
  outside the ring do to its contents as a sequence, wherever it wraps; then every step is one of `ByteStream`'s or none.

Only model-checked: liveness (`UnreleasedIsReset`, `FillEnds`, `TimeoutEnds`, `BackInStep`, `ContinuedTest`, `TestsEnd`,
`OutputEnds`, `OutputArrives`, `InputArrives`, `AlarmComes`, the fairness part of `ResetSupervisor`, and that
every call of `EepromAccess` returns), which the proof system does not handle. No module uses a RECURSIVE operator.

## 6. Plan

1. Done: reset controller, memory filler, I2C driver, DDR3 tests, vector tests, console driver and system clock, with the
   proofs above.
2. `bDdr3EepromTest` over `EepromAccess`: whether a failed read step can be forgotten (`ddr3.c:107`), and what a reset
   leaves in byte 128.
3. `RstController` and `MemoryFiller` with back-to-back accesses, which an
   optimising build or another master could make.
