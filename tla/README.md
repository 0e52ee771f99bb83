# Verification of linux_s3c2440_learn

The repository is a collection of programs for the S3C2440 (JZ2440) board: a
thread pool, Linux 2.6.22 drivers, bare-board programs, and debugging aids. The
programs do not call each other; each is a small concurrent system of its own:
threads, interrupt handlers, timers, processes in system calls and hardware
that answers late. This directory models them one by one.

## Inventory

Paths are under `src/`. "Hard" names what a test would hardly reach.

| component | state | operations | hard | correct when |
|---|---|---|---|---|
| Thread pool, `linuxSystemProgrome/code/thread_pool/threadpool.c` | job list, worker list, mutex, condition, a `terminate` flag per worker | create, push, worker loop, destroy | signals and sleepers, flags stored without the mutex, records freed by their threads, creation that fails half way | no job is lost or run twice, no sleeper next to an unmatched job, a destroy reaches every thread |
| Key drivers, `linux_driver/code/**/fifth,sixth,seventh_drv.c` | semaphore, registered interrupts, `ev_press`, `key_val`, timer, wait queue | open, read, poll, close, interrupt, timer | interrupts between any two statements, order of `up` and `free_irq`, a bouncing key, threads that share a file | one user at a time, who has his interrupts; the settled key is reported; nobody sleeps on an event |
| I2C controller and EEPROM, `bare_board/code/I2c/20200510_IIC/i2c` | current message, its counters, registers | write, read, transfer, interrupt | counting interrupts against bytes, acknowledge of the last byte, a busy chip, a loop on fields the handler sets | a call that returns 0 did what it says, every call returns with the bus free |
| Message buffer `/proc/mymsg`, `驱动程序的调试/code/my_proc_myprintk/mymsg.c` | ring, three indices, wait queue | myprintk, open, read | a writer that overtakes the reader, interrupts, bound of a read | the ring is the tail of the log, a reader gets it in order and complete |
| Touchscreen of the bare board, `bare_board/code/I2c/20200510_IIC/adc_touchscreen` | mode of `ADCTSC`, conversion, pending interrupts, sums of samples, timer, a slot with the last report | pen interrupt, ADC interrupt, timer, read, calibration | the pen moves inside a handler, interrupts cleared unseen, a report copied field by field | the driver never waits for an interrupt that cannot come, a reported release ends the average, the last report says where the pen is |
| Audio stream, `linux_driver/code/声卡驱动/s3c-wm8976.c` | ring of fragments with a semaphore each, queue of the DMA channel | open, write, read, sync, reset, poll, release, DMA callbacks | calls that sleep on a fragment, an enqueue that fails, signals, reset and release under a running DMA | the stream is a queue, sync returns when all is played, calls return |
| DM9000 network driver, `linux_driver/code/DM9000c/dm9dev9000c.c` | count of packets in the chip, queue state, IMR, ISR, NSR, receive memory | open, stop, transmit, interrupt, watchdog, timer, reset | an unlocked counter, an edge-triggered line, a reset inside the handler, a receive loop that ends early | no event and no packet is forgotten, the chip is not overrun, the queue restarts |
| Touchscreen (Linux), `linux_driver/code/Touch_driver/s3c_ts.c` | mode, sample counter, timer | pen interrupt, ADC interrupt, timer | the timer in the middle of a measurement | a pen that went up is reported |
| DMA copy, `linux_driver/code/DMA驱动/s3c_DMA.c` | one buffer pair, one flag | ioctl, interrupt | two callers, a signal during the copy | a caller compares its own copy |
| LED drivers, `linux_driver/code/char_driver/进阶版led_driver` | pins and one status byte | open, read, write | an update outside the lock | status and pins agree |
| Bare-board timers and interrupt dispatch | table of functions | register, unregister, timer interrupt | removal, full table | each registered function is called once per tick |
| The rest (virtual network card, flash, LCD, USB, block device, I2C client, start-up, display) | mostly registers | | | see `PROJECT.json`, "components" |

Not looked at: `u-boot-1.1.6` and kernel patches, BusyBox, zlib, printf and
libgcc sources, fonts, disassemblies, editor projects: other people's code,
generated files or assets. Files `*_1.c`, `*_2.c` are earlier stages of the
file without the number.

## Modules

| module | what it is |
|---|---|
| `JobPool` | the abstract pool: jobs wait, run on one worker, are finished; a destroy may leave jobs waiting |
| `ThreadPool` | `threadpool.c`, one action per critical section or unlocked access; implements `JobPool` |
| `ThreadPoolProofs` | proofs about `ThreadPool` |
| `Buttons` | the last two key drivers, which differ in three constants |
| `ButtonsProofs` | proofs about `Buttons` |
| `I2cMaster` | the I2C controller, the calls on the EEPROM, the bus and the chip |
| `I2cMasterProofs` | proofs about `I2cMaster` |
| `MyMsg` | the message buffer |
| `MyMsgProofs` | proofs about `MyMsg` |
| `Touch` | the bare-board touchscreen: controller, handlers, timer, the program that reads |
| `TouchProofs` | proofs about `Touch` |
| `AudioFifo` | the abstract stream: what is accepted comes out once, in order, or is cleared |
| `AudioStream` | one direction of the WM8976 driver; implements `AudioFifo` |
| `AudioStreamProofs` | proofs about the ring of `AudioStream` |
| `AudioFifoProofs` | proof that `AudioStream` implements `AudioFifo` |
| `Dm9000` | the DM9000 driver and what it uses of the chip |
| `Dm9000Proofs` | proofs about `Dm9000` |
| `MC*` | instances for TLC |

An operator whose comment starts with `mutant:` is a plausible bug, defined in
front of the definition it would replace. It is not used by the specification;
`PROJECT.json` names the property that finds it.

### ThreadPool

The state is the code's: `mtx` (the owner), the wait set of `cond` (a worker
with `wpc = "asleep"`), `jobs` and `workes` as sequences (both lists are only
ever changed at a known place: `LL_ADD` puts an item in front, `LL_REMOVE` takes
one away), `terminate` as the set of workers whose flag is set. A worker runs
lock, test, wait or leave, take, unlock, run. The flags are stored without the
mutex, so each test of a flag and what the worker does after it are two steps
although it holds the mutex: a worker in `wait` has read 0 at line 62 and will
sleep, one in `take` has read 0 at line 66 and will start a job, whatever is
stored in between. `NothingStartsAfterDestroy` therefore leaves one job: when the
loop over the flags is over, the worker that holds the mutex may be in `take`; no
other one passes the test, and once the destroy has had the mutex itself nothing
starts. The record of a worker is freed by its own thread. `nThreadPoolDestory` is one action per record, in two halves:
the store of `terminate` and the read of `worker->next`, because no lock is held
between them. When the record it reads from is already free the behaviour is
undefined: the flag `uaf` is set and any continuation of the loop is possible.
Creation and pushing overlap with the workers; `malloc` and `pthread_create` may
fail at any worker. `cond_wait` may return spuriously, and `cond_signal` wakes
any sleeper.

### Buttons

`UpFirst`, `WaitTwice` and `Debounced` select the driver: `close` gives the
semaphore back before `free_irq`, `read` waits again after its test of
`O_NONBLOCK`, the interrupt only starts the timer. Interrupt handler and timer
function are atomic (one processor, they do not sleep); a process may be
interrupted between any two calls it makes. `request_irq` may fail at every line
(no memory, a line of another driver) and `open` does not look at its result:
`refused` remembers the lines, `OpenHasIrqs` says that an open file has exactly the
others, and a key on a refused line is never reported. `unseen` is a history variable: the
lines whose level changed while no handler was registered.

### I2cMaster

`main` starts a message and spins; the interrupt handler is one action with the
code's four branches; each byte on the bus is one action of the hardware. A byte
is a number below `Size`, so that the arithmetic on addresses wraps as the `char`
in the code does. The EEPROM is modelled from what the handler relies on: it
acknowledges its address unless its write cycle runs, takes a word address, then
data, and gives bytes as long as they are acknowledged.

A read of length zero, which the menu accepts, is modelled up to the point where
the code decides nothing any more. Its first interrupt makes the two counts equal
and ends the loop of line 201 with the chip sending a byte; if that byte's
interrupt comes before the loop looks, the counts have passed each other and main
spins for ever. After it has returned, the next interrupt counts in a stack frame
that is gone, and the next message writes the registers of a transfer under way:
`TooEarly`, with `pc = "lost"`, after which nothing is claimed. `ForNothing` names
this message in the properties it breaks.

### MyMsg

The kernel is not preemptive: a process gives the processor up where it sleeps
or faults (`cpu` is the process that is between two statements). Interrupt
handlers may call `myprintk` in between when `IrqLogs` is set. Characters are
numbered in the order they are written, so that "the next one" can be said.
`got` and `alone` are history variables. The lines of `mymsg.c` end with a carriage
return alone, so that most tools see one line: the map names that line and, in
"symbol", the function and its lines counted by carriage returns.

### Touch

`AdcTsIntHandle` and the timer function run with interrupts disabled and are cut
into steps where they read bit 15 of `ADCDAT0` and where they act on it, since
the pen moves in between. The main program reads the slot one variable at a time.
The controller is external, and modelled from what the code relies on: the pen
going up raises `INT_TC` at once in the mode that waits for it; the pen being
down in the other mode raises it `ADCDLY` (5 ms) later, after any handler; a
conversion outlasts the handler that started it (`fresh`), and may end anywhere in
a later one, where its interrupt can be cleared unseen; bit 15 means nothing in the
automatic mode. x and y take the same path, one sum stands for both. `offered`
is a history variable. The dropped report is modelled: `report_ts_xy` does nothing
while the previous one is unread, so a calibration point can miss the release
and take the samples of the next touch. The pen may also be lifted and put back
between two readings of bit 15: the program sees one touch and averages the
samples of both. `ReleaseForgetsSamples` is about the releases that it reports:
three places do, and only `Isr_Adc` resets the sums.

### AudioStream

A fragment is free, being filled, or in the queue of the DMA channel; the
semaphore of each is a variable, the byte counts are in chunks. A call is cut
where it sleeps or enqueues; the callbacks are atomic. A chunk is a sample of one
of two kinds: any two neighbours that are exchanged, lost or doubled can be told
apart by the refinement of `AudioFifo` (the contents of a queue do not steer the
driver, so two kinds are enough for TLC; the proof has any set of them). `s3c2410_dma_enqueue` may refuse a fragment:
`write` then returns with the semaphore taken, and the ring is stuck for every
later call, `release` included, which sleeps uninterruptibly; this is why the run
does not check for deadlock and why `CallReturns` speaks of runs without a
refusal. `poll` looks at fragment 0 only, and sleeps on the current one:
`PollTruth` says what its answer is worth. Mono writes all fail with `-EFAULT`
(`access_ok` is tested the wrong way round at line 444), which is `CopyFails`.

### Dm9000

One thread of control (`pc`: transmit, watchdog, timer, open) is interrupted by the
handler (`hpc`) between any two accesses of shared state; the chip goes on in
both. `tx_pkt_cnt++` is a load and a store. The line is the conjunction of ISR and
IMR, and `irq` a rising edge that has been seen and not served; only the write that
masks IMR can be too late for one. A second load of `tx_pkt_cnt` by the compiler
behaves as an interrupt before the first. The handler saves and restores the
index register of the chip, so that register accesses are atomic. `cut` and
`overrun` are history variables; `squeezed` remembers a packet left in the chip for
lack of memory. `dmfe_open` enables IMR (line 729) and stores `cont_rx_pkt_cnt = 0`
(line 497) in one step: the two differ only if 65535 packets are received between
them, which is excluded.

## Runs

| run | instance | shows |
|---|---|---|
| `thread_pool` | 3 workers, 2 producers, 2 jobs | invariants, refinement of `JobPool`, liveness |
| `thread_pool_destroy` | the same | the destroy loop reads a freed record |
| `buttons_debounce` | 2 processes of 2 threads, one non-blocking, 2 keys | the debounce version is right, with any lines refused by the kernel |
| `buttons_exclusive` | the same, earlier driver | a second process gets in while the first one leaves |
| `i2c` | 3-byte chip, writes of 1 to 3 bytes, reads of 0 to 3 | what a call has done when it returns, and that it returns with the bus free, a read of nothing excepted |
| `i2c_last_byte` | the same | the last byte of a read is never stored |
| `mymsg` | ring of 4, 2 readers, 6 characters | tail of the log, order, no sleep on data |
| `mymsg_skip` | 1 reader | a full read drops a character |
| `mymsg_irq` | 1 reader, interrupts that log | the reader's index is not kept consistent |
| `touch` | 2 samples per report, 2 positions, 2 samples per point, 1 cross | the driver is never deaf, reports are whole, no sample outlives a reported release, the pen is followed |
| `audio` | rings of 2 fragments of 2 chunks and 3 of 1, calls of up to 3, both directions, refused enqueues, signals | refinement of `AudioFifo`, sync, poll, calls return |
| `dm9000` | 1 packet in the receive memory, 2 packets in a row are many | no event or packet forgotten, no overrun, the queue restarts |

Bounds, and why they are enough. Three workers: one asleep, one on its way and
one that takes its job; also first, middle and last record of the list, which
are the cases of the destroy loop. Two producers and two jobs: a burst of two
signals, and a job left over when a destroy comes. Two keys: a key that is and
one that is not the pending one; two threads per process: one that reads the
event the other waits for. A three-byte EEPROM: calls of no byte (reads), of one, of two
(first and last), of three (one in the middle), and addresses that wrap, the
address 256 that the menu lets through included. A ring of four with six
characters goes around once and a half, full from the third on. Two samples per
report: a first one, which is kept, and a last one; two positions: a mean that
mixes them would be seen; two samples per point, then one too many. Two fragments
of two chunks: a partial and a full fragment, a ring that wraps while the DMA
owns the other; three of one: a middle one. One packet of receive memory, and two in a row to end the loop:
the second came while the first was read (two and three were tried as well). The only bounds in
guards are `MaxChars` in `MyMsg` and the finite set of jobs in `ThreadPool`.

Deadlock is checked everywhere except in `AudioStream` (a refused fragment, above),
in `I2cMaster` (a read of length zero) and in the thread pool, which may really stop:
after a destroy all threads have ended, and a pool whose workers all sleep waits
for a push that need not come.

Fairness. `ThreadPool`: each thread that can go on does (weak fairness per worker,
per producer that holds the mutex, and for the create and destroy loops of the
owner); nobody has to push or to destroy. No thread is promised the mutex when
others keep taking it: with finitely many jobs they cannot take it for ever.
`Buttons`: the timer expires, a process inside a
call that can go on does; no key has to be pressed. `I2cMaster`: main runs, the
bus moves, interrupts are taken; the write cycle of the chip need not end.
`Touch`: timer 0 ticks, a conversion ends, a pen that stays down is seen, handlers run to
their end, and a pending interrupt that is enabled again and again is taken (they
are served in turn, and take microseconds of every 10 ms); for the same reason not
every conversion ends inside a handler, where its interrupt may be cleared. The main
program need not read. `AudioStream`: the DMA completes what it has accepted, a call that can go
on does. `Dm9000`: the chip sends what it has, the handler runs, and what it
interrupted goes on if it can again and again; nobody has to transmit, and the
watchdog need not run: `QueueRestarts` holds without it, while the link stays at
100 Mbit/s and interrupts leave the processor free now and then.

## What is proved

`ThreadPoolProofs`, for any numbers of workers, producers and jobs:

* `Invariant`: `IInv == TypeOK /\ MutualExclusion /\ Places` is inductive.
  `Places` ties the lists to the program counters: a worker is in the list or not
  linked yet, a job is queued, held by one worker, done, or not pushed. From it:
  `TypeCorrect`, `Exclusion`, `JobIsNotNull`.
* `NoLostWakeup`: `WorkConserving` is inductive relative to `IInv`. The argument
  counts the workers on their way to the list: only the taking of a job takes one
  away, and a push that finds a sleeper adds one.
* `NobodyMissesTheBroadcast`: a worker that goes to sleep has seen its flag unset
  while it held the mutex, and the broadcast is sent under the mutex after all
  flags.
* `Refinement`: with `JobsDiffer` (a job is in the list once) every step is a step
  of `JobPool` or stutters.
* `DestroyTellsEveryWorker`, `DestroyAbandonsTheRest`: the loop invariants `Linked`
  (where the cursor is in the list) and `Passed` (what is behind it is told), as
  long as no freed record was read. The second also needs that a worker between
  its test and its take holds the mutex (`MutualExclusion`: there is one at most),
  and that none is left when the destroy has locked it (`NoneCommitted`).

`ButtonsProofs`, for any processes, threads and keys: `TypeCorrect`;
`Exclusive`, `SemaphoreIsRight`, `OpenIsServed` and `NoHandlerIsLeft` when `up` comes
last (`UpFirst = FALSE`), from `FileInv`, which says at each point of open and close
which lines have been asked for, and that the ones not refused have a handler; `ReportedValueIsSettled` and `NobodySleepsOnEvent`
without condition; `NonBlockingReadReturns` when `WaitTwice = FALSE`.

`MyMsgProofs`, for a ring of any length, any readers and any number of characters:
`Invariant` (the types, and `RoomForChar`: the bound was tested before
`__put_user`, without which the types are not inductive), `BufferIsTail` from lemmas
about the distance of two indices of a ring, and `NobodySleepsOnData` from
`OthersClosed` (nobody else can move the position of a reader that is alone).
`ReadsInOrder` for `IrqLogs = FALSE` (with interrupts that log it is false, run
`mymsg_irq`), from `OrderInv`: the character at the reader's position follows
the one it was given last, or all those between them have been overwritten.

`I2cMasterProofs`, for a chip of any size, any strings and any lengths of reads,
zero included. `FlowOK` says, for each phase of a message, how `cnt_transferred`, the
byte on the bus, the pending interrupt and the state of the chip go together; a
read of nothing has phases of its own (`Runaway` while the chip still sends,
`Spinning` when its loop has missed its end), so that it can be shown that no other
message gets there. It gives `TypeCorrect`, `MainWaitsForInterrupts` and
`ReadEndsWithNack`. `CallInv` adds what the call has done: which bytes of the
string are in the chip, which bytes of the chip are in the buffer, and that the
other addresses hold what they held before the call; a byte is in its place also
when addresses wrap and a later byte of the same string overwrites it. It gives
`WriteStoresPrefix` and `ReadReturnsChip`.

`AudioStreamProofs`, for any samples, any shapes with two fragments or more, calls
of any length: `AudioInv` says that the fragments queued are distinct and their
semaphores taken (`Queued`, also after a refusal), that without a refusal they are
the last ones before the current fragment (`Order`), and that of an output stream
the fragment before the current one was queued last or refused (`Output`: why it is
enough that `audio_sync` waits for it). `TypeCorrect`, `RingStaysInOrder`,
`SyncWaitsForAll` and `PollTellsTruth` follow.

`AudioFifoProofs`: `StreamImplementsFifo`, every step of the stream is one of
`AudioFifo` or stutters. The queue is `FlattenSeq` of the fragments' contents, which
is defined by recursion on the number of blocks; its laws (`FlattenAppend`,
`FlattenFirst`, `FlattenGrow`) are proved by induction in the form of `AllNat`: a
set of numbers that holds 0 and with each number its successor holds all of
them, from the least element that a well-founded order gives. The invariant of an
input stream is `Input`: fragments that hold units come before the ones queued, and
these are queued in the order of the ring, also when the DMA has refused some.
Then write appends to the last block, a playback callback takes the first one
away, a record callback fills the first empty one, and read shortens the first
one or turns the ring by a block that is empty.

`TouchProofs`, for any number of samples, positions, points and crosses:
`TypeCorrect` and `ReportsAreWhole` from `DataInv` (a sum of n samples lies between
`n * Lo` and `n * Hi`; the slot does not change between the test of
`g_ts_data_valid` and its clearing), `NeverDeaf` and `ReleaseEndsTheMean` from `AliveInv`
(at each point of a handler, what will look at the pen next; from the end of
`Isr_Adc` on it must be a conversion of this very handler or the timer, since
`Acknowledge` clears what is pending. Samples are kept in the automatic mode only,
which raises no `INT_TC` and stops the timer function, so that neither of the two
places that leave the sums alone can report a release then).

`Dm9000Proofs`, for any receive memory smaller than `CONT_RX_PKT_CNT`:
`TypeCorrect`; `NoEventIsLost` from `LineInv` (the line is up unseen only between the
interrupt and the handler's first write); `NoPacketIsForgotten` from `RxInv` (packets
read and left by one loop, if none came since ISR was cleared, were in the chip at
once); `ThirdPacketNeedsReset` from `TxInv` (the count is at least the packets in
the chip, those sent and not yet accounted for and the one being given to it, or
the handler that will set it right runs next).

The assumptions are the named `ASSUME`s of the modules (two of them only exclude
empty sets: there is a sample, and strings to write are not empty), and in the conditional
theorems the value of the constant that selects the driver.

Only model-checked: liveness (`PushedJobRuns`, `DestroyEnds`, `PressReachesReader`,
`CallReturns` of two modules, `PenIsFollowed`, `QueueRestarts`), which needs fairness
and `ENABLED`, out of the prover's reach. Every invariant and every other action
property of a passing run is proved, and both refinements. Proved and not checked by a
run, as the properties that are checked break with them: `MutualExclusion`, `NoNullJob`,
`SemaphoreAccounts`, `ClosedHasNoIrqs`, `NonBlockReturns`.

## Disagreements found

Five, each with its run (`PROJECT.json`, "findings" quotes the line that is
contradicted): the unlocked loop of `nThreadPoolDestory`; the early `up` of the
semaphore driver; the last byte of an EEPROM read; the dropped character and the
unprotected index of `/proc/mymsg`.

Met while modelling, without a run: the second wait of the semaphore driver, in
which a non-blocking read can sleep; an `open` of either key driver that succeeds
without its interrupts; an EEPROM read of length zero, for which the comments at
`s3c2440_i2c_controller.c:170` and `:200` (wait in a loop until the interrupts have
been handled) are false, since it returns while the bus is busy; a release of the pen that is never reported to a slow
reader; in the DM9000 driver, a count that stays one too high after the unlocked
increment (at 10 Mbit/s, where the limit is one, transmit then refuses every
packet with the queue open, so that the watchdog does not run) and one too low
after a reset inside transmit.

## Not modelled

The demonstration `main` of the thread pool (it uses a pool it never allocated);
module load and unload; two keys pressed within 10 ms as two events (the driver
keeps one); the table of I2C controllers and the text menu; negative lengths of a read; bytes the EEPROM
does not acknowledge; a `myprintk` interrupted by another one; the formatting of
messages; the conversion of touch positions to pixels (floating point); two threads
on one audio file, both directions at once, the mixer and the codec's registers;
the DM9000's probe, PHY and EEPROM access, multicast table and statistics. The
components without a module are listed in `PROJECT.json` with the reason: they are
register set-up for a layer of the kernel, polling I/O, earlier stages of a
modelled driver, or other people's code, which is most of the repository's lines
(BusyBox, zlib, fonts, copies of the same files in each lesson).

## Plan

1. Two contexts of `myprintk` in `MyMsg`; two threads on one audio file.
2. Safety parts of the liveness properties as theorems: for each place where a
   process sleeps, the step that will wake it (done for `WorkConserving`,
   `NoSleepOnEvent`, `NoSleepOnData`, `NotDeaf`; left: `AudioStream`, `I2cMaster`).
