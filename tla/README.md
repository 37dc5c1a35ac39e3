# Verification of the AB32VG1 board support package

This directory holds TLA+ models of the parts of the AB32VG1 RT-Thread port in
which threads, interrupts and hardware meet, TLC configurations that check them
on small instances, and TLAPS proofs of what matters most for every value of the
constants. The repository's code is under `src/`; line numbers below are lines of
those files, and `PROJECT.json` maps every definition to the lines it models.

## 1. Inventory

The repository is a board support package for a RISC-V audio microcontroller: the
CPU port (`libcpu`), the drivers (`libraries/hal_drivers`), the register-level HAL
and clock code (`libraries/hal_libraries`), the board's ports (`board`), two small
applications, and a vendored RT-Thread kernel with its device frameworks
(`rt-thread`). The logic of the BSP lives where a driver meets a framework: half of
every protocol below is in the vendored framework, so both halves are modelled.

| component | state | operations | talks to | hard part |
|---|---|---|---|---|
| UART receive path: `drv_usart.c`, `serial.c`, `shell.c` | ring buffer (`put_index`, `get_index`, `is_full`), RXPND and the interrupt enable, `rx_indicate`, `rx_sem` | open, receive interrupt, `_serial_int_rx`, `finsh_getchar`, close | UART hardware; shell thread through a callback and a semaphore | interrupt against reader; ring full; interrupt during close |
| audio replay: `drv_sound.c`, `audio.c`, `dataqueue.c`, `completion.c` | memory pool, data queue, write and read index, `tx_fifo` position, stop event, completion, semaphore, AUBUF | open, write, start, stop, close; audio thread; AUBUF interrupt | application thread, audio thread, DAC | three actors and two handshakes; underruns; restart |
| SD card driver: `drv_sdio.c`, `block_dev.c`, `mmcsd_core.c` | event set, block counter, the errors of a request, `cache_buf`, controller flags, DMA | block request, command, data loop, STOP and status poll, interrupt | file system above, controller and card below | merged, late and missing completions; errors that must survive to the caller |
| scheduler and context switch: `scheduler.c`, `thread.c`, `clock.c`, `context_gcc.S`, `cpuport.c`, `interrupt.c` | ready lists and bit mask, `rt_current_thread`, lock nesting, from/to/flag, stack pointers, time slices | start, resume, suspend, yield, exit, lock, unlock, interrupt entry, tick, interrupt exit | everything | the switch is delayed to a software interrupt and put together from several `rt_schedule` calls |
| kernel timers: `timer.c` | two sorted lists, `timeout_tick`, the activated flag, the timer thread and its own timer | start, stop, detach, delete; check in the tick interrupt and in the timer thread | tick interrupt, every timeout and delay | ticks wrap around; callbacks start and stop timers; the timer thread falls asleep while one is started |
| semaphores and mutexes: `ipc.c` | values, lists of suspended threads, owner, hold count, lent priority | take, release, reset, thread timeout | all drivers and frameworks | a timeout against a release; priority inheritance through hand-overs |
| system clock: `system_ab32vgx.c` | clock selection, PLL0, dividers, baud registers | `set_sysclk`, `sysclk_update_baud` | SD, UART, flash and timers | every write takes effect at once, in the middle of the change; only the PLL takes its time |
| hardware timer: `hwtimer.c`, `drv_hwtimer.c` | counter and period register, overflow count, cycles | open, write, read, stop, close, frequency and mode; overflow interrupt and its callback | applications | the interrupt against a write or a read in progress; a callback that writes |
| sound configuration: `drv_sound.c` | rate, channels, volume, DAC registers | `sound_configure`, `sound_getcaps` | audio replay | registers cleared by `sound_stop` |
| RTC, PWM, watchdog, IR receiver, GPIO, software I2C, ADC | registers, small records | driver callbacks | frameworks | arithmetic at the edges |
| polling SD HAL, other HAL files | registers | register access, busy waits | none of the drivers modelled | - |
| board start-up, reset code, applications | - | run once | - | - |

What makes each one correct:

* UART: what is read is what was received, in order, and only the oldest
  characters are given up; the shell never sleeps on input that is there; the
  interrupt never finds a ring that is gone.
* audio: samples come out once and in order; indices stay inside blocks, frames and
  `tx_fifo`; AUBUF is never written while it is full; every pool block has one
  owner; writes and stops return.
* SD: a request reported as successful was served; every request returns; no
  completion is left over for the next one.
* scheduler: a context is never saved to or restored from the wrong thread; lists and
  bit mask agree with the threads' states; the most urgent thread runs; peers take
  turns.
* kernel timers: a timer fires at its tick and not before, also across the wrap-around;
  the lists stay sorted by the time that is really left; the timer thread does not sleep
  past a timer.
* semaphores and mutexes: a take returns success exactly when it was granted; an owner
  is as urgent as who waits for it and gives the priority back.
* system clock: no module and no memory is clocked above its limit at any instant; what
  the drivers are told about the clock is true.
* hardware timer: overflows and counter add up to the time that has passed; the callback
  comes after the time asked for; what was written runs.

`PROJECT.json` lists all components, with the reason for the ones that have no
module, and the hazards, each at its line.

## 2. Modules

| module | what it is |
|---|---|
| `UartRx` | the receive path, from the UART data register to `finsh_getchar` |
| `CharFifo` | what it promises: a bounded FIFO that drops its oldest character |
| `SoundReplay` | application thread, audio thread, interrupt, AUBUF and DAC |
| `ReplayStream` | what a replay session promises: words come out one by one, in order |
| `SdioRequest` | a block request from `rt_mmcsd_req_blk` down to controller and card |
| `ContextSwitch` | scheduler, tick and the port's context switch |
| `Timer` | kernel timers: both lists, the tick interrupt, the timer thread |
| `Ipc` | semaphores and mutexes, with timeouts and priority inheritance |
| `SysClock` | `set_sysclk`, one action per register write, and the users of the clock |
| `HwTimer` | a hardware timer: device, driver, counter and interrupt |
| `MCUartRx`, `MCSoundReplay`, `MCSdio`, `MCContextSwitch`, `MCTimer`, `MCIpc`, `MCSysClock`, `MCHwTimer` | the instances TLC checks |
| `UartRxProofs`, `SoundReplayProofs`, `SdioRequestProofs`, `ContextSwitchProofs`, `TimerProofs`, `IpcProofs`, `SysClockProofs`, `HwTimerProofs` | theorems and proofs |

Definitions under a comment that begins with "Mutant" are faulty
variants of the definition below them. They are not part of the specification; each
shows that a property notices the fault it is meant to notice.

### UartRx

State: the hardware flags (`rxData`, `rxPnd`, `rxIE`), `serial_rx` and its fields
under their names in `serial.h`, `rx_indicate` as a Boolean, the semaphore's value,
and where interrupt and shell are. Actions: `Arrive` (the line), `IsrEnter`,
`IsrGetc`, `IsrClear`, `IsrPut`, `IsrNotify` (one pass through `uart_isr`),
`Open`, `SetIndicate`, `Read`, `TakeSem`, and the four steps of a close, in the order
in which `rt_serial_close` and `finsh_set_device` take them. Sections that the code
runs with interrupts masked are one step. A character that arrives between reading
the data register and clearing RXPND is lost with the flag, as in `ab32_getc`. A
failed `RT_ASSERT` is the interrupt state "halted". Transmission, `ab32_configure` and
the other ioctls are left out: they share no state with reception.

### SoundReplay

The unit of data is a 32-bit word. `apc` and `tpc` say where the application and the
audio thread are; the fields of `struct rt_audio_replay` keep their names. A step is
what a thread does between two accesses to state someone else can change. `AppPrio`
is the application's priority relative to the audio thread: `AppRuns` and
`ThreadRuns` hold a step back while the more urgent thread is ready.

Assumptions about the hardware, which the sources do not document: AUBUF's pend flag
comes up whenever AUBUF is at or below its threshold and the DAC is on, also after it
was cleared; a start either keeps what AUBUF holds or empties it; a word written
to a full AUBUF is dropped. Words that a frame outside `tx_fifo` would overwrite are
not modelled, only read (`Word`). The replay lock is left out because one application
thread is modelled.

Four details matter more than their size. `sound_configure` may set `dma_to_aubuf` at any
time (`ConfigureDma`, drv_sound.c:275); the audio thread then asks for no frame (`Poll`,
line 468) and so neither frees a block nor looks at the stop event. Who fills AUBUF
instead is not in this repository and not modelled. The index of `_audio_dev_write` is an
`rt_uint16_t`, `windex` modulo `IndexSize` here: a write of 65536 bytes or more wraps it and
never ends. `AUBUFCON |= BIT(1)` in `sound_start` (line 379) runs with interrupts on, as a load
(`StartLoad`) and a store (`StartStore`); in the other places where AUBUFCON is changed, BIT(4) itself is
set or cleared and BIT(1) only clears the pend flag, so that one step is enough there. And `plays` counts what the DAC was given, so
that `ReplayStream` sees a word that is played twice.

### SdioRequest

`Start` ... `Return` are the calling thread: `rt_mmcsd_req_blk`,
`mmcsd_send_request`, `rthw_sdio_request`, `rthw_sdio_send_command`. `Isr` is the
interrupt with the `rt_event_send` it ends in; the event set keeps only what the
driver tells apart. `Answer`, `Block` and `Stall` are controller and card: a command
may stay unanswered, a block may be bad, a transfer may stop. Data is `<<n, k>>`, block
k of request n, so that a block at the wrong place or from the wrong request shows.

A wait may time out while the card is still at work; the history variable `late` says that
this has happened. After it a completion may belong to an earlier command, so
`RequestOkMeansDone` and `NoStaleEvent` are stated for `~late`; `RequestReturns` is stated
for all behaviours. The history variable `busy` says that the card was still sending the
blocks of an earlier read when this request began, because its STOP_TRANSMISSION was not
answered: `rthw_sdio_request` returns the error, but nothing stops the card. One of these
blocks can complete the wait for the new command, whose own answer then completes the
wait for its block; `RequestOkMeansDone` is therefore stated for `~busy` as well. It takes a
third request to return the wrong data without an error, the second one returns its
own error.

Assumptions: commands are answered or given up by the controller in time, and only
blocks and the busy state after STOP_TRANSMISSION can be later than the driver's five
seconds; DMA to the card moves data only in the transfer of its own
request, DMA from the card takes whatever the card sends; the host lock leaves one
request at a time.

### ContextSwitch

The scheduler's variables are one record `k`, so that `rt_schedule` is an operator on
it (`Schedule`) that threads and interrupts share. `cpu` is the thread whose
instructions execute, `k.current` is `rt_current_thread`; they differ between
`rt_schedule` and the end of `low_prio_irq`. A stack pointer's value is the thread
whose saved context it points to. `IrqEnter` is `save_context` and `rt_soft_isr`,
`Tick` and `IsrResume` are service routines, `IrqExit` is `rt_switch_to_thread` and
`restore_context`.

Assumptions: interrupts do not nest on this core; once interrupts are on, a pending
software interrupt is taken before the thread's next instruction; a thread that
holds the scheduler lock does not block or exit (RT-Thread's rule). Timers appear as
`IsrResume` of any suspended thread; they have a module of their own. Priority changes
(those a mutex makes are in `Ipc`), detach and delete of another thread and the idle
thread's clean-up are left out.

### Timer

`hard` and `soft` are the two lists, `timeout_tick` and `active` the timers' fields, `tick`
is `rt_tick` modulo `M`. `Tick`, `HardFire`, `ThreadTimeout`, `HardReturn` and `CheckDone`
are the tick interrupt with `rt_timer_check`; `NextTimeout` ... `SoftDone` are the timer
thread, with the point between two locked sections at which a tick or another thread can
come in. `Start`, `Stop` and `Kick` are the calls of everybody else and of the callbacks;
`Kick` is the end of `rt_timer_start`, after interrupts are on again, where the timer
thread is resumed. `rt_timer_control` may change `init_tick` and the periodic flag at any
time: every read of them is a choice. The history variable `left` counts the
ticks that remain without wrapping around, so that the lists can be compared with
real time.

Soft timers may be started wherever the timer thread is, by interrupts and threads of any
priority. One that is started after the thread has looked at its list (`NextTimeout`) and
before it sleeps (`Suspend`, `Delay`) finds it not yet suspended and wakes nobody: the window of
timer.c:695-701 and its twin before `rt_thread_delay`. The history variable `missed` says that
this has happened, from then until the thread is awake again (`Awake`). The behaviours in which it
happens are in the state space; `NoOversleep` and `SoftFires` say that the thread never
oversleeps for any other reason.

Assumptions (`TimerAssumption`): times are positive and below half the range of
`rt_tick_t`, and the timer thread is late by less than that. One start of a soft timer is
over (`Kick`) before the next one begins. `MaxLate` stops the tick, so the thread is
not followed further once it has overslept a timer by that much.

### Ipc

Each call of `ipc.c` is one step, since it runs with interrupts off up to its
`rt_schedule`; a take that waits has a second step, `TakeReturn`, when its thread runs
again. `Schedule` is the choice of a most urgent ready thread, which `ContextSwitch` shows
`rt_schedule` to make. Waiting threads keep their place in a list when their priority
changes, as in the code. History variables: `granted` (by a release), `owned` (in
which order), `nested` (mutexes of a thread that had or asked for more than one) and
`stale` (a release nobody waited for lowered a priority and did not call
`rt_schedule`). The last two name the situations in which `ipc.c` does not keep the
priorities right: with nested mutexes an inherited priority is not passed along a chain
and is given back too early, and after a quiet release the less urgent thread keeps
the CPU until the next scheduling point.

`InOrder` says that threads release mutexes in the reverse order of taking;
`PriorityComesBack` needs it.

### SysClock

`sys` is the record of the code, `hw`, `mod`, `spi`, `sd` and `uart` the registers. Between
two actions the chip runs from what the registers then say, which is what the limits
are about. `SetSysclk` ... `UpdateUart` follow `set_sysclk` and `set_sysclk_do`. `SdOff`,
`SdUp`, `SdEnable`, `SdOn`, `SdRead` and `SdWrite` are `rthw_sdio_iocfg`, which enables the card first
(drv_sdio.c:437) and then reads the clock and writes SD0BAUD (438), whenever
interrupts are on, so also in the middle of a change. Rates stand for the enumeration
constants. In this repository `set_sysclk` is called once, with 48 MHz (board.c:103); the model
calls it with every rate of its table, in any order, after that first call.

PLL0 is off, starting, retuning or stable; `Settle` is the end of the second and third. A PLL
that was off is waited for (`PllWait`, system_ab32vgx.c:408). One that was left on at another rate is
set to 240 MHz (lines 276 to 283) and selected at once (296): it is taken to keep its
rate until it has the new one, and the chip runs from it while it is retuning.

Exceptions: while the PLL is retuning the recorded clock is not yet the one that runs
(`RecordIsTrue`); the row of SYSCLK_2M gives 13 MHz (`RecordIsTrue`
leaves it out); `sys.uart0baud` is never set in the repository, so that the UART
divider is a division by zero until someone calls `set_sys_uart0baud`. `SdWithinLimit` is about
the card when both `set_sysclk` and the SD driver are done: between lines 437 and 438 the
card runs on whatever divider it had before it was switched off, and a divider computed
for the clock before the one it is written under (`torn`) stays until the next write of
either. At 30 and 60 MHz the table of `update_sd0baud` gives 15 MHz, where a comment beside it (line
97) speaks of 14 MHz at most.

### HwTimer

Time is counted in clocks of the counter. The thread takes one step for every store
(`rt_hwtimer_write` is `WriteStop`, `WriteZero`, `WriteClear`, `WriteCycles`, `WriteReload`,
`WritePeriod`, `WriteOpm`, `WriteCount`, `WriteLoad`, `WriteEnable`), with
interrupts in between; the interrupt with its callback is one step, and the callback may
leave the timer alone, stop it or write the next time, also in the midst of a thread's
write. `timeout_calc` works on floats and is replaced by any number of periods of any length.
The length has `Parts` parts to a tick: `period_sec` keeps them all (hwtimer.c:67), the counter that
it returns only the whole ticks (68), and TMRxPR is computed from that, in 32 bits
(`Compare`, drv_hwtimer.c:141). The driver refuses the single
mode, with the registers already written; `WriteLoad` does the same.

`timer_stop` leaves an overflow pending. If it is taken after `overflow = 0` (hwtimer.c:189) it
counts towards the new time, and a callback that writes then leaves its fields among
those of the thread. The history variable `mixed` says that one of the two has happened, until
the next write; what runs then is a time nobody asked for, and the properties say
nothing of it but that the counter is on exactly when it should be. `Fits` says that a period fits the register:
one above about 89 seconds, at the 1 MHz a timer is opened with, wraps around
TMRxPR and is over much too soon. `ReadWithinPeriod` needs `Fits`, the others hold of what is in
the register.

Assumptions: the timer has its vector to itself (TIM1, TIM3); an interrupt is served
before the next overflow; the frequencies divide the system clock.

## 3. Runs

| run | checks | instance and why it is enough |
|---|---|---|
| `uart_rx` | `ReaderNotStranded`, `SleeperWakes`, `RefinesCharFifo` | ring of 3 (holds 2), two characters: the ring wraps, fills and overflows; the console is closed and opened again at any moment. No bound on the number of characters. |
| `replay_order` | `TypeOK`, `NoAubufOverflow`, `FrameInFifo`, `RefinesReplayStream` | two blocks of 4 words, frames of 2, AUBUF of 4 with its threshold at 2: two frames and one, as in `drv_sound.c`, where a block is eight frames; writes of 5 and 7 words, so that blocks are crossed, filled in part and waited for, 12 words in all; an index that counts to 8, which every write fits; `dma_to_aubuf` set and cleared at any time; equal priorities; one session |
| `replay_live` | `WriteReturns`, `StopReturns`, `QueuedIsHeard` | two blocks of 2, frames of 1, AUBUF of 1, so that nearly every word waits for the interrupt: two writes of 3 words, the second has to wait for a block; `dma_to_aubuf` set and cleared at any time; equal priorities; one session |
| `replay_stops` | `OneOwner` | equal priorities, two sessions, two writes of 3 words: a stop flushes a block that is filled in part, at any moment of the audio thread's frame, and the stream is started and written again |
| `replay_restart` | `StopReturns`, violated | equal priorities, two sessions, one word |
| `sdio` | `RequestOkMeansDone`, `NoStaleEvent`, `RequestReturns` | two requests of one or two blocks, either direction, aligned or not; blocks finish in time, too late or never; no new request once one was late; the theorems cover any number of requests |
| `sdio_write_lost` | `BlkOkMeansDone`, violated | one request |
| `switch` | `ContextsOwn`, `ReadyListsExact`, `MostUrgentRuns`, `PeersTakeTurns` | idle, two peers and one more urgent thread, slice of 2 ticks, one level of scheduler lock (the theorems cover nesting); no bound on the length of behaviours; turns are stated of one peer, since nothing tells the two apart |
| `timer` | `FlagsExact`, `ListsSorted`, `NoOversleep`, `FiresOnTime`, `SoftFires` | a hard timer, two soft timers and the timer thread's; 10 values of the tick, which wrap around again and again; times of 1 and 2 ticks; timers started wherever the timer thread is, which is up to 2 ticks late; no bound on the length of behaviours |
| `ipc` | `WaitersExact`, `TakeReturnsTruth`, `OwnerInherits`, `PriorityComesBack`, `MostUrgentRuns` | three threads of three priorities, a mutex in priority order, one in order of arrival, a semaphore; up to 2 holds, semaphore up to 1; no bound on the length of behaviours |
| `sysclk` | `ClockAlive`, `ModulesNotOverclocked`, `FlashWithinLimit`, `RecordIsTrue`, `SdWithinLimit` | all ten rates in any order, PLL0 found on or off, at 240 MHz or another rate, and settling at any time; the SD driver at any point of a change that has interrupts on |
| `hwtimer` | `CountsTime`, `CallsExact`, `WrittenRuns`, `ReadWithinPeriod`, `TimesOut` | times of a tick and of two ticks and a half, ticks of 1 or 2 clocks, times below a tick, of one and of two periods; registers of 3 values, which a time of four clocks does not fit; up to 4 overflows after a write: a two-period time is over twice |

Every module but the two abstract ones has a `TypeOK`, and each is proved. For the receive path
and the scheduler it has no run of its own (`ReceivePathSafe` and `ContextsNeverMixed` state
it); in `SdioRequest`, `Timer`, `Ipc` and `SysClock` it is a conjunct of one of the properties checked
and proved (`NoStaleEvent`, `ListsSorted`, `WaitersExact`, `RecordIsTrue`); in `HwTimer` it is part of
the invariant from which the four theorems follow.

The bounds have names: `MaxWords` and `MaxSessions` (audio), `MaxReqs` and `MaxLateReqs`
(SD), `MaxLock` (scheduler), `MaxLate` and `MaxSlip` (timer), `MaxOverflow` (hardware timer)
and, in the code as well, `SemMax` and `HoldMax`. They stand in guards only.

`CHECK_DEADLOCK FALSE` is used for audio and SD. When the application has made its
last call everyone in the audio model may rest (the audio thread sleeps on its
semaphore after a stop), and after the last request the SD driver waits for
a caller that does not come. In `Ipc` three threads with two mutexes can deadlock each
other, which is the application's affair. All other runs are checked for deadlock.

### Violated properties

* `replay_restart`. `sound_stop` clears the AUBUF interrupt enable while the audio
  thread waits for the interrupt, and `sound_start` does not set it again. After a
  restart the thread is still asleep and the next stop waits for it for ever. This
  is also why `StopReturns` is checked for one session in `replay_live`, and why in
  `replay_stops` the audio thread may do little after a restart.
* `sdio_write_lost`. After a write `rt_mmcsd_req_blk` polls the card's status with the same
  command structure, and so clears the error the write left in it; `data.err`, which is
  tested too, is never set by the driver.

Further limits of the code that the models show and no run states, because no line
of the repository promises the opposite (most are notes in the hazard list):

* audio: a stop switches the DAC off with samples in AUBUF; a stop at any but a lower priority
  that comes between the thread's look at the queue and its look at the stop event is
  acknowledged with a block still queued; once `dma_to_aubuf` is set a stop is not acknowledged
  at all; a reopen inside a frame, at equal priority, can move the fill position out of
  its half of `tx_fifo`; so would a frame that does not divide the block (here it does: 4096
  and 512 bytes), since an underrun takes back the last copy only; from the second
  session on, `sound_start` can write back an interrupt enable that the interrupt has just
  cleared, and the second post lets a word into a full AUBUF (which is why
  `NoAubufOverflow` is stated of the first); a write of 65536 bytes or more never ends.
* SD: command and block completion can merge into one event and cost a timeout; a
  completion later than the timeout is taken for the next command's, and so is a block
  of a read whose STOP_TRANSMISSION failed (`busy`).
* kernel: a thread whose slice is one tick can lose its turn to the tick before it has
  executed; a soft timer that is started while the timer thread falls asleep is slept
  past (`missed`), and one whose timeout is the last value of the tick is taken for no
  timer (`Sentinel`).
* clock and timers: the chip runs from a PLL that is still retuning; an SD card is enabled on
  its old divider; a hardware timer counts an overflow from before a write, mixes a
  callback's write with a thread's, and wraps long times around TMRxPR; reads of a time
  that is no whole number of ticks drift ahead, by less than a tick for every overflow.
* UART: `rt_serial_close` frees the ring before it masks the receive interrupt.

### Fairness

* UART: the interrupt runs to its end (WF), the shell is scheduled when it is ready
  again and again (SF: interrupts take the CPU from it). `CpuFasterThanLine` is an
  explicit premise of `SleeperWakes`: the receive loop in the interrupt ends, that is,
  characters do not come faster than one pass of the loop.
* audio: a call that was made is carried on and the audio thread is scheduled (SF, since
  the less urgent of the two is ready only now and then); interrupts are served and an
  enabled DAC plays (WF). That the application calls again is not assumed.
* SD: the thread is scheduled, its timer expires, interrupts are served, and what
  controller and card are doing ends, in whatever way (WF).
* scheduler: the system is started, interrupts are entered and left (WF); the tick is among
  them again and again (SF); a thread that is to call `rt_schedule`, or to give the lock
  back, does so when it has the CPU often enough (SF). Nothing is assumed of a thread
  that simply keeps computing: the tick has to take the CPU away.
* kernel timers: ticks come, the interrupt and its callbacks end, the timer thread is
  scheduled, and so is a thread between starting a soft timer and the end of
  `rt_timer_start` (WF). Nobody is assumed to start or stop anything.
* hardware timer: the counter counts and a call in progress goes on (WF); interrupts are on
  again and again, so a pending one is served (SF, since a read masks it, and since a time
  may end or not between two of its overflows). Nobody is assumed to call.

## 4. Proofs

All theorems are about `Spec` (no fairness) and hold for every value of the constants
that satisfies the `ASSUME` of the module, among them any ring size above 1, any pool,
block, frame and AUBUF size, any priorities and any set of threads.

* `ReceivePathSafe`: `TypeOK`, `FullMeansFull` and `ReaderNotStranded`. They are inductive
  together with `Context` (the reader has registered its callback before it first reads;
  the ring exists exactly between open and close; `ch` holds a character once one was
  read). The heart is `PutLength`: after a put the ring is never empty, whether or not it
  wrapped or dropped, so the notification that follows cannot be skipped.
* `RingBufferIsFifo`: `UartRx` implements `CharFifo` under the mapping `Contents`. Every step
  maps to a put (with or without a drop), a get, an open, a close or a stutter; the put that
  overflows is the case in which both indices move at once.
* `ReplayTypes`: `TypeOK` of the audio path. It needs that the read offset lies inside the block
  at the head of the queue (`ReadInHead`) and that copy and transmit loops are not past
  their end (`LoopsOpen`).
* `AubufNeverOverflows`: `NoAubufOverflow`, which is about the first session, from `WakeInv`: the
  right to write one word without another look at the full flag is a token (`Token`) that
  interrupt enable, semaphore and audio thread hand around; there is at most one, and it
  exists only when AUBUF has room. `FirstSession` says why `sound_start` cannot copy it: until
  the first start is over the audio thread has never enabled the interrupt.
* `BlocksHaveOneOwner`: `OneOwner`, with `WriterInv`: where `write_index` must be 0.
* `FramesStayInFifo` (`FrameInFifo`) and `StreamInOrder` (`RefinesReplayStream`: `SoundReplay`
  implements `ReplayStream`). Both assume `FramesFill`, that a block holds whole frames, as the
  two sizes of the code do. The first also assumes `Quiet`, an application below the audio
  thread or one session; the second one session, and `Unwrapped`, that every write fits the
  16-bit index: without these the code does otherwise (section 3, further
  limits). Frames: only a stop pushes a short block, and it stays the last one
  (`ShortLast`), because nothing is pushed until the stop has found the queue empty (`NoMore`,
  `DrainInv`). So a frame is filled in one turn of the copy loop, or runs out of data in its
  second, and is on a boundary of frames again when it is done (`FrameInv`). The stream: the
  words on their way are those of the block being filled (`WriterHolds`), the queue (`Chain`),
  the frame in hand (`FrameHolds`) and AUBUF (`AubufHolds`), in order in each stage, and each
  takes up where the one before it ends. `ChainPush`, `ChainRead` and `ChainPop` say what the
  queue's operations do to such a chain, `AubufPut` and `AubufTake` the same of AUBUF, where
  silence may come between two words. A step of the writer maps to `Accept`, a step of the
  DAC to `Play` or a stutter, every other to a stutter.
* `CommandsStartClean` (`NoStaleEvent`) and `OkMeansServed` (`RequestOkMeansDone`), for any number
  of blocks, retries and requests. The first is a count: the completions that may yet wake
  the thread (`Outstanding`: a command on the wire, a flag, an event, a block that DMA and card
  can finish) never exceed the waits it has left for them (`WaitsLeft`), two for a
  read until its first wait is over, since command and first block are under way
  together, else one. The second needs a stricter count, in which this request's DMA
  counts even if the card has stalled (`Tally`): then a wait for a block that ends with
  an event ends with that block (`BlockSetUp`), and a command that was refused cannot pass
  for an answered one (`Command`, `Refused`). The blocks below `xfer_blks` are in place at
  every step (`InPlace`).
* `ContextsNeverMixed` (`TypeOK` and `ContextsOwn`), `ListsStayExact` (`ReadyListsExact`) and
  `UrgentThreadRuns` (`MostUrgentRuns`), from one invariant `IInv`: the lists are exact and only
  `rt_current_thread` is running (`KernelOK`); a pending switch leads from the thread that
  has the CPU to `rt_current_thread`, and without one these are the same (`SwitchOK`);
  `rt_current_thread` is the most urgent one (`UrgentOK`). `KernelOK` is needed for
  `SwitchOK` because an `rt_schedule` that took the head of an empty list would leave `to`
  undefined. The lemmas about `Insert`, `Remove` and `Schedule` are stated for any record,
  since threads and interrupts both apply them.
* `Timer`, for any timers, times and number `M` of tick values: `TimerFlagsExact` (`FlagsExact`),
  `ListsStaySorted` (`ListsSorted`), `CallbacksOnTime` (`FiresOnTime`) and `TimerThreadWakesInTime`
  (`NoOversleep`). The code compares ticks modulo `M`; `AtDiffers`,
  `AtLater`, `DueMeansNoneLeft` and `LaterMeansMoreLeft` say that its unsigned comparisons decide as
  the ticks that are left would, as long as these stay below half the range. The
  invariant says why they do: a hard timer is due in the interrupt of its tick at the
  latest (`HardInTime`; the timer thread's own may be one tick late), a soft timer at
  most `MaxLate` ticks ago (`SoftInTime`). `Flags` adds to `FlagsExact` that a timer is only one
  of queued, orphaned and called. For `NoOversleep`, `Wakes` follows the timer thread: unless a soft timer
  was started meanwhile (`missed`), the tick it decides by is that of the first of them, or it
  saw none (`Decides`, `Delays`). `ListWithout` and `ListPlace` say
  what removing and inserting do to a sorted list. `TimerAssumption` asks for a time in
  `Inits`: without one the bounds on `M` would say nothing.
* `Ipc`, for any threads, priorities, mutexes and semaphores: `ListsMatchThreads`
  (`WaitersExact`), `TakesTellTheTruth` (`TakeReturnsTruth`), `OwnersInherit` (`OwnerInherits`),
  `LentPriorityReturns` (`PriorityComesBack`) and `UrgentRuns` (`MostUrgentRuns`). One invariant: no
  thread is twice on a list (`Lists`); a mutex without an owner has no waiters and no holds
  (`MutexOK`); a thread that waits has no result yet (`Waiting`); `owned` is what the owner
  fields say (`Owned`); a thread with two mutexes, or with one and waiting for another, has
  both in `nested` (`NestedOK`); the first waiter is the most urgent one, unless the mutex
  is nested or in order of arrival (`Ordered`), which is what makes `rt_mutex_release`
  right to compare with the first waiter only; whatever lends a priority is still owned
  (`Lends`); the first mutex a thread took remembers its own priority (`FirstIsBase`), the
  reason why `PriorityComesBack` needs `InOrder`; ready threads are not more urgent than
  the one that runs (`Ready`). `ListAppend`, `ListWithout` and `ListInsert` say what the list
  operations do to membership, to duplicates and to the order.
* `SysClock`, for any speed of a device outside the table: `ClockNeverStops` (`ClockAlive`),
  `NeverOverclocked` (`ModulesNotOverclocked`), `FlashReadable` (`FlashWithinLimit`),
  `RecordedClockRuns` (`RecordIsTrue`) and `SdCardClock` (`SdWithinLimit`), with the exceptions these
  properties name (section 2). `Progress` says for every
  step of `set_sysclk` what the steps before it have left in the registers; `Settled` what
  holds between two calls. `SafeDividers` is the argument of the code itself: the dividers
  that `set_peripherals_clkdiv_safety` writes first suffice for every clock of the table, so
  the switch-over may come at any moment after it; this is proved of the chip at the
  240 MHz that PLL0 may reach at any instant (`Fastest`), so that it does not matter when the
  PLL settles. `SdFits` and `SdDriver` say which divider the SD driver leaves behind. The lemmas `RowExact`, `RowWithinLimits`,
  `RowTypes` and `OscillatorSlow` check the table row by row.
* `HwTimer`, for any number and length of periods, any register width and any division of a
  tick: `OverflowsCountTime` (`CountsTime`), `CallbacksExact` (`CallsExact`), `WrittenTimeRuns`
  (`WrittenRuns`) and `ReadIsOfOneMoment` (`ReadWithinPeriod`). They need `Stored`: what each store of
  a write has left behind for the ones after it, if nothing was mixed in; and
  `Exact`, that cycles and reload agree with the callbacks so far. `CompareFits` says when TMRxPR
  holds the period it was computed from, and `WholeTicks`, `Spread` and `Larger` bound what
  a read loses and gains by whole ticks.

Only model-checked: all liveness (`SleeperWakes`, `WriteReturns`, `StopReturns`,
`QueuedIsHeard`, `RequestReturns`, `PeersTakeTurns`, `SoftFires`, `TimesOut`), since fairness
and ENABLED are beyond the prover. Every invariant and both refinements that the runs
check are also proved.

## 5. Not modelled

Sound configuration, RTC, GPIO, PWM, infrared receiver, software I2C, watchdog and the
polling SD HAL have no module yet; they are in the plan below. The ADC driver, the
remaining HAL files, board start-up, reset code and the applications have no protocol
worth a model. UART transmission, the SD bus configuration and card detection, two
application threads on one sound device, thread deletion, mailboxes, message queues and
the deletion of objects that are waited for are missing from components that are otherwise
modelled. The hardware timers that share a vector (TIM2, TIM4, TIM5) and the infrared
receiver's use of one are missing from `HwTimer`.

Most of the repository is vendored: file systems, network stacks, finsh, and the ports of
RT-Thread to other processors. The board's code reaches none of it except through the
paths modelled here.

## 6. Plan

Done: the components in which several actors interact (reception, replay, SD, context
switch), the kernel services they all rest on (timers, semaphores, mutexes), and the two
drivers in which the order of register writes decides (system clock, hardware
timer).

Proved: every safety invariant and both refinements the runs check.

Next, modules: `SoundConfig`, composed with `SoundReplay` (what a restart keeps of rate and
channels); a second application thread in `SoundReplay`, with the replay lock; the infrared
receiver; pure operators against reference definitions (GPIO pin numbers, PWM period and
duty, RTC); mailboxes and message queues in `Ipc`.
