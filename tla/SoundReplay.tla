---------------------------- MODULE SoundReplay ----------------------------
(***************************************************************************)
(* Audio replay: the RT-Thread audio framework (audio.c), the sound driver *)
(* (drv_sound.c), its interrupt and the DAC, and one application thread    *)
(* that opens, writes, stops and closes the device.                        *)
(*                                                                         *)
(*   application --(memory pool blocks, data queue)--> "audio" thread      *)
(*     --(tx_fifo, one frame)--> AUBUF --> DAC                             *)
(*                                                                         *)
(* The unit of data is one 32-bit word (a stereo sample), the unit of      *)
(* AUBUFDATA. Samples are numbered in the order the application writes     *)
(* them, 1, 2, 3 ...; 0 is silence. A thread's step is what it does        *)
(* between two accesses to state another thread or the ISR can change.     *)
(***************************************************************************)
EXTENDS Integers, Sequences, FiniteSets

CONSTANTS
    Block,         \* the blocks of the replay memory pool
    BlockSize,     \* RT_AUDIO_REPLAY_MP_BLOCK_SIZE, in words
    QueueSize,     \* CFG_AUDIO_REPLAY_QUEUE_COUNT
    FrameSize,     \* buf_info.block_size: one frame, half of tx_fifo
    AubufSize,     \* words AUBUF holds
    AubufLow,      \* AUBUF raises its pend flag at this many words or fewer
    AppPrio,       \* the application's priority, seen from the audio thread
    WriteSizes,    \* sizes of the application's writes
    IndexSize,     \* the values of an rt_uint16_t index, in words
    DmaValues,     \* what AUDIO_MIXER_EXTEND may set dma_to_aubuf to
    MaxWords,      \* bound: words the application writes in all
    MaxSessions    \* bound: openings, and restarts after an AUDIO_CTL_STOP

ASSUME SoundReplayAssumption ==
    /\ Block # {} /\ IsFiniteSet(Block)
    /\ BlockSize \in Nat \ {0} /\ FrameSize \in Nat \ {0}
    /\ QueueSize \in Nat /\ Cardinality(Block) <= QueueSize
    /\ AubufSize \in Nat /\ AubufLow \in Nat /\ AubufLow < AubufSize
    /\ AppPrio \in {"higher", "equal", "lower"}
    /\ WriteSizes \subseteq Nat \ {0} /\ DmaValues \subseteq BOOLEAN
    /\ IndexSize \in Nat /\ BlockSize < IndexSize
    /\ MaxWords \in Nat /\ MaxSessions \in Nat

VARIABLES
    \* the application thread
    apc, size, windex, written, opened, closing, sessions,
    aubufcon,      \* BIT(4) of AUBUFCON as sound_start has read it
    \* struct rt_audio_replay, and the driver's dma_to_aubuf
    activated, stopEvt, cmp, dma, write_index, write_data, read_index, pos,
    queue, free, mem,
    \* the audio thread, and the driver's tx_fifo
    tpc, position, index, remain, count, tx_fifo,
    \* the driver's semaphore, AUBUFCON, DACDIGCON0, AUBUF
    sem, intEn, pend, dacOn, aubuf,
    \* the last sample (not silence) the DAC played, and how many it has played
    heard, plays

appVars    == <<apc, size, windex, written, opened, closing, sessions,
                aubufcon>>
ctlVars    == <<activated, stopEvt, cmp, dma>>
poolVars   == <<queue, free, mem>>
writeVars  == <<write_index, write_data>>
readVars   == <<read_index, pos>>
threadVars == <<tpc, position, index, remain, count, tx_fifo>>
hwVars     == <<sem, intEn, pend, dacOn, aubuf, heard, plays>>
vars       == <<appVars, ctlVars, poolVars, writeVars, readVars, threadVars,
                hwVars>>

TotalSize == 2 * FrameSize                    \* buf_info.total_size
Sample    == 0 .. MaxWords
Lesser(m, n) == IF m <= n THEN m ELSE n       \* MIN
Empty     == [i \in 0 .. BlockSize - 1 |-> 0] \* a block after memset

Silence   == [i \in 0 .. FrameSize - 1 |-> 0] \* a frame after memset

\* Mutant: the position wraps one frame late.
WrapLate(p) == IF p > TotalSize THEN p - TotalSize ELSE p

\* pos %= buf_info->total_size
Wrap(p) == p % TotalSize

\* tx_fifo with the n words from p on replaced by f[0], f[1], ...
Filled(p, n, f) ==
    [i \in 0 .. TotalSize - 1 |->
        IF p <= i /\ i < p + n THEN f[i - p] ELSE tx_fifo[i]]

\* The state rt_hw_sound_init and _audio_dev_init leave behind.
Init ==
    /\ apc = "idle" /\ size = 0 /\ windex = 0 /\ written = 0
    /\ opened = FALSE /\ closing = FALSE /\ sessions = 0 /\ aubufcon = FALSE
    /\ activated = FALSE /\ stopEvt = FALSE /\ cmp = FALSE /\ dma = FALSE
    /\ write_index = 0 /\ write_data \in Block
    /\ read_index = 0 /\ pos = 0
    /\ queue = << >> /\ free = Block /\ mem = [b \in Block |-> Empty]
    /\ tpc = "poll" /\ position = 0 /\ index = 0 /\ remain = 0 /\ count = 0
    /\ tx_fifo = [i \in 0 .. TotalSize - 1 |-> 0]
    /\ sem = 0 /\ intEn = FALSE /\ pend = FALSE /\ dacOn = FALSE
    /\ aubuf = << >> /\ heard = 0 /\ plays = 0

-----------------------------------------------------------------------------
(* Scheduling. The audio thread is created with priority 20 and a time     *)
(* slice of one tick. A thread of higher priority runs whenever it is      *)
(* ready; threads of equal priority interleave freely. An idle application *)
(* may be asleep or about to make its next call.                           *)

AppBlocked ==
    \/ apc = "idle"
    \/ apc = "alloc" /\ free = {}
    \/ apc = "wait" /\ ~cmp

ThreadBlocked == tpc = "sleep" \/ (tpc = "pend" /\ sem = 0)

AppRuns    == AppPrio = "lower" => ThreadBlocked
ThreadRuns == AppPrio = "higher" => AppBlocked

\* rt_data_queue_push
Push(b, n) ==
    /\ Len(queue) < QueueSize
    /\ queue' = Append(queue, [blk |-> b, size |-> n])

-----------------------------------------------------------------------------
(* The application thread. The replay lock is only ever taken by the one   *)
(* writing thread, so it is left out.                                      *)

\* _audio_dev_open, RT_DEVICE_OFLAG_WRONLY
Open ==
    /\ AppRuns
    /\ apc = "idle" /\ ~opened /\ sessions < MaxSessions
    /\ opened' = TRUE
    /\ sessions' = sessions + 1
    /\ IF activated
       THEN UNCHANGED <<write_index, read_index, pos, stopEvt>>
       ELSE write_index' = 0 /\ read_index' = 0 /\ pos' = 0 /\ stopEvt' = FALSE
    /\ UNCHANGED <<apc, size, windex, written, closing, aubufcon, activated,
                   cmp, dma, write_data, poolVars, threadVars, hwVars>>

\* where _audio_dev_write's loop goes: on as long as index < size
WriteStep(more, wi) ==
    IF ~more THEN "check" ELSE IF wi = 0 THEN "alloc" ELSE "copy"

\* _audio_dev_write, up to its loop
Write(n) ==
    /\ AppRuns
    /\ apc = "idle" /\ opened /\ written + n <= MaxWords
    /\ size' = n /\ windex' = 0
    /\ written' = written + n
    /\ apc' = WriteStep(TRUE, write_index)
    /\ UNCHANGED <<opened, closing, sessions, aubufcon, ctlVars, poolVars,
                   writeVars, readVars, threadVars, hwVars>>

\* rt_mp_alloc(RT_WAITING_FOREVER), memset
WriteAlloc ==
    /\ AppRuns
    /\ apc = "alloc"
    /\ \E b \in free :
        /\ free' = free \ {b}
        /\ write_data' = b
        /\ mem' = [mem EXCEPT ![b] = Empty]
    /\ apc' = "copy"
    /\ UNCHANGED <<size, windex, written, opened, closing, sessions, aubufcon,
                   ctlVars, queue, write_index, readVars, threadVars, hwVars>>

\* The number of the word at buffer[i] of the call in hand.
Numbered(i) == written - size + 1 + i

\* memcpy into the block, and rt_data_queue_push once it is full. index is an
\* rt_uint16_t: with size past what it holds it wraps, and the loop goes on.
WriteCopy ==
    LET r == Lesser(BlockSize - write_index, size - windex) IN
    /\ AppRuns
    /\ apc = "copy"
    /\ mem' = [mem EXCEPT ![write_data] =
                 [i \in 0 .. BlockSize - 1 |->
                     IF i \in write_index .. write_index + r - 1
                     THEN Numbered(windex + (i - write_index))
                     ELSE @[i]]]
    /\ windex' = (windex + r) % IndexSize
    /\ write_index' = (write_index + r) % BlockSize
    /\ IF write_index' = 0 THEN Push(write_data, BlockSize) ELSE UNCHANGED queue
    /\ apc' = WriteStep(windex' < size, write_index')
    /\ UNCHANGED <<size, written, opened, closing, sessions, aubufcon, ctlVars,
                   free, write_data, readVars, threadVars, hwVars>>

\* the end of _audio_dev_write on a stream that is running already
WriteReturn ==
    /\ AppRuns
    /\ apc = "check" /\ activated
    /\ apc' = "idle"
    /\ UNCHANGED <<size, windex, written, opened, closing, sessions, aubufcon,
                   ctlVars, poolVars, writeVars, readVars, threadVars, hwVars>>

\* _aduio_replay_start -> sound_start, from the end of _audio_dev_write or
\* from AUDIO_CTL_START. Nothing says whether programming AUBUFSTARTADDR
\* empties AUBUF: both are possible.
StartReplay ==
    /\ AppRuns
    /\ ~activated
    /\ apc = "check" \/ (apc = "idle" /\ opened)
    /\ aubuf' \in {aubuf, << >>}
    /\ dacOn' = TRUE
    /\ apc' = "load"
    /\ UNCHANGED <<size, windex, written, opened, closing, sessions, aubufcon,
                   ctlVars, poolVars, writeVars, readVars, threadVars, sem,
                   intEn, pend, heard, plays>>

\* AUBUFCON |= BIT(1), with interrupts on: AUBUFCON is read ...
StartLoad ==
    /\ AppRuns
    /\ apc = "load"
    /\ aubufcon' = intEn
    /\ apc' = "store"
    /\ UNCHANGED <<size, windex, written, opened, closing, sessions, ctlVars,
                   poolVars, writeVars, readVars, threadVars, hwVars>>

\* ... and written back with BIT(1), which clears the pend flag, and with
\* BIT(4) as it was read. (In the other three places BIT(4) itself is set or
\* cleared, whatever was read.)
StartStore ==
    /\ AppRuns
    /\ apc = "store"
    /\ pend' = FALSE /\ intEn' = aubufcon
    /\ apc' = "activate"
    /\ UNCHANGED <<size, windex, written, opened, closing, sessions, aubufcon,
                   ctlVars, poolVars, writeVars, readVars, threadVars, sem,
                   dacOn, aubuf, heard, plays>>

\* audio->replay->activated = RT_TRUE, after ops->start
Activate ==
    /\ AppRuns
    /\ apc = "activate"
    /\ activated' = TRUE
    /\ apc' = "idle"
    /\ UNCHANGED <<size, windex, written, opened, closing, sessions, aubufcon,
                   stopEvt, cmp, dma, poolVars, writeVars, readVars,
                   threadVars, hwVars>>

\* _audio_dev_close (c) or AUDIO_CTL_STOP (~c), up to _aduio_replay_stop's test
Stop(c) ==
    /\ AppRuns
    /\ apc = "idle" /\ opened
    /\ IF c THEN UNCHANGED sessions
            ELSE sessions < MaxSessions /\ sessions' = sessions + 1
    /\ IF activated THEN apc' = "flush" /\ opened' = opened
                    ELSE apc' = apc /\ opened' = ~c
    /\ closing' = c
    /\ UNCHANGED <<size, windex, written, aubufcon, ctlVars, poolVars,
                   writeVars, readVars, threadVars, hwVars>>

\* Mutant: the partly filled block is pushed and kept.
StopFlushKeepsIndex ==
    /\ AppRuns
    /\ apc = "flush"
    /\ IF write_index # 0 THEN Push(write_data, write_index)
                          ELSE UNCHANGED queue
    /\ apc' = "event"
    /\ UNCHANGED <<size, windex, written, opened, closing, sessions, aubufcon,
                   ctlVars, free, mem, writeVars, readVars, threadVars,
                   hwVars>>

\* _audio_flush_replay_frame
StopFlush ==
    /\ AppRuns
    /\ apc = "flush"
    /\ IF write_index # 0 THEN Push(write_data, write_index)
                          ELSE UNCHANGED queue
    /\ write_index' = 0
    /\ apc' = "event"
    /\ UNCHANGED <<size, windex, written, opened, closing, sessions, aubufcon,
                   ctlVars, free, mem, write_data, readVars, threadVars,
                   hwVars>>

\* event |= REPLAY_EVT_STOP
StopEvent ==
    /\ AppRuns
    /\ apc = "event"
    /\ stopEvt' = TRUE
    /\ apc' = "init"
    /\ UNCHANGED <<size, windex, written, opened, closing, sessions, aubufcon,
                   activated, cmp, dma, poolVars, writeVars, readVars,
                   threadVars, hwVars>>

\* rt_completion_init: a done() that came before it is forgotten
StopInit ==
    /\ AppRuns
    /\ apc = "init"
    /\ cmp' = FALSE
    /\ apc' = "wait"
    /\ UNCHANGED <<size, windex, written, opened, closing, sessions, aubufcon,
                   activated, stopEvt, dma, poolVars, writeVars, readVars,
                   threadVars, hwVars>>

\* rt_completion_wait(RT_WAITING_FOREVER) returns
StopWait ==
    /\ AppRuns
    /\ apc = "wait" /\ cmp
    /\ cmp' = FALSE
    /\ apc' = "clear"
    /\ UNCHANGED <<size, windex, written, opened, closing, sessions, aubufcon,
                   activated, stopEvt, dma, poolVars, writeVars, readVars,
                   threadVars, hwVars>>

\* event &= ~REPLAY_EVT_STOP
StopClear ==
    /\ AppRuns
    /\ apc = "clear"
    /\ stopEvt' = FALSE
    /\ apc' = "dacoff"
    /\ UNCHANGED <<size, windex, written, opened, closing, sessions, aubufcon,
                   activated, cmp, dma, poolVars, writeVars, readVars,
                   threadVars, hwVars>>

\* sound_stop: DACDIGCON0 = 0 ...
StopDac ==
    /\ AppRuns
    /\ apc = "dacoff"
    /\ dacOn' = FALSE
    /\ apc' = "intoff"
    /\ UNCHANGED <<size, windex, written, opened, closing, sessions, aubufcon,
                   ctlVars, poolVars, writeVars, readVars, threadVars, sem,
                   intEn, pend, aubuf, heard, plays>>

\* ... AUBUFCON &= ~BIT(4)
StopInt ==
    /\ AppRuns
    /\ apc = "intoff"
    /\ intEn' = FALSE
    /\ apc' = "deactivate"
    /\ UNCHANGED <<size, windex, written, opened, closing, sessions, aubufcon,
                   ctlVars, poolVars, writeVars, readVars, threadVars, sem,
                   pend, dacOn, aubuf, heard, plays>>

\* activated = RT_FALSE; a close also clears the open flag
StopReturn ==
    /\ AppRuns
    /\ apc = "deactivate"
    /\ activated' = FALSE
    /\ opened' = ~closing
    /\ apc' = "idle"
    /\ UNCHANGED <<size, windex, written, closing, sessions, aubufcon, stopEvt,
                   cmp, dma, poolVars, writeVars, readVars, threadVars,
                   hwVars>>

\* the steps inside a call of the device interface
AppStep == \/ WriteAlloc \/ WriteCopy \/ WriteReturn
           \/ (apc = "check" /\ StartReplay) \/ StartLoad \/ StartStore
           \/ Activate
           \/ StopFlush \/ StopEvent \/ StopInit \/ StopWait
           \/ StopClear \/ StopDac \/ StopInt \/ StopReturn

App == \/ Open \/ (\E n \in WriteSizes : Write(n))
       \/ (\E c \in BOOLEAN : Stop(c))
       \/ (apc = "idle" /\ StartReplay) \/ AppStep

-----------------------------------------------------------------------------
(* The audio thread: audio_thread_entry -> rt_audio_tx_complete ->         *)
(* _audio_send_replay_frame -> sound_transmit. It stays out of AUBUF once  *)
(* dma_to_aubuf is set, which leaves AUBUF to somebody else.               *)

\* sound_configure, AUDIO_MIXER_EXTEND, by any thread
ConfigureDma(b) ==
    /\ dma # b /\ dma' = b
    /\ UNCHANGED <<appVars, activated, stopEvt, cmp, poolVars, writeVars,
                   readVars, threadVars, hwVars>>

\* the test of audio_thread_entry
Poll ==
    /\ ThreadRuns
    /\ tpc = "poll"
    /\ tpc' = IF ~dma /\ activated THEN "peek" ELSE "sleep"
    /\ UNCHANGED <<appVars, ctlVars, poolVars, writeVars, readVars, position,
                   index, remain, count, tx_fifo, hwVars>>

\* rt_thread_mdelay(50) ends
Mdelay ==
    /\ tpc = "sleep"
    /\ tpc' = "poll"
    /\ UNCHANGED <<appVars, ctlVars, poolVars, writeVars, readVars, position,
                   index, remain, count, tx_fifo, hwVars>>

\* "save current pos", "check replay queue is empty"
FramePeek ==
    /\ ThreadRuns
    /\ tpc = "peek"
    /\ position' = pos
    /\ index' = 0 /\ remain' = 0
    /\ tpc' = IF queue = << >> THEN "empty" ELSE "memset"
    /\ UNCHANGED <<appVars, ctlVars, poolVars, writeVars, readVars, count,
                   tx_fifo, hwVars>>

\* event & REPLAY_EVT_STOP
FrameTestStop ==
    /\ ThreadRuns
    /\ tpc = "empty"
    /\ tpc' = IF stopEvt THEN "ack" ELSE "zero"
    /\ UNCHANGED <<appVars, ctlVars, poolVars, writeVars, readVars, position,
                   index, remain, count, tx_fifo, hwVars>>

\* Mutant: the stop event is acknowledged once only.
FrameAckOnce ==
    /\ ThreadRuns
    /\ tpc = "ack"
    /\ cmp' = TRUE /\ stopEvt' = FALSE
    /\ tpc' = "zero"
    /\ UNCHANGED <<appVars, activated, dma, poolVars, writeVars, readVars,
                   position, index, remain, count, tx_fifo, hwVars>>

\* rt_completion_done
FrameAck ==
    /\ ThreadRuns
    /\ tpc = "ack"
    /\ cmp' = TRUE
    /\ tpc' = "zero"
    /\ UNCHANGED <<appVars, activated, stopEvt, dma, poolVars, writeVars,
                   readVars, position, index, remain, count, tx_fifo, hwVars>>

\* "send zero frames"
FrameZero ==
    /\ ThreadRuns
    /\ tpc = "zero"
    /\ tx_fifo' = Filled(pos, FrameSize, Silence)
    /\ pos' = Wrap(pos + FrameSize)
    /\ count' = 0
    /\ tpc' = "xmit"
    /\ UNCHANGED <<appVars, ctlVars, poolVars, writeVars, read_index, position,
                   index, remain, hwVars>>

\* Mutant: the frame is not cleared before data is copied to it.
FrameMemsetMissing ==
    /\ ThreadRuns
    /\ tpc = "memset"
    /\ tpc' = "copy"
    /\ UNCHANGED <<appVars, ctlVars, poolVars, writeVars, readVars, position,
                   index, remain, count, tx_fifo, hwVars>>

\* memset of the frame data is copied to
FrameMemset ==
    /\ ThreadRuns
    /\ tpc = "memset"
    /\ tx_fifo' = Filled(pos, FrameSize, Silence)
    /\ tpc' = "copy"
    /\ UNCHANGED <<appVars, ctlVars, poolVars, writeVars, readVars, position,
                   index, remain, count, hwVars>>

\* one turn of the copy loop: memcpy, and once the block is used up
\* rt_data_queue_pop and rt_mp_free
FrameCopy ==
    LET item == Head(queue)
        r    == Lesser(FrameSize - index, item.size - read_index)
    IN
    /\ ThreadRuns
    /\ tpc = "copy" /\ queue # << >>
    /\ tx_fifo' = Filled(pos, r, [i \in 0 .. r - 1 |->
                                     mem[item.blk][read_index + i]])
    /\ remain' = r
    /\ index' = index + r
    /\ pos' = Wrap(pos + r)
    /\ IF read_index + r = item.size
       THEN /\ read_index' = 0
            /\ queue' = Tail(queue)
            /\ free' = free \cup {item.blk}
       ELSE /\ read_index' = read_index + r
            /\ UNCHANGED <<queue, free>>
    /\ count' = 0
    /\ tpc' = IF index' = FrameSize THEN "xmit" ELSE "copy"
    /\ UNCHANGED <<appVars, ctlVars, mem, writeVars, position, hwVars>>

\* Mutant: the position is not taken back before it moves on by a frame.
FrameUnderrunNoBack ==
    /\ ThreadRuns
    /\ tpc = "copy" /\ queue = << >>
    /\ pos' = Wrap(pos + FrameSize)
    /\ read_index' = 0
    /\ count' = 0
    /\ tpc' = "xmit"
    /\ UNCHANGED <<appVars, ctlVars, poolVars, writeVars, position, index,
                   remain, tx_fifo, hwVars>>

\* the copy loop runs out of data: "under run"
FrameUnderrun ==
    /\ ThreadRuns
    /\ tpc = "copy" /\ queue = << >>
    /\ pos' = Wrap(pos - remain + FrameSize)
    /\ read_index' = 0
    /\ count' = 0
    /\ tpc' = "xmit"
    /\ UNCHANGED <<appVars, ctlVars, poolVars, writeVars, position, index,
                   remain, tx_fifo, hwVars>>

\* The i-th word of tx_fifo; what lies beyond its end is another heap block.
Word(i) == IF i < TotalSize THEN {tx_fifo[i]} ELSE {0, MaxWords + 1}

\* AUBUFDATA = writeBuf[count++]; AUBUF drops a word it has no room for
PutWord ==
    /\ \E w \in Word(position + count) :
          aubuf' = IF Len(aubuf) < AubufSize THEN Append(aubuf, w) ELSE aubuf
    /\ count' = count + 1
    /\ tpc' = IF count' = FrameSize THEN "poll" ELSE "xmit"

\* sound_transmit, AUBUF not full
XmitWord ==
    /\ ThreadRuns
    /\ tpc = "xmit" /\ Len(aubuf) < AubufSize
    /\ PutWord
    /\ UNCHANGED <<appVars, ctlVars, poolVars, writeVars, readVars, position,
                   index, remain, tx_fifo, sem, intEn, pend, dacOn, heard,
                   plays>>

\* Mutants: the pend flag of the last time is not cleared, the interrupt is
\* not enabled.
XmitFullStalePend ==
    /\ ThreadRuns
    /\ tpc = "xmit" /\ Len(aubuf) = AubufSize
    /\ intEn' = TRUE
    /\ tpc' = "pend"
    /\ UNCHANGED <<appVars, ctlVars, poolVars, writeVars, readVars, position,
                   index, remain, count, tx_fifo, sem, pend, dacOn, aubuf,
                   heard, plays>>
XmitFullNoInt ==
    /\ ThreadRuns
    /\ tpc = "xmit" /\ Len(aubuf) = AubufSize
    /\ pend' = FALSE
    /\ tpc' = "pend"
    /\ UNCHANGED <<appVars, ctlVars, poolVars, writeVars, readVars, position,
                   index, remain, count, tx_fifo, sem, intEn, dacOn, aubuf,
                   heard, plays>>

\* sound_transmit, AUBUF full: AUBUFCON |= BIT(1) | BIT(4)
XmitFull ==
    /\ ThreadRuns
    /\ tpc = "xmit" /\ Len(aubuf) = AubufSize
    /\ pend' = FALSE /\ intEn' = TRUE
    /\ tpc' = "pend"
    /\ UNCHANGED <<appVars, ctlVars, poolVars, writeVars, readVars, position,
                   index, remain, count, tx_fifo, sem, dacOn, aubuf, heard,
                   plays>>

\* audio_sem_pend returns
XmitPend ==
    /\ ThreadRuns
    /\ tpc = "pend" /\ sem > 0
    /\ sem' = sem - 1
    /\ tpc' = "put"
    /\ UNCHANGED <<appVars, ctlVars, poolVars, writeVars, readVars, position,
                   index, remain, count, tx_fifo, intEn, pend, dacOn, aubuf,
                   heard, plays>>

\* the word is written without another look at the full flag
XmitPut ==
    /\ ThreadRuns
    /\ tpc = "put"
    /\ PutWord
    /\ UNCHANGED <<appVars, ctlVars, poolVars, writeVars, readVars, position,
                   index, remain, tx_fifo, sem, intEn, pend, dacOn, heard,
                   plays>>

Thread == \/ Poll \/ Mdelay \/ FramePeek \/ FrameTestStop \/ FrameAck
          \/ FrameZero \/ FrameMemset \/ FrameCopy \/ FrameUnderrun
          \/ XmitWord \/ XmitFull \/ XmitPend \/ XmitPut

-----------------------------------------------------------------------------
(* The interrupt and the DAC.                                              *)

\* Mutant: the interrupt is handled, the semaphore not posted.
AudioIsrNoPost ==
    /\ intEn /\ pend
    /\ pend' = FALSE /\ intEn' = FALSE
    /\ UNCHANGED <<appVars, ctlVars, poolVars, writeVars, readVars, threadVars,
                   sem, dacOn, aubuf, heard, plays>>

\* audio_isr -> audio_sem_post
AudioIsr ==
    /\ intEn /\ pend
    /\ pend' = FALSE /\ intEn' = FALSE
    /\ sem' = sem + 1
    /\ UNCHANGED <<appVars, ctlVars, poolVars, writeVars, readVars, threadVars,
                   dacOn, aubuf, heard, plays>>

\* the enabled DAC takes a word from AUBUF
DacPlay ==
    /\ dacOn /\ aubuf # << >>
    /\ aubuf' = Tail(aubuf)
    /\ IF Head(aubuf) = 0 THEN UNCHANGED <<heard, plays>>
       ELSE heard' = Head(aubuf) /\ plays' = plays + 1
    /\ UNCHANGED <<appVars, ctlVars, poolVars, writeVars, readVars, threadVars,
                   sem, intEn, pend, dacOn>>

\* AUBUF runs low: BIT(5) comes up, and comes back up while it stays low
AubufPend ==
    /\ dacOn /\ ~pend /\ Len(aubuf) <= AubufLow
    /\ pend' = TRUE
    /\ UNCHANGED <<appVars, ctlVars, poolVars, writeVars, readVars, threadVars,
                   sem, intEn, dacOn, aubuf, heard, plays>>

Next == \/ App \/ Thread \/ AudioIsr \/ DacPlay \/ AubufPend
        \/ (\E b \in DmaValues : ConfigureDma(b))

Spec == Init /\ [][Next]_vars

(* Fairness. A call once made is carried on and the audio thread is        *)
(* scheduled: each of the two threads blocks again and again and then      *)
(* leaves the CPU to the other (strong fairness, because a thread of lower *)
(* priority is ready only now and then). Interrupts are served and an      *)
(* enabled DAC plays. That the application makes another call is not       *)
(* assumed.                                                                *)
FairSpec == /\ Spec
            /\ SF_vars(AppStep) /\ SF_vars(Thread)
            /\ WF_vars(AudioIsr) /\ WF_vars(DacPlay) /\ WF_vars(AubufPend)

-----------------------------------------------------------------------------
(* Properties.                                                             *)

AppTypeOK ==
    /\ apc \in {"idle", "alloc", "copy", "check", "load", "store", "activate",
                "flush", "event", "init", "wait", "clear", "dacoff", "intoff",
                "deactivate"}
    /\ size \in 0 .. written /\ windex \in 0 .. IndexSize - 1
    /\ written \in Nat /\ sessions \in Nat
    /\ opened \in BOOLEAN /\ closing \in BOOLEAN /\ aubufcon \in BOOLEAN
CtlTypeOK == activated \in BOOLEAN /\ stopEvt \in BOOLEAN /\ cmp \in BOOLEAN
             /\ dma \in BOOLEAN
PoolTypeOK ==
    /\ queue \in Seq([blk : Block, size : 1 .. BlockSize])
    /\ free \subseteq Block
    /\ mem \in [Block -> [0 .. BlockSize - 1 -> Nat]]
WriteTypeOK == write_index \in 0 .. BlockSize - 1 /\ write_data \in Block
ReadTypeOK == read_index \in 0 .. BlockSize - 1 /\ pos \in 0 .. TotalSize - 1
ThreadTypeOK ==
    /\ tpc \in {"poll", "sleep", "peek", "empty", "ack", "zero", "memset",
                "copy", "xmit", "pend", "put"}
    /\ position \in 0 .. TotalSize - 1 /\ index \in 0 .. FrameSize
    /\ remain \in 0 .. FrameSize /\ count \in 0 .. FrameSize
    /\ tx_fifo \in [0 .. TotalSize - 1 -> Nat]
HwTypeOK ==
    /\ sem \in Nat /\ intEn \in BOOLEAN /\ pend \in BOOLEAN /\ dacOn \in BOOLEAN
    /\ aubuf \in Seq(Nat) /\ heard \in Nat /\ plays \in Nat

\* Every variable keeps its type: the indices into pool blocks, tx_fifo and
\* frames that audio.c and drv_sound.c compute stay in their ranges.
TypeOK == /\ AppTypeOK /\ CtlTypeOK /\ PoolTypeOK /\ WriteTypeOK
          /\ ReadTypeOK /\ ThreadTypeOK /\ HwTypeOK

\* sound_transmit does not look at the full flag again after audio_sem_pend:
\* whenever the semaphore lets it through, AUBUF really has room. This is said
\* of the first session; from the second on, sound_start may write back an
\* interrupt enable that the interrupt has just taken away.
NoAubufOverflow == sessions <= 1 /\ tpc = "put" => Len(aubuf) < AubufSize

\* The block the application is filling.
Filling == IF apc = "copy" \/ write_index # 0 THEN {write_data} ELSE {}

\* The blocks in the data queue.
Queued == {queue[i].blk : i \in 1 .. Len(queue)}

\* Every pool block has exactly one owner: the pool, the writer, or one
\* place in the data queue (rt_mp_alloc, push, pop and rt_mp_free never lose
\* or duplicate one, whatever the application and the audio thread do).
OneOwner ==
    /\ free \cup Filling \cup Queued = Block
    /\ free \cap Filling = {} /\ free \cap Queued = {}
    /\ Filling \cap Queued = {}
    /\ \A i, j \in 1 .. Len(queue) : i # j => queue[i].blk # queue[j].blk

\* Every word of the frame in hand lies in tx_fifo: memset, memcpy and
\* sound_transmit stay inside the two halves that sound_buffer_info draws,
\* underruns included.
FrameInFifo ==
    /\ tpc \in {"zero", "memset"} => pos \in {0, FrameSize}
    /\ tpc = "copy" => pos + (FrameSize - index) <= TotalSize
    /\ tpc \in {"xmit", "pend", "put"} => position \in {0, FrameSize}

Writing  == apc \in {"alloc", "copy", "check", "load", "store", "activate"}
Stopping == apc \in {"flush", "event", "init", "wait", "clear", "dacoff",
                     "intoff", "deactivate"}

\* A write that fits the pool, or finds the stream running, returns: neither
\* rt_mp_alloc nor rt_data_queue_push blocks for ever, unless dma_to_aubuf is
\* set meanwhile: the audio thread then asks for no frame and frees no block.
\* (The write is smaller than what its index counts.)
WriteReturns == Writing ~> (~Writing \/ dma)

\* A stop returns: the handshake between event, completion and the audio
\* thread loses no signal that is not given again. With dma_to_aubuf set the
\* audio thread does not look at the event and this is not promised.
StopReturns == Stopping ~> (~Stopping \/ dma)

\* A sample in the data queue is heard, unless the stream is stopped or
\* dma_to_aubuf set meanwhile.
QueuedIsHeard ==
    \A k \in 1 .. MaxWords :
        (\E i \in 1 .. Len(queue) : \E j \in 0 .. queue[i].size - 1 :
            mem[queue[i].blk][j] = k)
        ~> (heard >= k \/ ~dacOn \/ dma)

\* What is heard is what was written: every sample once, in order, none
\* skipped, none repeated, silence only in between.
Stream == INSTANCE ReplayStream
              WITH accepted <- written, played <- heard
RefinesReplayStream == Stream!StreamSpec
============================================================================
