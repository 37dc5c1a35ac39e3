------------------------- MODULE SoundReplayProofs -------------------------
(***************************************************************************)
(* Proofs about SoundReplay for every pool, block, frame and AUBUF size.   *)
(* Types and the owners of the blocks: at every relative priority of the   *)
(* application and for any number of sessions. AUBUF: in the first         *)
(* session. Frames: where FramesFill and Quiet below hold. The stream: in  *)
(* one session of writes that an rt_uint16_t can count.                    *)
(***************************************************************************)
EXTENDS SoundReplay, TLAPS

Item == [blk : Block, size : 1 .. BlockSize]

\* The assumptions on the sizes, without the rest.
LEMMA Sizes ==
  /\ BlockSize \in Nat /\ BlockSize > 0 /\ FrameSize \in Nat /\ FrameSize > 0
  /\ TotalSize \in Nat /\ TotalSize = 2 * FrameSize
  BY SoundReplayAssumption DEF TotalSize

-----------------------------------------------------------------------------
(* Types. Three facts besides TypeOK make it inductive: the reader's       *)
(* offset lies inside the block at the head of the queue, and the loops of *)
(* the copy, of the transmission and of the write have not reached their   *)
(* ends.                                                                   *)

ReadInHead == read_index = 0 \/ (queue # << >> /\ read_index < Head(queue).size)
LoopsOpen ==
    /\ tpc \in {"memset", "copy"} => index < FrameSize
    /\ tpc \in {"xmit", "pend", "put"} => count < FrameSize

\* The loop of _audio_dev_write goes round with words left.
WriteOpen == apc \in {"alloc", "copy"} => windex < size

Typed == TypeOK /\ ReadInHead /\ LoopsOpen

TypeInv == Typed /\ WriteOpen

\* A part of the state that a step leaves alone keeps its type.
LEMMA SameTypes ==
  ASSUME TypeOK
  PROVE  /\ UNCHANGED appVars => AppTypeOK'
         /\ UNCHANGED ctlVars => CtlTypeOK'
         /\ UNCHANGED poolVars => PoolTypeOK'
         /\ UNCHANGED writeVars => WriteTypeOK'
         /\ UNCHANGED readVars => ReadTypeOK'
         /\ UNCHANGED threadVars => ThreadTypeOK'
         /\ UNCHANGED hwVars => HwTypeOK'
<1>1. UNCHANGED appVars => AppTypeOK'
  BY DEF TypeOK, AppTypeOK, appVars
<1>2. UNCHANGED ctlVars => CtlTypeOK'
  BY DEF TypeOK, CtlTypeOK, ctlVars
<1>3. UNCHANGED poolVars => PoolTypeOK'
  BY DEF TypeOK, PoolTypeOK, poolVars
<1>4. UNCHANGED writeVars => WriteTypeOK'
  BY DEF TypeOK, WriteTypeOK, writeVars
<1>5. UNCHANGED readVars => ReadTypeOK'
  BY DEF TypeOK, ReadTypeOK, readVars
<1>6. UNCHANGED threadVars => ThreadTypeOK'
  BY DEF TypeOK, ThreadTypeOK, threadVars
<1>7. UNCHANGED hwVars => HwTypeOK'
  BY DEF TypeOK, HwTypeOK, hwVars
<1> QED BY <1>1, <1>2, <1>3, <1>4, <1>5, <1>6, <1>7

\* What TypeInv adds to TypeOK speaks of the queue, the audio thread and the
\* write in hand only.
LEMMA SameLoops ==
  ASSUME ReadInHead, LoopsOpen, WriteOpen
  PROVE  /\ UNCHANGED <<queue, read_index>> => ReadInHead'
         /\ UNCHANGED threadVars => LoopsOpen'
         /\ UNCHANGED appVars => WriteOpen'
  BY DEF ReadInHead, LoopsOpen, WriteOpen, threadVars, appVars

\* What a push does to the queue and to the item at its head.
LEMMA PushQueue ==
  ASSUME queue \in Seq(Item), NEW b \in Block, NEW n \in 1 .. BlockSize, Push(b, n)
  PROVE  /\ queue' \in Seq(Item) /\ queue' # << >>
         /\ queue # << >> => Head(queue') = Head(queue)
  BY DEF Push, Item

\* The fill position wraps inside tx_fifo.
LEMMA WrapType ==
  ASSUME NEW p \in Nat PROVE Wrap(p) \in 0 .. TotalSize - 1
  BY Sizes DEF Wrap

\* Filling part of a frame leaves tx_fifo a function on its words.
LEMMA FilledType ==
  ASSUME tx_fifo \in [0 .. TotalSize - 1 -> Nat], NEW p \in Nat, NEW n \in Nat,
         NEW f \in [0 .. n - 1 -> Nat]
  PROVE  Filled(p, n, f) \in [0 .. TotalSize - 1 -> Nat]
<1> SUFFICES ASSUME NEW i \in 0 .. TotalSize - 1
             PROVE  (IF p <= i /\ i < p + n THEN f[i - p] ELSE tx_fifo[i]) \in Nat
  BY DEF Filled
<1>1. CASE p <= i /\ i < p + n
  <2>1. i - p \in 0 .. n - 1
    BY <1>1, Sizes
  <2> QED BY <1>1, <2>1
<1>2. CASE ~(p <= i /\ i < p + n)
  BY <1>2
<1> QED BY <1>1, <1>2

\* The state rt_hw_sound_init leaves satisfies TypeInv.
LEMMA InitType == Init => TypeInv
<1> SUFFICES ASSUME Init PROVE TypeInv
  OBVIOUS
<1>1. /\ 0 \in 0 .. BlockSize - 1 /\ 0 \in 0 .. TotalSize - 1 /\ 0 \in 0 .. FrameSize
      /\ 0 \in Nat /\ 0 \in 0 .. IndexSize - 1
  BY Sizes, SoundReplayAssumption
<1>2. Empty \in [0 .. BlockSize - 1 -> Nat]
  BY DEF Empty
<1>3. AppTypeOK /\ CtlTypeOK
  <2>1. size \in 0 .. written /\ windex \in 0 .. IndexSize - 1
    BY <1>1 DEF Init
  <2>2. /\ written \in Nat /\ sessions \in Nat /\ opened \in BOOLEAN
        /\ closing \in BOOLEAN /\ aubufcon \in BOOLEAN /\ apc = "idle"
    BY DEF Init
  <2>3. CtlTypeOK
    BY Zenon DEF Init, CtlTypeOK
  <2> QED BY <2>1, <2>2, <2>3 DEF AppTypeOK
<1>4. PoolTypeOK
  BY <1>2 DEF Init, PoolTypeOK
<1>5. WriteTypeOK /\ ReadTypeOK /\ ThreadTypeOK
  BY <1>1 DEF Init, WriteTypeOK, ReadTypeOK, ThreadTypeOK
<1>6. HwTypeOK
  <2>1. aubuf \in Seq(Nat)
    BY DEF Init
  <2> QED BY <1>1, <2>1 DEF Init, HwTypeOK
<1>7. ReadInHead /\ LoopsOpen /\ WriteOpen
  BY DEF Init, ReadInHead, LoopsOpen, WriteOpen
<1> QED BY <1>3, <1>4, <1>5, <1>6, <1>7 DEF TypeInv, Typed, TypeOK

\* A step of the application leaves its write with words to copy.
LEMMA AppOpen ==
  ASSUME TypeInv, App PROVE WriteOpen'
<1>1. ASSUME NEW n \in WriteSizes, Write(n) PROVE WriteOpen'
  <2>1. n \in Nat /\ n > 0 /\ size' = n /\ windex' = 0
    BY <1>1, SoundReplayAssumption DEF Write
  <2> QED BY <2>1 DEF WriteOpen
<1>2. CASE WriteCopy
  BY <1>2 DEF WriteCopy, WriteStep, WriteOpen
<1>3. CASE WriteAlloc
  BY <1>3 DEF WriteAlloc, TypeInv, WriteOpen
<1>4. CASE Open \/ (\E c \in BOOLEAN : Stop(c))
  <2>1. apc' \in {"idle", "flush"}
    BY <1>4, Zenon DEF Open, Stop
  <2> QED BY <2>1 DEF WriteOpen
<1>5. CASE \/ StartReplay \/ StartLoad \/ StartStore \/ WriteReturn \/ Activate
           \/ StopFlush \/ StopEvent \/ StopInit \/ StopWait \/ StopClear
           \/ StopDac \/ StopInt \/ StopReturn
  <2>1. apc' \notin {"alloc", "copy"}
    BY <1>5 DEF StartReplay, StartLoad, StartStore, WriteReturn, Activate, StopFlush,
       StopEvent, StopInit, StopWait, StopClear, StopDac, StopInt, StopReturn
  <2> QED BY <2>1 DEF WriteOpen
<1> QED BY <1>1, <1>2, <1>3, <1>4, <1>5 DEF App, AppStep

\* Every step of the application (open, write, stop) keeps the rest.
LEMMA AppTyped ==
  ASSUME TypeInv, App PROVE Typed'
<1> USE DEF TypeInv, Typed
<1>1. CASE Open
  <2>1. 0 \in 0 .. BlockSize - 1 /\ 0 \in 0 .. TotalSize - 1
    BY Sizes
  <2>2. UNCHANGED <<poolVars, threadVars, hwVars, write_data>>
    BY <1>1 DEF Open
  <2>3. AppTypeOK'
    BY <1>1 DEF Open, TypeOK, AppTypeOK
  <2>4. CtlTypeOK'
    BY <1>1 DEF Open, TypeOK, CtlTypeOK
  <2>5. WriteTypeOK' /\ ReadTypeOK'
    BY <1>1, <2>1 DEF Open, TypeOK, WriteTypeOK, ReadTypeOK
  <2>6. ReadInHead'
    BY <1>1 DEF Open, ReadInHead, poolVars
  <2> QED BY <2>2, <2>3, <2>4, <2>5, <2>6, SameTypes, SameLoops DEF TypeOK
<1>2. ASSUME NEW n \in WriteSizes, Write(n) PROVE Typed'
  <2>1. UNCHANGED <<ctlVars, poolVars, writeVars, readVars, threadVars, hwVars>>
    BY <1>2 DEF Write
  <2>2. UNCHANGED <<queue, read_index>>
    BY <2>1 DEF poolVars, readVars
  <2>3. n \in Nat /\ 0 \in 0 .. IndexSize - 1
    BY SoundReplayAssumption
  <2>4. AppTypeOK'
    <3>1. size' \in 0 .. written' /\ written' \in Nat /\ windex' \in 0 .. IndexSize - 1
      BY <1>2, <2>3 DEF Write, TypeOK, AppTypeOK
    <3> QED BY <1>2, <3>1 DEF Write, WriteStep, TypeOK, AppTypeOK
  <2> QED BY <2>1, <2>2, <2>4, SameTypes, SameLoops DEF TypeOK
<1>3. CASE WriteAlloc
  <2> PICK b \in free : /\ free' = free \ {b}
                        /\ write_data' = b
                        /\ mem' = [mem EXCEPT ![b] = Empty]
    BY <1>3 DEF WriteAlloc
  <2>1. UNCHANGED <<ctlVars, queue, write_index, readVars, threadVars, hwVars>>
    BY <1>3 DEF WriteAlloc
  <2>2. Empty \in [0 .. BlockSize - 1 -> Nat]
    BY DEF Empty
  <2>3. b \in Block /\ PoolTypeOK'
    BY <2>1, <2>2 DEF TypeOK, PoolTypeOK
  <2>4. AppTypeOK'
    BY <1>3 DEF WriteAlloc, TypeOK, AppTypeOK
  <2>5. WriteTypeOK'
    BY <2>1, <2>3 DEF TypeOK, WriteTypeOK
  <2>6. UNCHANGED <<queue, read_index>>
    BY <2>1 DEF readVars
  <2> QED BY <2>1, <2>3, <2>4, <2>5, <2>6, SameTypes, SameLoops DEF TypeOK
<1>4. CASE WriteCopy
  <2> DEFINE r == Lesser(BlockSize - write_index, size - windex)
             new == [i \in 0 .. BlockSize - 1 |->
                        IF i \in write_index .. write_index + r - 1
                        THEN Numbered(windex + (i - write_index))
                        ELSE mem[write_data][i]]
  <2>0. /\ size \in 0 .. written /\ windex \in 0 .. IndexSize - 1 /\ windex < size
        /\ written \in Nat /\ write_data \in Block
        /\ write_index \in 0 .. BlockSize - 1
        /\ queue \in Seq(Item) /\ mem \in [Block -> [0 .. BlockSize - 1 -> Nat]]
        /\ IndexSize \in Nat /\ IndexSize > 0
    <3>1. windex < size
      BY <1>4 DEF WriteCopy, WriteOpen
    <3>2. IndexSize \in Nat /\ BlockSize < IndexSize
      BY SoundReplayAssumption
    <3> QED BY <3>1, <3>2, Sizes DEF TypeOK, AppTypeOK, WriteTypeOK, PoolTypeOK, Item
  <2>1. r \in Nat
    BY <2>0, Sizes DEF Lesser
  <2>2. new \in [0 .. BlockSize - 1 -> Nat]
    <3> SUFFICES ASSUME NEW i \in 0 .. BlockSize - 1 PROVE new[i] \in Nat
      OBVIOUS
    <3>1. CASE i \in write_index .. write_index + r - 1
      <4>1. new[i] = written - size + 1 + (windex + (i - write_index))
        BY <3>1 DEF Numbered
      <4>2. i - write_index \in Nat
        BY <3>1, <2>0
      <4> QED BY <4>1, <4>2, <2>0
    <3>2. CASE i \notin write_index .. write_index + r - 1
      BY <3>2, <2>0
    <3> QED BY <3>1, <3>2
  <2>3. mem' = [mem EXCEPT ![write_data] = new] /\ free' = free
    BY <1>4 DEF WriteCopy
  <2>4. /\ windex' = (windex + r) % IndexSize /\ UNCHANGED <<size, written>>
        /\ write_index' = (write_index + r) % BlockSize /\ write_data' = write_data
    BY <1>4 DEF WriteCopy
  <2> HIDE DEF r, new
  <2>5. windex' \in 0 .. IndexSize - 1
    BY <2>0, <2>1, <2>4
  <2>6. WriteTypeOK'
    BY <2>0, <2>1, <2>4, Sizes DEF WriteTypeOK
  <2>7. /\ queue' \in Seq(Item)
        /\ queue # << >> => queue' # << >> /\ Head(queue') = Head(queue)
    <3>1. CASE write_index' = 0
      <4>1. Push(write_data, BlockSize) /\ BlockSize \in 1 .. BlockSize
        BY <1>4, <3>1, Sizes DEF WriteCopy
      <4> QED BY <4>1, <2>0, PushQueue
    <3>2. CASE write_index' # 0
      BY <1>4, <2>0, <3>2 DEF WriteCopy
    <3> QED BY <3>1, <3>2
  <2>8. PoolTypeOK'
    BY <2>0, <2>2, <2>3, <2>7 DEF TypeOK, PoolTypeOK, Item
  <2>9. apc' \in {"check", "alloc", "copy"}
    BY <1>4 DEF WriteCopy, WriteStep
  <2>10. AppTypeOK'
    BY <1>4, <2>4, <2>5, <2>9 DEF WriteCopy, TypeOK, AppTypeOK
  <2>11. UNCHANGED <<ctlVars, readVars, threadVars, hwVars>>
    BY <1>4 DEF WriteCopy
  <2>12. ReadInHead'
    BY <2>7, <2>11 DEF ReadInHead, readVars
  <2> QED BY <2>6, <2>8, <2>10, <2>11, <2>12, SameTypes, SameLoops DEF TypeOK
<1>5. CASE WriteReturn
  <2>1. UNCHANGED <<ctlVars, poolVars, writeVars, readVars, threadVars, hwVars>>
    BY <1>5 DEF WriteReturn
  <2>2. AppTypeOK'
    BY <1>5 DEF WriteReturn, TypeOK, AppTypeOK
  <2>3. UNCHANGED <<queue, read_index>>
    BY <2>1 DEF poolVars, readVars
  <2> QED BY <2>1, <2>2, <2>3, SameTypes, SameLoops DEF TypeOK
<1>6. CASE StartReplay
  <2>1. UNCHANGED <<ctlVars, poolVars, writeVars, readVars, threadVars>>
    BY <1>6 DEF StartReplay
  <2>2. AppTypeOK'
    BY <1>6 DEF StartReplay, TypeOK, AppTypeOK
  <2>3. UNCHANGED <<queue, read_index>>
    BY <2>1 DEF poolVars, readVars
  <2>4. HwTypeOK'
    <3>1. aubuf' = aubuf \/ aubuf' = << >>
      BY <1>6 DEF StartReplay
    <3>2. << >> \in Seq(Nat)
      OBVIOUS
    <3>3. aubuf' \in Seq(Nat)
      BY <3>1, <3>2 DEF TypeOK, HwTypeOK
    <3> QED BY <1>6, <3>3 DEF StartReplay, TypeOK, HwTypeOK
  <2> QED BY <2>1, <2>2, <2>3, <2>4, SameTypes, SameLoops DEF TypeOK
<1>7. CASE Activate
  <2>1. UNCHANGED <<poolVars, writeVars, readVars, threadVars, hwVars>>
    BY <1>7 DEF Activate
  <2>2. AppTypeOK' /\ CtlTypeOK'
    BY <1>7 DEF Activate, TypeOK, AppTypeOK, CtlTypeOK
  <2>3. UNCHANGED <<queue, read_index>>
    BY <2>1 DEF poolVars, readVars
  <2> QED BY <2>1, <2>2, <2>3, SameTypes, SameLoops DEF TypeOK
<1>8. ASSUME NEW c \in BOOLEAN, Stop(c) PROVE Typed'
  <2>1. UNCHANGED <<ctlVars, poolVars, writeVars, readVars, threadVars, hwVars>>
    BY <1>8 DEF Stop
  <2>2. AppTypeOK'
    <3>1. sessions' \in Nat
      BY <1>8 DEF Stop, TypeOK, AppTypeOK
    <3>2. (apc' = apc \/ apc' = "flush") /\ closing' \in BOOLEAN /\ opened' \in BOOLEAN
      BY <1>8, Zenon DEF Stop, TypeOK, AppTypeOK
    <3> QED BY <1>8, <3>1, <3>2 DEF Stop, TypeOK, AppTypeOK
  <2>3. UNCHANGED <<queue, read_index>>
    BY <2>1 DEF poolVars, readVars
  <2> QED BY <2>1, <2>2, <2>3, SameTypes, SameLoops DEF TypeOK
<1>9. CASE StopFlush
  <2>0. /\ write_data \in Block /\ write_index \in 0 .. BlockSize - 1
        /\ queue \in Seq(Item)
    BY DEF TypeOK, WriteTypeOK, PoolTypeOK, Item
  <2>1. /\ queue' \in Seq(Item)
        /\ queue # << >> => queue' # << >> /\ Head(queue') = Head(queue)
    <3>1. CASE write_index # 0
      <4>1. Push(write_data, write_index) /\ write_index \in 1 .. BlockSize
        BY <1>9, <2>0, <3>1, Sizes DEF StopFlush
      <4> QED BY <4>1, <2>0, PushQueue
    <3>2. CASE write_index = 0
      BY <1>9, <2>0, <3>2 DEF StopFlush
    <3> QED BY <3>1, <3>2
  <2>2. UNCHANGED <<ctlVars, free, mem, write_data, readVars, threadVars, hwVars>>
        /\ write_index' = 0
    BY <1>9 DEF StopFlush
  <2>3. PoolTypeOK'
    BY <2>1, <2>2 DEF TypeOK, PoolTypeOK, Item
  <2>4. WriteTypeOK'
    BY <2>0, <2>2, Sizes DEF WriteTypeOK
  <2>5. AppTypeOK'
    BY <1>9 DEF StopFlush, TypeOK, AppTypeOK
  <2>6. ReadInHead'
    BY <2>1, <2>2 DEF ReadInHead, readVars
  <2> QED BY <2>2, <2>3, <2>4, <2>5, <2>6, SameTypes, SameLoops DEF TypeOK
<1>10. CASE StopEvent \/ StopInit \/ StopWait \/ StopClear
  <2>1. UNCHANGED <<poolVars, writeVars, readVars, threadVars, hwVars>>
    BY <1>10 DEF StopEvent, StopInit, StopWait, StopClear
  <2>2. AppTypeOK'
    BY <1>10 DEF StopEvent, StopInit, StopWait, StopClear, TypeOK, AppTypeOK
  <2>3. CtlTypeOK'
    BY <1>10 DEF StopEvent, StopInit, StopWait, StopClear, TypeOK, CtlTypeOK
  <2>4. UNCHANGED <<queue, read_index>>
    BY <2>1 DEF poolVars, readVars
  <2> QED BY <2>1, <2>2, <2>3, <2>4, SameTypes, SameLoops DEF TypeOK
<1>11. CASE StopDac \/ StopInt
  <2>1. UNCHANGED <<ctlVars, poolVars, writeVars, readVars, threadVars>>
    BY <1>11 DEF StopDac, StopInt
  <2>2. AppTypeOK'
    BY <1>11 DEF StopDac, StopInt, TypeOK, AppTypeOK
  <2>3. HwTypeOK'
    BY <1>11 DEF StopDac, StopInt, TypeOK, HwTypeOK
  <2>4. UNCHANGED <<queue, read_index>>
    BY <2>1 DEF poolVars, readVars
  <2> QED BY <2>1, <2>2, <2>3, <2>4, SameTypes, SameLoops DEF TypeOK
<1>12. CASE StopReturn
  <2>1. UNCHANGED <<poolVars, writeVars, readVars, threadVars, hwVars>>
    BY <1>12 DEF StopReturn
  <2>2. AppTypeOK' /\ CtlTypeOK'
    BY <1>12 DEF StopReturn, TypeOK, AppTypeOK, CtlTypeOK
  <2>3. UNCHANGED <<queue, read_index>>
    BY <2>1 DEF poolVars, readVars
  <2> QED BY <2>1, <2>2, <2>3, SameTypes, SameLoops DEF TypeOK
<1>13. CASE StartLoad
  <2>1. UNCHANGED <<ctlVars, poolVars, writeVars, readVars, threadVars, hwVars>>
    BY <1>13 DEF StartLoad
  <2>2. AppTypeOK'
    BY <1>13 DEF StartLoad, TypeOK, AppTypeOK, HwTypeOK
  <2>3. UNCHANGED <<queue, read_index>>
    BY <2>1 DEF poolVars, readVars
  <2> QED BY <2>1, <2>2, <2>3, SameTypes, SameLoops DEF TypeOK
<1>14. CASE StartStore
  <2>1. UNCHANGED <<ctlVars, poolVars, writeVars, readVars, threadVars>>
    BY <1>14 DEF StartStore
  <2>2. AppTypeOK'
    BY <1>14 DEF StartStore, TypeOK, AppTypeOK
  <2>3. HwTypeOK'
    BY <1>14 DEF StartStore, TypeOK, AppTypeOK, HwTypeOK
  <2>4. UNCHANGED <<queue, read_index>>
    BY <2>1 DEF poolVars, readVars
  <2> QED BY <2>1, <2>2, <2>3, <2>4, SameTypes, SameLoops DEF TypeOK
<1> QED
  BY <1>1, <1>2, <1>3, <1>4, <1>5, <1>6, <1>7, <1>8, <1>9, <1>10, <1>11, <1>12,
     <1>13, <1>14
  DEF App, AppStep

\* Every step of the audio thread keeps TypeInv.
LEMMA ThreadType ==
  ASSUME TypeInv, Thread PROVE TypeInv'
<1> USE DEF TypeInv, Typed
<1>0. /\ tx_fifo \in [0 .. TotalSize - 1 -> Nat] /\ pos \in Nat
      /\ position \in Nat /\ count \in Nat
      /\ Silence \in [0 .. FrameSize - 1 -> Nat]
  BY Sizes DEF TypeOK, ThreadTypeOK, ReadTypeOK, Silence
<1>1. CASE Poll \/ Mdelay \/ FrameTestStop
  <2>1. UNCHANGED <<appVars, ctlVars, poolVars, writeVars, readVars, hwVars>>
    BY <1>1 DEF Poll, Mdelay, FrameTestStop
  <2>2. ThreadTypeOK' /\ LoopsOpen'
    BY <1>1 DEF Poll, Mdelay, FrameTestStop, TypeOK, ThreadTypeOK, LoopsOpen
  <2>3. UNCHANGED <<queue, read_index>>
    BY <2>1 DEF poolVars, readVars
  <2> QED BY <2>1, <2>2, <2>3, SameTypes, SameLoops DEF TypeOK
<1>2. CASE FramePeek
  <2>1. UNCHANGED <<appVars, ctlVars, poolVars, writeVars, readVars, hwVars>>
    BY <1>2 DEF FramePeek
  <2>2. ThreadTypeOK' /\ LoopsOpen'
    BY <1>2, Sizes DEF FramePeek, TypeOK, ThreadTypeOK, ReadTypeOK, LoopsOpen
  <2>3. UNCHANGED <<queue, read_index>>
    BY <2>1 DEF poolVars, readVars
  <2> QED BY <2>1, <2>2, <2>3, SameTypes, SameLoops DEF TypeOK
<1>3. CASE FrameAck
  <2>1. UNCHANGED <<appVars, poolVars, writeVars, readVars, hwVars>>
    BY <1>3 DEF FrameAck
  <2>2. ThreadTypeOK' /\ LoopsOpen'
    BY <1>3 DEF FrameAck, TypeOK, ThreadTypeOK, LoopsOpen
  <2>3. CtlTypeOK'
    BY <1>3 DEF FrameAck, TypeOK, CtlTypeOK
  <2>4. UNCHANGED <<queue, read_index>>
    BY <2>1 DEF poolVars, readVars
  <2> QED BY <2>1, <2>2, <2>3, <2>4, SameTypes, SameLoops DEF TypeOK
<1>4. CASE FrameZero
  <2>1. UNCHANGED <<appVars, ctlVars, poolVars, writeVars, hwVars>>
    BY <1>4 DEF FrameZero
  <2>2. tx_fifo' \in [0 .. TotalSize - 1 -> Nat]
    BY <1>0, <1>4, Sizes, FilledType DEF FrameZero
  <2>3. ThreadTypeOK' /\ LoopsOpen'
    BY <1>4, <2>2, Sizes DEF FrameZero, TypeOK, ThreadTypeOK, LoopsOpen
  <2>4. pos' = Wrap(pos + FrameSize) /\ read_index' = read_index
    BY <1>4 DEF FrameZero
  <2>5. pos + FrameSize \in Nat
    BY <1>0, Sizes
  <2>6. ReadTypeOK'
    BY <2>4, <2>5, WrapType DEF TypeOK, ReadTypeOK
  <2>7. UNCHANGED <<queue, read_index>>
    BY <2>1, <2>4 DEF poolVars
  <2> QED BY <2>1, <2>3, <2>6, <2>7, SameTypes, SameLoops DEF TypeOK
<1>5. CASE FrameMemset
  <2>1. UNCHANGED <<appVars, ctlVars, poolVars, writeVars, readVars, hwVars>>
    BY <1>5 DEF FrameMemset
  <2>2. tx_fifo' \in [0 .. TotalSize - 1 -> Nat]
    BY <1>0, <1>5, Sizes, FilledType DEF FrameMemset
  <2>3. ThreadTypeOK'
    BY <1>5, <2>2 DEF FrameMemset, TypeOK, ThreadTypeOK
  <2>4. LoopsOpen'
    BY <1>5 DEF FrameMemset, LoopsOpen
  <2>5. UNCHANGED <<queue, read_index>>
    BY <2>1 DEF poolVars, readVars
  <2> QED BY <2>1, <2>3, <2>4, <2>5, SameTypes, SameLoops DEF TypeOK
<1>6. CASE FrameCopy
  <2> DEFINE item == Head(queue)
             r    == Lesser(FrameSize - index, item.size - read_index)
             f    == [i \in 0 .. r - 1 |-> mem[item.blk][read_index + i]]
  <2>1. /\ queue \in Seq(Item) /\ queue # << >> /\ index \in 0 .. FrameSize
        /\ index < FrameSize
        /\ read_index \in 0 .. BlockSize - 1
        /\ mem \in [Block -> [0 .. BlockSize - 1 -> Nat]]
    BY <1>6 DEF FrameCopy, TypeOK, PoolTypeOK, ThreadTypeOK, ReadTypeOK, LoopsOpen, Item
  <2>2. item \in Item
    BY <2>1
  <2>3. item.blk \in Block /\ item.size \in 1 .. BlockSize
    BY <2>2 DEF Item
  <2>4. read_index < item.size
    BY <2>1, <2>3 DEF ReadInHead
  <2>5. r \in 1 .. FrameSize /\ index + r <= FrameSize /\ read_index + r <= item.size
    <3>1. ASSUME NEW n \in 1 .. BlockSize, NEW k \in Nat, k < n,
                 NEW l \in Nat, l = Lesser(FrameSize - index, n - k)
          PROVE  l \in 1 .. FrameSize /\ index + l <= FrameSize /\ k + l <= n
      BY <3>1, <2>1, Sizes DEF Lesser
    <3>2. r \in Nat
      BY <2>1, <2>3, <2>4, Sizes DEF Lesser
    <3>3. item.size \in 1 .. BlockSize /\ read_index \in Nat /\ read_index < item.size
      BY <2>1, <2>3, <2>4, Sizes
    <3> QED BY <3>1, <3>2, <3>3
  <2>6. /\ tx_fifo' = Filled(pos, r, f) /\ remain' = r /\ index' = index + r
        /\ pos' = Wrap(pos + r) /\ count' = 0
        /\ tpc' = IF index' = FrameSize THEN "xmit" ELSE "copy"
    BY <1>6 DEF FrameCopy
  <2>7. \/ read_index' = 0 /\ queue' = Tail(queue) /\ free' = free \cup {item.blk}
        \/ /\ read_index + r # item.size /\ read_index' = read_index + r
           /\ queue' = queue /\ free' = free
    BY <1>6 DEF FrameCopy
  <2>8. UNCHANGED <<appVars, ctlVars, mem, writeVars, position, hwVars>>
    BY <1>6 DEF FrameCopy
  <2>9. f \in [0 .. r - 1 -> Nat]
    <3> SUFFICES ASSUME NEW i \in 0 .. r - 1
                 PROVE  mem[item.blk][read_index + i] \in Nat
      OBVIOUS
    <3>1. read_index + i \in 0 .. BlockSize - 1
      BY <2>1, <2>3, <2>5, Sizes
    <3> QED BY <3>1, <2>1, <2>3
  <2> HIDE DEF r, f, item
  <2>10. tx_fifo' \in [0 .. TotalSize - 1 -> Nat]
    BY <1>0, <2>5, <2>6, <2>9, FilledType
  <2>11. ThreadTypeOK' /\ LoopsOpen'
    BY <2>1, <2>5, <2>6, <2>8, <2>10, Sizes DEF TypeOK, ThreadTypeOK, LoopsOpen
  <2>12. pos' \in 0 .. TotalSize - 1
    <3>1. pos + r \in Nat
      BY <1>0, <2>5
    <3> QED BY <3>1, <2>6, WrapType
  <2>13. CASE read_index' = 0 /\ queue' = Tail(queue) /\ free' = free \cup {item.blk}
    <3>1. PoolTypeOK'
      BY <2>13, <2>1, <2>3, <2>8 DEF TypeOK, PoolTypeOK, Item
    <3>2. ReadTypeOK' /\ ReadInHead'
      BY <2>12, <2>13, Sizes DEF ReadTypeOK, ReadInHead
    <3> QED BY <3>1, <3>2, <2>8, <2>11, SameTypes, SameLoops DEF TypeOK
  <2>14. CASE /\ read_index + r # item.size /\ read_index' = read_index + r
              /\ queue' = queue /\ free' = free
    <3>1. PoolTypeOK'
      BY <2>14, <2>8, SameTypes DEF poolVars
    <3>2. read_index' \in 0 .. BlockSize - 1 /\ read_index' < item.size
      <4>1. ASSUME NEW n \in 1 .. BlockSize, NEW k \in 1 .. FrameSize,
                   read_index + k <= n, read_index + k # n,
                   read_index' = read_index + k
            PROVE  read_index' \in 0 .. BlockSize - 1 /\ read_index' < n
        BY <4>1, <2>1, Sizes
      <4> QED BY <4>1, <2>14, <2>3, <2>5
    <3>3. ReadTypeOK' /\ ReadInHead'
      BY <2>12, <2>14, <2>1, <3>2 DEF ReadTypeOK, ReadInHead, item
    <3> QED BY <3>1, <3>3, <2>8, <2>11, SameTypes, SameLoops DEF TypeOK
  <2> QED BY <2>7, <2>13, <2>14
<1>7. CASE FrameUnderrun
  <2>1. UNCHANGED <<appVars, ctlVars, poolVars, writeVars, hwVars>>
        /\ read_index' = 0 /\ pos' = Wrap(pos - remain + FrameSize)
    BY <1>7 DEF FrameUnderrun
  <2>2. pos - remain + FrameSize \in Nat
    BY <1>0, Sizes DEF TypeOK, ThreadTypeOK
  <2>3. ReadTypeOK' /\ ReadInHead'
    BY <2>1, <2>2, WrapType, Sizes DEF ReadTypeOK, ReadInHead
  <2>4. ThreadTypeOK' /\ LoopsOpen'
    BY <1>7, Sizes DEF FrameUnderrun, TypeOK, ThreadTypeOK, LoopsOpen
  <2> QED BY <2>1, <2>3, <2>4, SameTypes, SameLoops DEF TypeOK
<1>8. CASE XmitWord \/ XmitPut
  <2>1. UNCHANGED <<appVars, ctlVars, poolVars, writeVars, readVars>>
        /\ UNCHANGED <<position, index, remain, tx_fifo, intEn, pend, dacOn, heard, plays, sem>>
        /\ PutWord /\ tpc \in {"xmit", "put"}
    BY <1>8 DEF XmitWord, XmitPut
  <2>2. PICK w \in Word(position + count) :
          aubuf' = IF Len(aubuf) < AubufSize THEN Append(aubuf, w) ELSE aubuf
    BY <2>1 DEF PutWord
  <2>3. w \in Nat
    BY <1>0, <2>2, SoundReplayAssumption, Sizes DEF Word
  <2>4. aubuf' \in Seq(Nat)
    BY <2>2, <2>3 DEF TypeOK, HwTypeOK
  <2>5. HwTypeOK'
    BY <2>1, <2>4 DEF TypeOK, HwTypeOK
  <2>6. count < FrameSize /\ count' = count + 1
        /\ tpc' = IF count' = FrameSize THEN "poll" ELSE "xmit"
    BY <2>1 DEF PutWord, LoopsOpen
  <2>7. ThreadTypeOK' /\ LoopsOpen'
    BY <2>1, <2>6, Sizes DEF TypeOK, ThreadTypeOK, LoopsOpen
  <2>8. UNCHANGED <<queue, read_index>>
    BY <2>1 DEF poolVars, readVars
  <2> QED BY <2>1, <2>5, <2>7, <2>8, SameTypes, SameLoops DEF TypeOK
<1>9. CASE XmitFull \/ XmitPend
  <2>1. UNCHANGED <<appVars, ctlVars, poolVars, writeVars, readVars>>
    BY <1>9 DEF XmitFull, XmitPend
  <2>2. ThreadTypeOK' /\ LoopsOpen'
    BY <1>9 DEF XmitFull, XmitPend, TypeOK, ThreadTypeOK, LoopsOpen
  <2>3. HwTypeOK'
    <3>1. sem' \in Nat
      BY <1>9 DEF XmitFull, XmitPend, TypeOK, HwTypeOK
    <3>2. /\ pend' \in BOOLEAN /\ intEn' \in BOOLEAN
          /\ UNCHANGED <<dacOn, aubuf, heard, plays>>
      BY <1>9, Zenon DEF XmitFull, XmitPend, TypeOK, HwTypeOK
    <3> QED BY <3>1, <3>2 DEF TypeOK, HwTypeOK
  <2>4. UNCHANGED <<queue, read_index>>
    BY <2>1 DEF poolVars, readVars
  <2> QED BY <2>1, <2>2, <2>3, <2>4, SameTypes, SameLoops DEF TypeOK
<1> QED
  BY <1>1, <1>2, <1>3, <1>4, <1>5, <1>6, <1>7, <1>8, <1>9 DEF Thread

\* Every step of the DAC and its interrupt keeps TypeInv.
LEMMA HwType ==
  ASSUME TypeInv, AudioIsr \/ DacPlay \/ AubufPend PROVE TypeInv'
<1> USE DEF TypeInv, Typed
<1>1. UNCHANGED <<appVars, ctlVars, poolVars, writeVars, readVars, threadVars>>
  BY DEF AudioIsr, DacPlay, AubufPend
<1>2. UNCHANGED <<queue, read_index>>
  BY <1>1 DEF poolVars, readVars
<1>3. CASE AudioIsr \/ AubufPend
  <2>1. HwTypeOK'
    <3>1. sem' \in Nat
      BY <1>3 DEF AudioIsr, AubufPend, TypeOK, HwTypeOK
    <3>2. /\ pend' \in BOOLEAN /\ intEn' \in BOOLEAN
          /\ UNCHANGED <<dacOn, aubuf, heard, plays>>
      BY <1>3, Zenon DEF AudioIsr, AubufPend, TypeOK, HwTypeOK
    <3> QED BY <3>1, <3>2 DEF TypeOK, HwTypeOK
  <2> QED BY <1>1, <1>2, <2>1, SameTypes, SameLoops DEF TypeOK
<1>4. CASE DacPlay
  <2>1. aubuf' \in Seq(Nat) /\ heard' \in Nat /\ plays' \in Nat
    BY <1>4 DEF DacPlay, TypeOK, HwTypeOK
  <2>2. HwTypeOK'
    <3>1. UNCHANGED <<sem, intEn, pend, dacOn>>
      BY <1>4 DEF DacPlay
    <3> QED BY <2>1, <3>1 DEF TypeOK, HwTypeOK
  <2> QED BY <1>1, <1>2, <2>2, SameTypes, SameLoops DEF TypeOK
<1> QED BY <1>3, <1>4

\* TypeInv is inductive.
LEMMA NextType == TypeInv /\ [Next]_vars => TypeInv'
<1> SUFFICES ASSUME TypeInv, [Next]_vars PROVE TypeInv'
  OBVIOUS
<1>1. CASE UNCHANGED vars
  <2>1. UNCHANGED <<appVars, ctlVars, poolVars, writeVars, readVars, threadVars, hwVars>>
    BY <1>1 DEF vars
  <2>2. UNCHANGED <<queue, read_index>>
    BY <2>1 DEF poolVars, readVars
  <2> QED BY <2>1, <2>2, SameTypes, SameLoops DEF TypeInv, Typed, TypeOK
<1>2. ASSUME NEW b \in DmaValues, ConfigureDma(b) PROVE TypeInv'
  <2>1. UNCHANGED <<appVars, poolVars, writeVars, readVars, threadVars, hwVars>>
    BY <1>2 DEF ConfigureDma
  <2>2. UNCHANGED <<queue, read_index>>
    BY <2>1 DEF poolVars, readVars
  <2>3. CtlTypeOK'
    <3>1. b \in BOOLEAN /\ dma' = b /\ UNCHANGED <<activated, stopEvt, cmp>>
      BY <1>2, SoundReplayAssumption DEF ConfigureDma
    <3> QED BY <3>1 DEF TypeInv, Typed, TypeOK, CtlTypeOK
  <2> QED BY <2>1, <2>2, <2>3, SameTypes, SameLoops DEF TypeInv, Typed, TypeOK
<1>3. CASE App
  BY <1>3, AppTyped, AppOpen DEF TypeInv
<1> QED BY <1>1, <1>2, <1>3, ThreadType, HwType DEF Next

\* Every index the framework and the driver compute stays in its range.
THEOREM ReplayTypes == Spec => []TypeOK
<1>1. TypeInv => TypeOK
  BY DEF TypeInv, Typed
<1> QED BY <1>1, InitType, NextType, PTL DEF Spec

-----------------------------------------------------------------------------
(* AUBUF does not overflow in the first session. sound_transmit, audio_isr *)
(* and sound_stop hand one token around: the interrupt is enabled only     *)
(* while the audio thread waits, the semaphore is posted at most once and  *)
(* only to a waiting thread, and whoever holds the token found room in     *)
(* AUBUF. sound_start may write back an enable it has read, but in the     *)
(* first session it has found none: nothing has been transmitted yet.      *)

Room == Len(aubuf) < AubufSize

Token ==
    /\ intEn => tpc = "pend" /\ sem = 0 /\ (pend => Room)
    /\ sem # 0 => tpc = "pend" /\ sem = 1 /\ ~intEn /\ Room
    /\ tpc = "put" => Room

Fresh == ~activated /\ (opened \/ sessions = 0)

FirstSession ==
    /\ sessions = 0 => ~opened /\ ~activated
    /\ apc # "idle" => opened
    /\ apc \in {"load", "store", "activate"} => ~activated
    /\ apc = "store" => ~aubufcon
    /\ Stopping => activated /\ closing
    /\ Fresh => tpc \in {"poll", "sleep"} /\ ~intEn

WakeInv == sessions <= 1 => Token /\ FirstSession

\* A step that leaves the token alone.
LEMMA TokenSame ==
  ASSUME Token, UNCHANGED <<sem, intEn, pend, aubuf>>,
         tpc' = tpc \/ (tpc \notin {"pend", "put"} /\ tpc' \notin {"pend", "put"})
  PROVE  Token'
  BY DEF Token, Room

\* The calls of the application.
LEMMA CallsWake ==
  ASSUME TypeInv, WakeInv,
         Open \/ (\E n \in WriteSizes : Write(n)) \/ (\E c \in BOOLEAN : Stop(c))
  PROVE  WakeInv'
<1> SUFFICES ASSUME sessions' <= 1 PROVE Token' /\ FirstSession'
  BY DEF WakeInv
<1>0. /\ sessions \in Nat /\ opened \in BOOLEAN /\ activated \in BOOLEAN
      /\ closing \in BOOLEAN
  BY DEF TypeInv, Typed, TypeOK, AppTypeOK, CtlTypeOK
<1>1. /\ UNCHANGED <<tpc, sem, intEn, pend, aubuf, activated>> /\ apc = "idle"
      /\ sessions' = sessions \/ sessions' = sessions + 1
  BY Zenon DEF Open, Write, Stop, threadVars, hwVars, ctlVars
<1>2. Token /\ FirstSession
  BY <1>0, <1>1 DEF WakeInv
<1>3. Token'
  BY <1>1, <1>2, TokenSame
<1>4. CASE Open
  <2>1. opened' = TRUE /\ sessions' = sessions + 1 /\ apc' = "idle" /\ ~opened
    BY <1>1, <1>4 DEF Open
  <2>2. sessions = 0 /\ ~activated
    BY <1>0, <1>2, <2>1 DEF FirstSession
  <2> QED BY <1>0, <1>1, <1>2, <1>3, <2>1, <2>2 DEF FirstSession, Fresh, Stopping
<1>5. ASSUME NEW n \in WriteSizes, Write(n) PROVE FirstSession'
  <2>1. /\ apc' \in {"alloc", "copy"} /\ opened
        /\ UNCHANGED <<opened, sessions, closing>>
    BY <1>5 DEF Write, WriteStep
  <2> QED BY <1>0, <1>1, <1>2, <2>1 DEF FirstSession, Fresh, Stopping
<1>6. ASSUME NEW c \in BOOLEAN, Stop(c) PROVE FirstSession'
  <2>1. /\ opened /\ closing' = c /\ (~c => sessions' = sessions + 1)
        /\ (c => sessions' = sessions)
        /\ activated => apc' = "flush" /\ opened' = opened
        /\ ~activated => apc' = "idle" /\ opened' = ~c
    BY <1>1, <1>6, Zenon DEF Stop
  <2>2. sessions # 0
    BY <1>2, <2>1 DEF FirstSession
  <2>3. c /\ sessions' = sessions
    BY <1>0, <2>1, <2>2
  <2> QED BY <1>0, <1>1, <1>2, <2>1, <2>2, <2>3 DEF FirstSession, Fresh, Stopping
<1> QED BY <1>3, <1>4, <1>5, <1>6

\* sound_start.
LEMMA StartWake ==
  ASSUME TypeInv, WakeInv, StartReplay \/ StartLoad \/ StartStore \/ Activate
  PROVE  WakeInv'
<1> SUFFICES ASSUME sessions' <= 1 PROVE Token' /\ FirstSession'
  BY DEF WakeInv
<1>1. UNCHANGED <<sessions, opened, closing, tpc, sem>>
  BY DEF StartReplay, StartLoad, StartStore, Activate, threadVars, hwVars
<1>2. Token /\ FirstSession
  BY <1>1 DEF WakeInv
<1>3. ~activated /\ opened
  BY <1>2 DEF StartReplay, StartLoad, StartStore, Activate, FirstSession
<1>4. tpc \in {"poll", "sleep"} /\ ~intEn /\ sessions # 0
  BY <1>2, <1>3 DEF FirstSession, Fresh
<1>5. sem = 0
  BY <1>2, <1>4 DEF Token
<1>6. ~intEn'
  BY <1>2, <1>4 DEF StartReplay, StartLoad, StartStore, Activate, FirstSession, hwVars
<1>7. Token'
  BY <1>1, <1>4, <1>5, <1>6 DEF Token
<1>8. CASE StartReplay \/ StartStore
  <2>1. apc' \in {"load", "activate"} /\ activated' = activated
    BY <1>8 DEF StartReplay, StartStore, ctlVars
  <2> QED BY <1>1, <1>2, <1>3, <1>4, <1>6, <1>7, <2>1 DEF FirstSession, Fresh, Stopping
<1>9. CASE StartLoad
  <2>1. apc' = "store" /\ aubufcon' = intEn /\ activated' = activated
    BY <1>9 DEF StartLoad, ctlVars
  <2> QED BY <1>1, <1>2, <1>3, <1>4, <1>6, <1>7, <2>1 DEF FirstSession, Fresh, Stopping
<1>10. CASE Activate
  <2>1. apc' = "idle" /\ activated'
    BY <1>10 DEF Activate
  <2> QED BY <1>1, <1>2, <1>3, <1>4, <1>6, <1>7, <2>1 DEF FirstSession, Fresh, Stopping
<1> QED BY <1>8, <1>9, <1>10

\* The rest of a write, and the stop.
LEMMA StepsWake ==
  ASSUME TypeInv, WakeInv,
         \/ WriteAlloc \/ WriteCopy \/ WriteReturn \/ StopFlush \/ StopEvent
         \/ StopInit \/ StopWait \/ StopClear \/ StopDac \/ StopInt \/ StopReturn
  PROVE  WakeInv'
<1> SUFFICES ASSUME sessions' <= 1 PROVE Token' /\ FirstSession'
  BY DEF WakeInv
<1>1. /\ UNCHANGED <<sessions, closing, tpc, sem, pend, aubuf>>
      /\ intEn' = intEn \/ intEn' = FALSE
  BY DEF WriteAlloc, WriteCopy, WriteReturn, StopFlush, StopEvent, StopInit, StopWait,
     StopClear, StopDac, StopInt, StopReturn, threadVars, hwVars
<1>2. Token /\ FirstSession
  BY <1>1 DEF WakeInv
<1>3. Token'
  BY <1>1, <1>2 DEF Token, Room
<1>4. CASE WriteAlloc \/ WriteCopy \/ WriteReturn
  <2>1. /\ apc' \in {"alloc", "copy", "check", "idle"} /\ apc # "idle"
        /\ UNCHANGED <<opened, activated>>
    BY <1>4 DEF WriteAlloc, WriteCopy, WriteReturn, WriteStep, ctlVars
  <2> QED BY <1>1, <1>2, <1>3, <2>1 DEF FirstSession, Fresh, Stopping
<1>5. CASE \/ StopFlush \/ StopEvent \/ StopInit \/ StopWait \/ StopClear
           \/ StopDac \/ StopInt
  <2>1. /\ Stopping /\ apc' \notin {"load", "store", "activate"}
        /\ apc # "idle" /\ UNCHANGED <<opened, activated>>
    BY <1>5 DEF StopFlush, StopEvent, StopInit, StopWait, StopClear, StopDac, StopInt,
       Stopping, ctlVars
  <2> QED BY <1>1, <1>2, <1>3, <2>1 DEF FirstSession, Fresh
<1>6. CASE StopReturn
  <2>1. /\ apc = "deactivate" /\ apc' = "idle" /\ activated' = FALSE
        /\ opened' = ~closing
    BY <1>6 DEF StopReturn
  <2>2. closing /\ sessions # 0
    BY <1>2, <2>1 DEF FirstSession, Stopping
  <2> QED BY <1>1, <1>3, <2>1, <2>2 DEF FirstSession, Fresh, Stopping
<1> QED BY <1>4, <1>5, <1>6

\* Every step of the application keeps the wake-up invariant.
LEMMA AppWake ==
  ASSUME TypeInv, WakeInv, App PROVE WakeInv'
  BY CallsWake, StartWake, StepsWake DEF App, AppStep

\* Every step of the audio thread keeps the wake-up invariant.
LEMMA ThreadWake ==
  ASSUME TypeInv, WakeInv, Thread PROVE WakeInv'
<1> SUFFICES ASSUME sessions' <= 1 PROVE Token' /\ FirstSession'
  BY DEF WakeInv
<1>1. UNCHANGED <<apc, opened, closing, sessions, aubufcon, activated>>
  BY DEF Thread, Poll, Mdelay, FramePeek, FrameTestStop, FrameAck, FrameZero,
     FrameMemset, FrameCopy, FrameUnderrun, XmitWord, XmitFull, XmitPend, XmitPut,
     appVars, ctlVars
<1>2. Token /\ FirstSession
  BY <1>1 DEF WakeInv
<1>3. FirstSession'
  <2>1. Fresh' = Fresh /\ Stopping' = Stopping
    BY <1>1 DEF Fresh, Stopping
  <2>2. ASSUME Fresh PROVE tpc' \in {"poll", "sleep"} /\ ~intEn'
    <3>1. ~activated /\ tpc \in {"poll", "sleep"} /\ ~intEn
      BY <1>2, <2>2 DEF FirstSession, Fresh
    <3> QED
      BY <3>1 DEF Thread, Poll, Mdelay, FramePeek, FrameTestStop, FrameAck, FrameZero,
         FrameMemset, FrameCopy, FrameUnderrun, XmitWord, XmitFull, XmitPend, XmitPut,
         hwVars
  <2> QED BY <1>1, <1>2, <2>1, <2>2 DEF FirstSession
<1>4. CASE Poll \/ Mdelay \/ FramePeek \/ FrameTestStop \/ FrameAck
  <2>1. /\ UNCHANGED hwVars
        /\ tpc \notin {"pend", "put"} /\ tpc' \notin {"pend", "put"}
    BY <1>4 DEF Poll, Mdelay, FramePeek, FrameTestStop, FrameAck
  <2> QED BY <1>2, <1>3, <2>1, TokenSame DEF hwVars
<1>5. CASE FrameZero \/ FrameMemset \/ FrameCopy \/ FrameUnderrun
  <2>1. /\ UNCHANGED hwVars
        /\ tpc \notin {"pend", "put"} /\ tpc' \notin {"pend", "put"}
    BY <1>5 DEF FrameZero, FrameMemset, FrameCopy, FrameUnderrun
  <2> QED BY <1>2, <1>3, <2>1, TokenSame DEF hwVars
<1>6. CASE XmitWord \/ XmitPut
  <2>1. /\ tpc \in {"xmit", "put"} /\ tpc' \in {"poll", "xmit"}
        /\ UNCHANGED <<sem, intEn>>
    BY <1>6 DEF XmitWord, XmitPut, PutWord
  <2> QED BY <1>2, <1>3, <2>1 DEF Token
<1>7. CASE XmitFull
  <2>1. /\ tpc = "xmit" /\ tpc' = "pend" /\ pend' = FALSE
        /\ UNCHANGED <<sem, aubuf>>
    BY <1>7 DEF XmitFull
  <2> QED BY <1>2, <1>3, <2>1 DEF Token
<1>8. CASE XmitPend
  <2>1. /\ tpc = "pend" /\ sem > 0 /\ sem' = sem - 1 /\ tpc' = "put"
        /\ UNCHANGED <<intEn, pend, aubuf>>
    BY <1>8 DEF XmitPend
  <2>2. sem = 1 /\ ~intEn /\ Room
    BY <1>2, <2>1 DEF Token, TypeInv, Typed, TypeOK, HwTypeOK
  <2>3. Room' /\ sem' = 0 /\ ~intEn'
    BY <2>1, <2>2 DEF Room
  <2> QED BY <1>3, <2>1, <2>3 DEF Token
<1> QED BY <1>4, <1>5, <1>6, <1>7, <1>8 DEF Thread

\* Every step of the DAC and its interrupt keeps the wake-up invariant.
LEMMA HwWake ==
  ASSUME TypeInv, WakeInv, AudioIsr \/ DacPlay \/ AubufPend PROVE WakeInv'
<1> SUFFICES ASSUME sessions' <= 1 PROVE Token' /\ FirstSession'
  BY DEF WakeInv
<1>0. /\ UNCHANGED <<apc, opened, closing, sessions, aubufcon, activated, tpc>>
      /\ intEn' = intEn \/ intEn' = FALSE
  BY DEF AudioIsr, DacPlay, AubufPend, appVars, ctlVars, threadVars
<1>1. Token /\ FirstSession
  BY <1>0 DEF WakeInv
<1>2. FirstSession'
  BY <1>0, <1>1 DEF FirstSession, Fresh, Stopping
<1>3. aubuf \in Seq(Nat) /\ Len(aubuf) \in Nat
  BY DEF TypeInv, Typed, TypeOK, HwTypeOK
<1>4. CASE AudioIsr
  <2>1. intEn /\ pend /\ intEn' = FALSE /\ sem' = sem + 1 /\ aubuf' = aubuf
    BY <1>4 DEF AudioIsr
  <2>2. tpc = "pend" /\ sem = 0 /\ Room
    BY <1>1, <2>1 DEF Token
  <2> QED BY <1>0, <1>2, <2>1, <2>2 DEF Token, Room
<1>5. CASE DacPlay
  <2>1. /\ aubuf # << >> /\ aubuf' = Tail(aubuf) /\ UNCHANGED <<intEn, pend, sem>>
    BY <1>5 DEF DacPlay
  <2>2. Len(aubuf') = Len(aubuf) - 1
    BY <1>3, <2>1
  <2>3. Room => Room'
    BY <1>3, <2>2, SoundReplayAssumption DEF Room
  <2> QED BY <1>0, <1>1, <1>2, <2>1, <2>3 DEF Token
<1>6. CASE AubufPend
  <2>1. /\ Len(aubuf) <= AubufLow /\ UNCHANGED <<intEn, aubuf, sem>>
    BY <1>6 DEF AubufPend
  <2>2. Room /\ Room'
    BY <1>3, <2>1, SoundReplayAssumption DEF Room
  <2> QED BY <1>0, <1>1, <1>2, <2>1, <2>2 DEF Token
<1> QED BY <1>4, <1>5, <1>6

\* dma_to_aubuf is set or reset, or nothing happens.
LEMMA OtherWake ==
  ASSUME WakeInv, UNCHANGED vars \/ (\E b \in DmaValues : ConfigureDma(b))
  PROVE  WakeInv'
<1>1. UNCHANGED <<appVars, activated, threadVars, hwVars>>
  BY Zenon DEF vars, ctlVars, ConfigureDma
<1> QED
  BY <1>1 DEF WakeInv, Token, Room, FirstSession, Fresh, Stopping, appVars,
     threadVars, hwVars

\* In the first session, when the semaphore lets sound_transmit through, AUBUF
\* has room for the word it writes without another look at the full flag: at
\* every priority, whatever is started, stopped and configured meanwhile.
THEOREM AubufNeverOverflows == Spec => []NoAubufOverflow
<1>1. Init => WakeInv
  BY DEF Init, WakeInv, Token, FirstSession, Fresh, Stopping
<1>2. TypeInv /\ WakeInv /\ [Next]_vars => WakeInv'
  BY AppWake, ThreadWake, HwWake, OtherWake DEF Next
<1>3. WakeInv => NoAubufOverflow
  BY DEF WakeInv, Token, NoAubufOverflow, Room
<1> QED BY <1>1, <1>2, <1>3, InitType, NextType, PTL DEF Spec

-----------------------------------------------------------------------------
(* Every pool block has one owner. The writer holds a block exactly while  *)
(* write_index # 0 or between alloc and copy, so the proof needs to know   *)
(* where in the calls write_index must be 0: before an alloc, after the    *)
(* flush of a stop, and whenever an idle device is not activated (or       *)
(* _audio_dev_open would forget a block by setting write_index to 0).      *)

WriterInv ==
    /\ apc = "alloc" => write_index = 0
    /\ apc \in {"event", "init", "wait", "clear", "dacoff", "intoff", "deactivate"}
         => write_index = 0
    /\ apc = "idle" /\ ~activated => write_index = 0

Distinct == \A i, j \in 1 .. Len(queue) : i # j => queue[i].blk # queue[j].blk

\* The blocks queued after a push, and after a pop.
LEMMA QueuedPush ==
  ASSUME queue \in Seq(Item), NEW b \in Block, NEW n \in 1 .. BlockSize,
         Push(b, n), b \notin Queued, Distinct
  PROVE  Queued' = Queued \cup {b} /\ Distinct'
<1> DEFINE L == Len(queue)
           e == [blk |-> b, size |-> n]
<1>1. queue' = Append(queue, e) /\ e.blk = b /\ L \in Nat
  BY DEF Push
<1> HIDE DEF e
<1>2. /\ Len(queue') = L + 1 /\ queue'[L + 1] = e
      /\ \A i \in 1 .. L : queue'[i] = queue[i]
  BY <1>1
<1>3. \A i \in 1 .. L : queue[i].blk \in Queued
  BY DEF Queued
<1>4. Queued' = Queued \cup {b}
  <2>1. ASSUME NEW x \in Queued' PROVE x \in Queued \cup {b}
    <3>1. PICK i \in 1 .. L + 1 : x = queue'[i].blk
      BY <1>2 DEF Queued
    <3>2. CASE i = L + 1
      BY <3>1, <3>2, <1>1, <1>2
    <3>3. CASE i # L + 1
      <4>1. i \in 1 .. L
        BY <3>3, <1>1
      <4> QED BY <4>1, <3>1, <1>2, <1>3
    <3> QED BY <3>2, <3>3
  <2>2. b \in Queued'
    <3>1. L + 1 \in 1 .. Len(queue')
      BY <1>1, <1>2
    <3> QED BY <3>1, <1>1, <1>2 DEF Queued
  <2>3. ASSUME NEW x \in Queued PROVE x \in Queued'
    <3>1. PICK i \in 1 .. L : x = queue[i].blk
      BY DEF Queued
    <3>2. i \in 1 .. Len(queue') /\ queue'[i].blk = x
      BY <3>1, <1>1, <1>2
    <3> QED BY <3>2 DEF Queued
  <2> QED BY <2>1, <2>2, <2>3
<1>5. Distinct'
  <2> SUFFICES ASSUME NEW i \in 1 .. L + 1, NEW j \in 1 .. L + 1, i # j
               PROVE  queue'[i].blk # queue'[j].blk
    BY <1>2 DEF Distinct
  <2>1. CASE i = L + 1
    <3>1. j \in 1 .. L
      BY <2>1, <1>1
    <3> QED BY <2>1, <3>1, <1>1, <1>2, <1>3
  <2>2. CASE j = L + 1
    <3>1. i \in 1 .. L
      BY <2>2, <1>1
    <3> QED BY <2>2, <3>1, <1>1, <1>2, <1>3
  <2>3. CASE i # L + 1 /\ j # L + 1
    <3>1. i \in 1 .. L /\ j \in 1 .. L
      BY <2>3, <1>1
    <3> QED BY <3>1, <1>2 DEF Distinct
  <2> QED BY <2>1, <2>2, <2>3
<1> QED BY <1>4, <1>5

\* Popping the data queue forgets its head and nothing else.
LEMMA QueuedPop ==
  ASSUME queue \in Seq(Item), queue # << >>, queue' = Tail(queue), Distinct
  PROVE  /\ Queued' = Queued \ {Head(queue).blk} /\ Head(queue).blk \in Queued
         /\ Distinct'
<1> DEFINE L == Len(queue)
           b == Head(queue).blk
<1>1. L \in Nat /\ L > 0 /\ b = queue[1].blk
  OBVIOUS
<1>2. Len(queue') = L - 1 /\ \A i \in 1 .. L - 1 : queue'[i] = queue[i + 1]
  OBVIOUS
<1> HIDE DEF b
<1>3. b \in Queued
  <2>1. 1 \in 1 .. L
    BY <1>1
  <2> QED BY <1>1, <2>1 DEF Queued
<1>4. ASSUME NEW x \in Queued' PROVE x \in Queued \ {b}
  <2>1. PICK i \in 1 .. L - 1 : x = queue'[i].blk
    BY <1>2 DEF Queued
  <2>2. i + 1 \in 1 .. L /\ 1 \in 1 .. L /\ i + 1 # 1 /\ x = queue[i + 1].blk
    BY <2>1, <1>1, <1>2
  <2>3. x \in Queued
    BY <2>2 DEF Queued
  <2>4. x # queue[1].blk
    BY <2>2 DEF Distinct
  <2> QED BY <2>3, <2>4, <1>1
<1>5. ASSUME NEW x \in Queued \ {b} PROVE x \in Queued'
  <2>1. PICK i \in 1 .. L : x = queue[i].blk
    BY DEF Queued
  <2>2. i # 1
    BY <2>1, <1>1
  <2>3. i - 1 \in 1 .. L - 1 /\ (i - 1) + 1 = i
    BY <2>2, <1>1
  <2>4. queue'[i - 1] = queue[i]
    BY <2>3, <1>2
  <2> QED BY <2>1, <2>3, <2>4, <1>2 DEF Queued
<1>6. Distinct'
  <2> SUFFICES ASSUME NEW i \in 1 .. L - 1, NEW j \in 1 .. L - 1, i # j
               PROVE  queue'[i].blk # queue'[j].blk
    BY <1>2 DEF Distinct
  <2>1. i + 1 \in 1 .. L /\ j + 1 \in 1 .. L /\ i + 1 # j + 1
    BY <1>1
  <2> QED BY <2>1, <1>2 DEF Distinct
<1> QED BY <1>3, <1>4, <1>5, <1>6 DEF b

\* The writer hands the block it fills to the queue.
LEMMA FillingToQueue ==
  ASSUME TypeInv, OneOwner, Filling = {write_data}, Filling' = {},
         NEW n \in 1 .. BlockSize, Push(write_data, n), free' = free
  PROVE  OneOwner'
<1>1. queue \in Seq(Item) /\ write_data \in Block
  BY DEF TypeInv, Typed, TypeOK, PoolTypeOK, WriteTypeOK, Item
<1>2. write_data \notin Queued /\ Distinct
  BY DEF OneOwner, Distinct
<1>3. Queued' = Queued \cup {write_data} /\ Distinct'
  BY <1>1, <1>2, QueuedPush
<1> QED BY <1>3 DEF OneOwner, Distinct

\* Nobody hands over a block.
LEMMA OwnerSame ==
  ASSUME OneOwner, Filling' = Filling, UNCHANGED <<queue, free>>
  PROVE  OneOwner'
  BY DEF OneOwner, Queued

\* Every step of the application keeps every block with one owner.
LEMMA AppOwner ==
  ASSUME TypeInv, OneOwner, WriterInv, App PROVE OneOwner' /\ WriterInv'
<1>0. write_index \in Nat /\ BlockSize \in Nat /\ BlockSize > 0
  BY Sizes DEF TypeInv, Typed, TypeOK, WriteTypeOK, AppTypeOK
<1>1. CASE Open
  <2>1. /\ apc = "idle" /\ apc' = apc /\ activated' = activated
        /\ write_data' = write_data /\ UNCHANGED <<queue, free>>
        /\ activated => write_index' = write_index
        /\ ~activated => write_index' = 0
    BY <1>1 DEF Open, poolVars
  <2>2. write_index' = write_index
    BY <2>1 DEF WriterInv
  <2>3. Filling' = Filling
    BY <2>1, <2>2 DEF Filling
  <2>4. WriterInv'
    BY <2>1, <2>2 DEF WriterInv
  <2> QED BY <2>1, <2>3, <2>4, OwnerSame
<1>2. ASSUME NEW n \in WriteSizes, Write(n) PROVE OneOwner' /\ WriterInv'
  <2>1. /\ apc = "idle" /\ apc' = WriteStep(TRUE, write_index)
        /\ UNCHANGED <<queue, free, write_index, write_data, activated>>
    BY <1>2 DEF Write, poolVars, writeVars, ctlVars
  <2>3. apc' = IF write_index = 0 THEN "alloc" ELSE "copy"
    BY <2>1 DEF WriteStep
  <2>4. Filling' = Filling /\ WriterInv'
    BY <2>1, <2>3 DEF Filling, WriterInv
  <2> QED BY <2>1, <2>4, OwnerSame
<1>3. CASE WriteAlloc
  <2> PICK b \in free : free' = free \ {b} /\ write_data' = b
    BY <1>3 DEF WriteAlloc
  <2>1. apc = "alloc" /\ apc' = "copy" /\ queue' = queue /\ write_index' = write_index
    BY <1>3 DEF WriteAlloc
  <2>2. Filling = {} /\ Filling' = {b} /\ Queued' = Queued
    BY <2>1 DEF Filling, WriterInv, Queued
  <2>3. OneOwner'
    BY <2>1, <2>2 DEF OneOwner
  <2>4. WriterInv'
    BY <2>1 DEF WriterInv
  <2> QED BY <2>3, <2>4
<1>4. CASE WriteCopy
  <2>1. /\ apc = "copy" /\ free' = free /\ write_data' = write_data
        /\ apc' = WriteStep(windex' < size, write_index')
    BY <1>4 DEF WriteCopy
  <2>2. Filling = {write_data}
    BY <2>1 DEF Filling
  <2>3. /\ apc' \in {"check", "alloc", "copy"}
        /\ apc' # "check" => (apc' = "alloc" <=> write_index' = 0)
    BY <2>1 DEF WriteStep
  <2>4. WriterInv'
    BY <2>3 DEF WriterInv
  <2>5. CASE write_index' = 0
    <3>1. Push(write_data, BlockSize) /\ BlockSize \in 1 .. BlockSize
      BY <1>0, <1>4, <2>5 DEF WriteCopy
    <3>2. Filling' = {}
      BY <2>3, <2>5 DEF Filling
    <3> QED BY <2>1, <2>2, <2>4, <3>1, <3>2, FillingToQueue
  <2>6. CASE write_index' # 0
    <3>1. queue' = queue
      BY <1>4, <2>6 DEF WriteCopy
    <3>2. Filling' = Filling
      BY <2>1, <2>2, <2>6 DEF Filling
    <3> QED BY <2>1, <2>4, <3>1, <3>2, OwnerSame
  <2> QED BY <2>5, <2>6
<1>5. CASE StopFlush
  <2>1. /\ apc = "flush" /\ apc' = "event" /\ free' = free
        /\ write_index' = 0
    BY <1>5 DEF StopFlush
  <2>2. Filling' = {} /\ WriterInv'
    BY <2>1 DEF Filling, WriterInv
  <2>3. CASE write_index = 0
    <3>1. queue' = queue /\ Filling = {}
      BY <1>5, <2>1, <2>3 DEF StopFlush, Filling
    <3> QED BY <2>1, <2>2, <3>1, OwnerSame
  <2>4. CASE write_index # 0
    <3>1. Push(write_data, write_index) /\ Filling = {write_data}
      BY <1>5, <2>4 DEF StopFlush, Filling
    <3>2. write_index \in 1 .. BlockSize
      BY <1>0, <2>4, Sizes DEF TypeInv, Typed, TypeOK, WriteTypeOK
    <3> QED BY <2>1, <2>2, <3>1, <3>2, FillingToQueue
  <2> QED BY <2>3, <2>4
<1>6. CASE Activate \/ WriteReturn
  <2>1. /\ apc # "copy" /\ apc' = "idle" /\ activated'
        /\ UNCHANGED <<queue, free, write_index, write_data>>
    BY <1>6 DEF Activate, WriteReturn, poolVars, writeVars, ctlVars
  <2>2. Filling' = Filling /\ WriterInv'
    BY <2>1 DEF Filling, WriterInv
  <2> QED BY <2>1, <2>2, OwnerSame
<1>7. CASE StartReplay \/ StartLoad \/ StartStore
  <2>1. /\ apc # "copy" /\ apc' \in {"load", "store", "activate"}
        /\ UNCHANGED <<queue, free, write_index, write_data>>
    BY <1>7 DEF StartReplay, StartLoad, StartStore, poolVars, writeVars
  <2>2. Filling' = Filling /\ WriterInv'
    BY <2>1 DEF Filling, WriterInv
  <2> QED BY <2>1, <2>2, OwnerSame
<1>8. ASSUME NEW c \in BOOLEAN, Stop(c) PROVE OneOwner' /\ WriterInv'
  <2>1. /\ apc = "idle" /\ (apc' = "flush" \/ apc' = apc)
        /\ UNCHANGED <<queue, free, write_index, write_data, activated>>
    BY <1>8, Zenon DEF Stop, poolVars, writeVars, ctlVars
  <2>2. Filling' = Filling /\ WriterInv'
    BY <2>1 DEF Filling, WriterInv
  <2> QED BY <2>1, <2>2, OwnerSame
<1>9. CASE \/ StopEvent \/ StopInit \/ StopWait \/ StopClear
           \/ StopDac \/ StopInt \/ StopReturn
  <2>1. /\ apc \in {"event", "init", "wait", "clear", "dacoff", "intoff", "deactivate"}
        /\ apc' # "copy"
        /\ UNCHANGED <<queue, free, write_index, write_data>>
    BY <1>9 DEF StopEvent, StopInit, StopWait, StopClear, StopDac, StopInt,
                StopReturn, poolVars, writeVars
  <2>2. write_index' = 0
    BY <2>1 DEF WriterInv
  <2>3. Filling' = Filling /\ WriterInv'
    BY <2>1, <2>2 DEF Filling, WriterInv
  <2> QED BY <2>1, <2>3, OwnerSame
<1> QED
  BY <1>1, <1>2, <1>3, <1>4, <1>5, <1>6, <1>7, <1>8, <1>9 DEF App, AppStep

\* Every step of the audio thread keeps every block with one owner.
LEMMA ThreadOwner ==
  ASSUME TypeInv, OneOwner, WriterInv, Thread PROVE OneOwner' /\ WriterInv'
<1>1. UNCHANGED <<appVars, activated, writeVars>>
  BY DEF Thread, Poll, Mdelay, FramePeek, FrameTestStop, FrameAck, FrameZero,
     FrameMemset, FrameCopy, FrameUnderrun, XmitWord, XmitFull, XmitPend, XmitPut,
     ctlVars
<1>2. Filling' = Filling /\ WriterInv'
  BY <1>1 DEF Filling, WriterInv, appVars, writeVars
<1>3. CASE FrameCopy
  <2> DEFINE b == Head(queue).blk
  <2>1. queue \in Seq(Item) /\ queue # << >>
    BY <1>3 DEF FrameCopy, TypeInv, Typed, TypeOK, PoolTypeOK, Item
  <2>2. \/ queue' = Tail(queue) /\ free' = free \cup {b}
        \/ UNCHANGED <<queue, free>>
    BY <1>3 DEF FrameCopy
  <2>3. CASE queue' = Tail(queue) /\ free' = free \cup {b}
    <3>1. Queued' = Queued \ {b} /\ b \in Queued /\ Distinct'
      BY <2>1, <2>3, QueuedPop DEF OneOwner, Distinct
    <3> HIDE DEF b
    <3> QED BY <1>2, <2>3, <3>1 DEF OneOwner, Distinct
  <2> QED BY <1>2, <2>2, <2>3, OwnerSame
<1>4. CASE ~FrameCopy
  <2>1. UNCHANGED <<queue, free>>
    BY <1>4 DEF Thread, Poll, Mdelay, FramePeek, FrameTestStop, FrameAck, FrameZero,
       FrameMemset, FrameUnderrun, XmitWord, XmitFull, XmitPend, XmitPut, poolVars
  <2> QED BY <1>2, <2>1, OwnerSame
<1> QED BY <1>3, <1>4

\* At the start every block is in the pool.
LEMMA InitOwner == Init => OneOwner /\ WriterInv
<1> SUFFICES ASSUME Init PROVE OneOwner /\ WriterInv
  OBVIOUS
<1>1. Queued = {} /\ Filling = {} /\ free = Block /\ Len(queue) = 0
  BY DEF Init, Queued, Filling
<1>2. 1 .. Len(queue) = {}
  BY <1>1
<1>3. OneOwner
  BY <1>1, <1>2, Zenon DEF OneOwner
<1> QED BY <1>3 DEF Init, WriterInv

\* Every step keeps every block with one owner.
LEMMA NextOwner ==
  ASSUME TypeInv, OneOwner, WriterInv, [Next]_vars PROVE OneOwner' /\ WriterInv'
<1>1. CASE UNCHANGED <<appVars, activated, poolVars, writeVars>>
  <2>1. UNCHANGED <<queue, free>> /\ Filling' = Filling /\ WriterInv'
    BY <1>1 DEF appVars, poolVars, writeVars, Filling, WriterInv
  <2> QED BY <2>1, OwnerSame
<1>2. CASE \/ AudioIsr \/ DacPlay \/ AubufPend \/ UNCHANGED vars
           \/ (\E b \in DmaValues : ConfigureDma(b))
  <2>1. UNCHANGED <<appVars, activated, poolVars, writeVars>>
    BY <1>2, Zenon DEF AudioIsr, DacPlay, AubufPend, ConfigureDma, ctlVars, vars
  <2> QED BY <1>1, <2>1
<1> QED BY <1>2, AppOwner, ThreadOwner DEF Next

\* No pool block is ever lost, queued twice, or written to while the audio
\* thread may still read it.
THEOREM BlocksHaveOneOwner == Spec => []OneOwner
<1> QED BY InitType, NextType, InitOwner, NextOwner, PTL DEF Spec

-----------------------------------------------------------------------------
(* Frames stay in tx_fifo. The fill position is a frame boundary between   *)
(* frames because every block but a flushed one holds whole frames, and a  *)
(* flushed block is the last one queued until the stream is drained: the   *)
(* copy loop goes round once, or runs out of data in its second turn and   *)
(* takes back exactly what the first one copied.                           *)

\* A block holds whole frames: 4096 bytes of RT_AUDIO_REPLAY_MP_BLOCK_SIZE,
\* 512 of TX_FIFO_SIZE / 2.
FramesFill == \E k \in Nat : BlockSize = k * FrameSize

\* No reopening finds the audio thread in the middle of a frame.
Quiet == AppPrio = "lower" \/ MaxSessions <= 1

Multiple(n) == \E k \in Nat : n = k * FrameSize
Aligned(p)  == p \in {0, FrameSize}

\* The last write of the session is behind us.
Flushed == apc \in {"event", "init", "wait", "clear", "dacoff", "intoff",
                    "deactivate"}
Over    == apc = "idle" /\ ~opened /\ sessions >= MaxSessions
NoMore  == Flushed \/ Over

ShortLast ==
    \A i \in 1 .. Len(queue) :
        queue[i].size # BlockSize => i = Len(queue) /\ NoMore

FrameInv ==
    /\ Multiple(read_index) /\ Aligned(position)
    /\ tpc # "copy" => Aligned(pos)
    /\ tpc \in {"empty", "ack", "zero", "memset"} => pos = position
    /\ tpc = "memset" => index = 0 /\ remain = 0
    /\ tpc = "copy" => /\ pos = position + index /\ remain = index
                       /\ index # 0 => queue = << >> /\ NoMore

OneSession == MaxSessions <= 1 =>
    /\ sessions <= 1
    /\ sessions = 0 => /\ apc = "idle" /\ ~opened /\ ~activated
                       /\ tpc \in {"poll", "sleep"}
    /\ apc = "flush" \/ Flushed => closing

\* The audio thread has acknowledged the stop in progress.
Acked == (apc = "wait" /\ cmp) \/ apc \in {"clear", "dacoff", "intoff", "deactivate"}

\* What a lower priority buys the handshake of the stop: between the peek
\* that finds the queue empty and the acknowledgement nothing is pushed.
DrainInv == AppPrio = "lower" =>
    /\ tpc \in {"empty", "ack", "zero"} => queue = << >>
    /\ Acked => queue = << >> /\ tpc \notin {"memset", "copy"}

FifoInv == ShortLast /\ FrameInv /\ OneSession /\ DrainInv

\* Two boundaries of frames are a frame apart.
LEMMA Multiples ==
  ASSUME NEW m \in Nat, NEW n \in Nat, Multiple(m), Multiple(n), m < n
  PROVE  m + FrameSize <= n /\ Multiple(m + FrameSize)
<1> PICK k \in Nat : m = k * FrameSize
  BY DEF Multiple
<1> PICK l \in Nat : n = l * FrameSize
  BY DEF Multiple
<1>1. FrameSize \in Nat /\ FrameSize > 0
  BY Sizes
<1>2. k < l
  <2>1. SUFFICES ASSUME l <= k PROVE FALSE
    OBVIOUS
  <2>2. PICK d \in Nat : k = l + d
    BY <2>1
  <2>3. m = n + d * FrameSize /\ d * FrameSize \in Nat
    BY <2>2, <1>1
  <2> QED BY <2>3
<1>3. PICK d \in Nat : l = (k + 1) + d
  <2>1. l - (k + 1) \in Nat /\ l = (k + 1) + (l - (k + 1))
    BY <1>2
  <2> QED BY <2>1
<1>4. n = (k + 1) * FrameSize + d * FrameSize /\ d * FrameSize >= 0
  BY <1>1, <1>3
<1>5. m + FrameSize = (k + 1) * FrameSize
  BY <1>1
<1>6. (k + 1) * FrameSize \in Nat /\ d * FrameSize \in Nat /\ k + 1 \in Nat
  BY <1>1
<1>7. m + FrameSize <= n
  BY <1>4, <1>5, <1>6
<1> QED BY <1>5, <1>6, <1>7 DEF Multiple

LEMMA MultipleZero == Multiple(0)
<1>1. 0 = 0 * FrameSize
  BY Sizes
<1> QED BY <1>1 DEF Multiple

\* A boundary of frames, one frame on, wraps to a boundary of frames.
LEMMA WrapAligned ==
  ASSUME NEW p \in Nat, Aligned(p)
  PROVE  Aligned(Wrap(p + FrameSize))
<1>1. CASE p = 0
  BY <1>1, Sizes DEF Aligned, Wrap
<1>2. CASE p = FrameSize
  <2>1. p + FrameSize = TotalSize /\ TotalSize % TotalSize = 0
    BY <1>2, Sizes
  <2> QED BY <2>1 DEF Aligned, Wrap
<1> QED BY <1>1, <1>2 DEF Aligned

LEMMA WrapInside ==
  ASSUME NEW p \in 0 .. TotalSize - 1 PROVE Wrap(p) = p
  BY Sizes DEF Wrap

\* The application's steps leave the audio thread's variables alone, and a
\* lower application only runs while that thread sleeps or waits.
LEMMA AppApart ==
  ASSUME App
  PROVE  UNCHANGED threadVars /\ (AppPrio = "lower" => tpc \in {"sleep", "pend"})
<1>1. CASE Open \/ (\E n \in WriteSizes : Write(n)) \/ (\E c \in BOOLEAN : Stop(c))
  BY <1>1, Zenon DEF Open, Write, Stop, AppRuns, ThreadBlocked
<1>2. CASE StartReplay \/ AppStep
  BY <1>2 DEF AppStep, WriteAlloc, WriteCopy, WriteReturn, StartReplay, StartLoad, StartStore, Activate,
     StopFlush, StopEvent, StopInit, StopWait, StopClear, StopDac, StopInt,
     StopReturn, AppRuns, ThreadBlocked
<1> QED BY <1>1, <1>2 DEF App

\* After the last close the application makes no more calls.
LEMMA OverForGood ==
  ASSUME TypeInv, Over, App PROVE FALSE
<1>1. apc = "idle" /\ ~opened /\ ~(sessions < MaxSessions)
  BY SoundReplayAssumption DEF Over, TypeInv, Typed, TypeOK, AppTypeOK
<1>2. ~Open /\ ~(\E n \in WriteSizes : Write(n)) /\ ~(\E c \in BOOLEAN : Stop(c))
  BY <1>1, Zenon DEF Open, Write, Stop
<1>3. ~StartReplay
  BY <1>1 DEF StartReplay
<1>4. ~AppStep
  BY <1>1 DEF AppStep, StartReplay, StartLoad, StartStore, WriteAlloc, WriteCopy, WriteReturn, Activate,
     StopFlush, StopEvent, StopInit, StopWait, StopClear, StopDac, StopInt, StopReturn
<1> QED BY <1>2, <1>3, <1>4 DEF App

\* Nothing more is pushed, until a stop has drained the queue.
LEMMA NoMoreKept ==
  ASSUME TypeInv, OneSession, DrainInv, Quiet, NoMore, App
  PROVE  /\ queue' = queue
         /\ NoMore' \/ (AppPrio = "lower" /\ queue = << >>)
<1>0. sessions \in Nat /\ MaxSessions \in Nat
  BY SoundReplayAssumption DEF TypeInv, Typed, TypeOK, AppTypeOK
<1>1. CASE Flushed
  <2>1. CASE StopReturn
    <3>1. /\ apc = "deactivate" /\ apc' = "idle" /\ opened' = ~closing
          /\ UNCHANGED <<queue, sessions>>
      BY <2>1 DEF StopReturn, poolVars
    <3>2. CASE AppPrio = "lower"
      <4>1. Acked
        BY <3>1 DEF Acked
      <4> QED BY <3>1, <3>2, <4>1 DEF DrainInv
    <3>3. CASE MaxSessions <= 1
      <4>1. closing /\ sessions # 0
        BY <1>1, <3>1, <3>3 DEF OneSession
      <4>2. sessions' >= MaxSessions
        BY <1>0, <3>1, <3>3, <4>1
      <4>3. opened' = FALSE
        BY <3>1, <4>1
      <4> QED BY <3>1, <4>2, <4>3 DEF NoMore, Over
    <3> QED BY <3>2, <3>3 DEF Quiet
  <2>2. CASE StopEvent \/ StopInit \/ StopWait \/ StopClear \/ StopDac \/ StopInt
    <3>1. queue' = queue /\ Flushed'
      BY <2>2 DEF StopEvent, StopInit, StopWait, StopClear, StopDac, StopInt,
         poolVars, Flushed
    <3> QED BY <3>1 DEF NoMore
  <2>3. /\ apc # "idle" /\ apc # "alloc" /\ apc # "copy" /\ apc # "check"
        /\ apc # "activate" /\ apc # "flush" /\ apc # "load" /\ apc # "store"
    BY <1>1 DEF Flushed
  <2>4. ~Open /\ ~(\E n \in WriteSizes : Write(n)) /\ ~(\E c \in BOOLEAN : Stop(c))
    BY <2>3, Zenon DEF Open, Write, Stop
  <2>5. /\ ~StartReplay /\ ~StartLoad /\ ~StartStore /\ ~WriteAlloc /\ ~WriteCopy /\ ~WriteReturn
        /\ ~Activate /\ ~StopFlush
    BY <2>3 DEF StartReplay, StartLoad, StartStore, WriteAlloc, WriteCopy, WriteReturn,
       Activate, StopFlush
  <2> QED BY <2>1, <2>2, <2>4, <2>5 DEF App, AppStep
<1>2. CASE ~Flushed
  BY <1>2, OverForGood DEF NoMore
<1> QED BY <1>1, <1>2

\* A push appends one item.
LEMMA PushItems ==
  ASSUME queue \in Seq(Item), NEW b, NEW n, Push(b, n)
  PROVE  /\ Len(queue) \in Nat /\ Len(queue') = Len(queue) + 1
         /\ queue'[Len(queue) + 1].size = n
         /\ \A i \in 1 .. Len(queue) : queue'[i] = queue[i]
  BY DEF Push

\* The application's steps push full blocks, and a short one only in a stop.
LEMMA AppShort ==
  ASSUME TypeInv, FifoInv, Quiet, App PROVE ShortLast'
<1>0. queue \in Seq(Item) /\ Len(queue) \in Nat
  BY DEF TypeInv, Typed, TypeOK, PoolTypeOK, Item
<1>1. CASE NoMore
  <2>1. queue' = queue /\ (NoMore' \/ queue = << >>)
    BY <1>1, NoMoreKept DEF FifoInv
  <2> QED BY <2>1 DEF FifoInv, ShortLast
<1>2. CASE ~NoMore
  <2>1. \A i \in 1 .. Len(queue) : queue[i].size = BlockSize
    BY <1>2 DEF FifoInv, ShortLast
  <2>2. ASSUME queue' = queue PROVE ShortLast'
    BY <2>1, <2>2 DEF ShortLast
  <2>3. CASE WriteCopy
    <3>1. CASE write_index' = 0
      <4>1. Push(write_data, BlockSize)
        BY <2>3, <3>1 DEF WriteCopy
      <4>2. /\ Len(queue') = Len(queue) + 1 /\ queue'[Len(queue) + 1].size = BlockSize
            /\ \A i \in 1 .. Len(queue) : queue'[i] = queue[i]
        BY <1>0, <4>1, PushItems
      <4>3. \A i \in 1 .. Len(queue') : queue'[i].size = BlockSize
        <5> SUFFICES ASSUME NEW i \in 1 .. Len(queue') PROVE queue'[i].size = BlockSize
          OBVIOUS
        <5>1. i = Len(queue) + 1 \/ i \in 1 .. Len(queue)
          BY <1>0, <4>2
        <5> QED BY <5>1, <4>2, <2>1
      <4> QED BY <4>3 DEF ShortLast
    <3>2. CASE write_index' # 0
      BY <2>2, <2>3, <3>2 DEF WriteCopy
    <3> QED BY <3>1, <3>2
  <2>4. CASE StopFlush
    <3>1. CASE write_index = 0
      BY <2>2, <2>4, <3>1 DEF StopFlush
    <3>2. CASE write_index # 0
      <4>1. Push(write_data, write_index) /\ apc' = "event"
        BY <2>4, <3>2 DEF StopFlush
      <4>2. /\ Len(queue') = Len(queue) + 1
            /\ \A i \in 1 .. Len(queue) : queue'[i] = queue[i]
        BY <1>0, <4>1, PushItems
      <4>3. NoMore'
        BY <4>1 DEF NoMore, Flushed
      <4>4. ASSUME NEW i \in 1 .. Len(queue'), queue'[i].size # BlockSize
            PROVE  i = Len(queue')
        <5>1. i = Len(queue) + 1 \/ i \in 1 .. Len(queue)
          BY <1>0, <4>2
        <5> QED BY <5>1, <4>2, <4>4, <2>1
      <4> QED BY <4>3, <4>4 DEF ShortLast
    <3> QED BY <3>1, <3>2
  <2>5. CASE Open \/ (\E n \in WriteSizes : Write(n)) \/ (\E c \in BOOLEAN : Stop(c))
    <3>1. queue' = queue
      BY <2>5, Zenon DEF Open, Write, Stop, poolVars
    <3> QED BY <2>2, <3>1
  <2>6. CASE StartReplay \/ StartLoad \/ StartStore \/ WriteAlloc \/ WriteReturn \/ Activate
             \/ StopEvent \/ StopInit \/ StopWait \/ StopClear \/ StopDac
             \/ StopInt \/ StopReturn
    <3>1. queue' = queue
      BY <2>6 DEF StartReplay, StartLoad, StartStore, WriteAlloc, WriteReturn, Activate, StopEvent, StopInit,
         StopWait, StopClear, StopDac, StopInt, StopReturn, poolVars
    <3> QED BY <2>2, <3>1
  <2> QED BY <2>3, <2>4, <2>5, <2>6 DEF App, AppStep
<1> QED BY <1>1, <1>2

\* Of the application's steps only an opening moves the fill position, and
\* then the audio thread is not in the middle of a frame.
LEMMA AppFrame ==
  ASSUME TypeInv, FifoInv, Quiet, App PROVE FrameInv'
<1>1. UNCHANGED <<tpc, position, index, remain>>
  BY AppApart DEF threadVars
<1>2. CASE UNCHANGED readVars
  <2>1. UNCHANGED <<read_index, pos>>
    BY <1>2 DEF readVars
  <2>2. ASSUME tpc = "copy", index # 0 PROVE queue' = << >> /\ NoMore'
    <3>1. queue = << >> /\ NoMore
      BY <2>2 DEF FifoInv, FrameInv
    <3>2. AppPrio # "lower"
      BY <2>2, AppApart
    <3> QED BY <3>1, <3>2, NoMoreKept DEF FifoInv
  <2> QED BY <1>1, <2>1, <2>2 DEF FifoInv, FrameInv, Multiple, Aligned
<1>3. CASE Open
  <2>1. tpc \in {"poll", "sleep", "pend"}
    <3>1. CASE AppPrio = "lower"
      BY <3>1, AppApart
    <3>2. CASE MaxSessions <= 1
      <4>1. sessions = 0
        BY <1>3, <3>2, SoundReplayAssumption DEF Open, TypeInv, Typed, TypeOK, AppTypeOK
      <4> QED BY <3>2, <4>1 DEF FifoInv, OneSession
    <3> QED BY <3>1, <3>2 DEF Quiet
  <2>2. Multiple(read_index') /\ Aligned(pos')
    BY <1>3, <2>1, MultipleZero DEF Open, FifoInv, FrameInv, Aligned
  <2> QED BY <1>1, <2>1, <2>2 DEF FifoInv, FrameInv, Multiple, Aligned
<1>4. CASE (\E n \in WriteSizes : Write(n)) \/ (\E c \in BOOLEAN : Stop(c))
  <2>1. UNCHANGED readVars
    BY <1>4, Zenon DEF Write, Stop
  <2> QED BY <1>2, <2>1
<1>5. CASE StartReplay \/ AppStep
  <2>1. UNCHANGED readVars
    BY <1>5 DEF AppStep, WriteAlloc, WriteCopy, WriteReturn, StartReplay, StartLoad, StartStore, Activate,
     StopFlush, StopEvent, StopInit, StopWait, StopClear, StopDac, StopInt, StopReturn
  <2> QED BY <1>2, <2>1
<1> QED BY <1>3, <1>4, <1>5 DEF App

\* With one session, what is not open yet is idle, and a stop is a close.
LEMMA AppSession ==
  ASSUME TypeInv, OneSession, App PROVE OneSession'
<1> SUFFICES ASSUME MaxSessions <= 1 PROVE OneSession'
  BY DEF OneSession
<1>0. /\ sessions \in Nat /\ MaxSessions \in Nat /\ tpc' = tpc
      /\ closing \in BOOLEAN /\ activated \in BOOLEAN /\ opened \in BOOLEAN
  BY AppApart, SoundReplayAssumption
  DEF TypeInv, Typed, TypeOK, AppTypeOK, CtlTypeOK, threadVars
<1>1. CASE Open
  <2>1. sessions' # 0 /\ apc' = "idle" /\ sessions' <= 1
    BY <1>0, <1>1 DEF Open
  <2> QED BY <2>1 DEF OneSession, Flushed
<1>2. ASSUME NEW n \in WriteSizes, Write(n) PROVE OneSession'
  <2>1. opened /\ sessions' = sessions
    BY <1>2 DEF Write
  <2>2. sessions # 0
    BY <2>1 DEF OneSession
  <2>3. apc' \in {"check", "alloc", "copy"}
    BY <1>2 DEF Write, WriteStep
  <2> QED BY <2>1, <2>2, <2>3 DEF OneSession, Flushed
<1>3. ASSUME NEW c \in BOOLEAN, Stop(c) PROVE OneSession'
  <2>1. opened /\ apc = "idle" /\ closing' = c /\ (~c => sessions < MaxSessions)
        /\ (c => sessions' = sessions) /\ (~c => sessions' = sessions + 1)
    BY <1>3, Zenon DEF Stop
  <2>2. sessions # 0
    BY <2>1 DEF OneSession
  <2>3. c = TRUE
    BY <1>0, <2>1, <2>2
  <2>4. closing' = TRUE /\ sessions' # 0 /\ sessions' = sessions
    BY <2>1, <2>2, <2>3
  <2> QED BY <2>4 DEF OneSession
<1>4. CASE StartReplay \/ AppStep
  <2>1. sessions # 0
    <3>1. opened \/ apc # "idle"
      BY <1>4 DEF AppStep, WriteAlloc, WriteCopy, WriteReturn, StartReplay, StartLoad, StartStore, Activate,
       StopFlush, StopEvent, StopInit, StopWait, StopClear, StopDac, StopInt, StopReturn
    <3> QED BY <3>1 DEF OneSession
  <2>2. sessions' = sessions /\ closing' = closing
    BY <1>4 DEF AppStep, WriteAlloc, WriteCopy, WriteReturn, StartReplay, StartLoad, StartStore, Activate,
       StopFlush, StopEvent, StopInit, StopWait, StopClear, StopDac, StopInt, StopReturn
  <2>3. (apc' = "flush" \/ Flushed') => (apc = "flush" \/ Flushed)
    BY <1>4 DEF AppStep, WriteAlloc, WriteCopy, WriteReturn, StartReplay, StartLoad, StartStore, Activate,
       StopFlush, StopEvent, StopInit, StopWait, StopClear, StopDac, StopInt, StopReturn,
       WriteStep, Flushed
  <2> QED BY <2>1, <2>2, <2>3 DEF OneSession
<1> QED BY <1>1, <1>2, <1>3, <1>4 DEF App

\* Once acknowledged, a stop finds the queue empty to its end.
LEMMA AppDrain ==
  ASSUME TypeInv, FifoInv, Quiet, App PROVE DrainInv'
<1> SUFFICES ASSUME AppPrio = "lower" PROVE DrainInv'
  BY DEF DrainInv
<1>1. /\ tpc \in {"sleep", "pend"}
      /\ UNCHANGED <<tpc, position, index, remain, count, tx_fifo>>
  BY AppApart DEF threadVars
<1>2. CASE Acked'
  <2>1. Acked
    <3>1. CASE StartReplay \/ AppStep
      BY <1>2, <3>1 DEF AppStep, WriteAlloc, WriteCopy, WriteReturn, StartReplay, StartLoad, StartStore,
         Activate, StopFlush, StopEvent, StopInit, StopWait, StopClear, StopDac,
         StopInt, StopReturn, WriteStep, Acked, ctlVars
    <3>2. ASSUME NEW n \in WriteSizes, Write(n) PROVE FALSE
      BY <1>2, <3>2 DEF Write, WriteStep, Acked
    <3>3. ASSUME Open \/ (\E c \in BOOLEAN : Stop(c)) PROVE FALSE
      <4>1. apc' = "idle" \/ apc' = "flush"
        BY <3>3, Zenon DEF Open, Stop
      <4> QED BY <1>2, <4>1 DEF Acked
    <3> QED BY <3>1, <3>2, <3>3 DEF App
  <2>2. queue = << >>
    BY <2>1 DEF FifoInv, DrainInv
  <2>3. NoMore
    BY <2>1 DEF NoMore, Flushed, Acked
  <2>4. queue' = queue
    BY <2>3, NoMoreKept DEF FifoInv
  <2> QED BY <1>1, <2>2, <2>4 DEF DrainInv
<1>3. CASE ~Acked'
  BY <1>1, <1>3 DEF DrainInv
<1> QED BY <1>2, <1>3

\* The audio thread's steps leave the application's variables alone.
LEMMA ThreadApart ==
  ASSUME Thread
  PROVE  /\ UNCHANGED appVars /\ activated' = activated
         /\ UNCHANGED <<NoMore, Flushed>>
<1>1. UNCHANGED appVars /\ activated' = activated
  BY DEF Thread, Poll, Mdelay, FramePeek, FrameTestStop, FrameAck, FrameZero,
     FrameMemset, FrameCopy, FrameUnderrun, XmitWord, XmitFull, XmitPend, XmitPut,
     ctlVars
<1> QED BY <1>1 DEF NoMore, Flushed, Over, appVars

\* What a turn of the copy loop finds: an offset inside the block at the head
\* of the queue, which holds whole frames unless it is the last.
LEMMA CopyTurn ==
  ASSUME TypeInv, FifoInv, FramesFill, FrameCopy
  PROVE  LET len == Head(queue).size
             r    == Lesser(FrameSize - index, len - read_index)
         IN  /\ queue \in Seq(Item) /\ Len(queue) \in Nat /\ Len(queue) > 0
             /\ len \in 1 .. BlockSize /\ read_index \in Nat /\ read_index < len
             /\ index = 0 /\ pos = position
             /\ \/ r = FrameSize /\ Multiple(read_index + FrameSize)
                \/ r < FrameSize /\ r = len - read_index /\ r \in Nat
                   /\ Len(queue) = 1 /\ NoMore
<1> DEFINE len == Head(queue).size
           r    == Lesser(FrameSize - index, len - read_index)
<1>1. queue \in Seq(Item) /\ queue # << >> /\ tpc = "copy"
  BY DEF FrameCopy, TypeInv, Typed, TypeOK, PoolTypeOK, Item
<1>2. Len(queue) \in Nat /\ Len(queue) > 0 /\ Head(queue) = queue[1]
  BY <1>1
<1>3. Head(queue) \in Item
  BY <1>1
<1>4. len \in 1 .. BlockSize
  BY <1>3 DEF Item
<1> HIDE DEF len
<1>5. read_index \in Nat /\ read_index < len
  BY <1>1, <1>4, Sizes DEF len, TypeInv, Typed, TypeOK, ReadTypeOK, ReadInHead
<1>6. index = 0 /\ position \in Nat
  BY <1>1, Sizes DEF FifoInv, FrameInv, TypeInv, Typed, TypeOK, ThreadTypeOK
<1>7. pos = position
  BY <1>1, <1>6 DEF FifoInv, FrameInv
<1>8. FrameSize \in Nat /\ FrameSize > 0
  BY Sizes
<1>9. CASE len = BlockSize
  <2>1. Multiple(len)
    BY <1>9 DEF FramesFill, Multiple
  <2>2. read_index + FrameSize <= len /\ Multiple(read_index + FrameSize)
    BY <2>1, <1>4, <1>5, Multiples DEF FifoInv, FrameInv
  <2>3. r = FrameSize
    BY <2>2, <1>4, <1>5, <1>6, <1>8 DEF Lesser
  <2> QED BY <2>2, <2>3, <1>1, <1>2, <1>4, <1>5, <1>6, <1>7 DEF len
<1>10. CASE len # BlockSize
  <2>1. 1 \in 1 .. Len(queue)
    BY <1>2
  <2>2. Len(queue) = 1 /\ NoMore
    BY <2>1, <1>2, <1>10 DEF FifoInv, ShortLast, len
  <2>3. CASE len - read_index < FrameSize
    <3>1. r = len - read_index /\ r < FrameSize /\ r \in Nat
      BY <2>3, <1>4, <1>5, <1>6, <1>8 DEF Lesser
    <3> QED BY <3>1, <2>2, <1>1, <1>2, <1>4, <1>5, <1>6, <1>7 DEF len
  <2>4. CASE ~(len - read_index < FrameSize)
    <3>1. r = FrameSize
      BY <2>4, <1>4, <1>5, <1>6, <1>8 DEF Lesser
    <3>2. Multiple(read_index + FrameSize)
      <4>1. PICK k \in Nat : read_index = k * FrameSize
        BY DEF FifoInv, FrameInv, Multiple
      <4>2. read_index + FrameSize = (k + 1) * FrameSize /\ k + 1 \in Nat
        BY <4>1, <1>8
      <4> QED BY <4>2 DEF Multiple
    <3> QED BY <3>1, <3>2, <1>1, <1>2, <1>4, <1>5, <1>6, <1>7 DEF len
  <2> QED BY <2>3, <2>4
<1> QED BY <1>9, <1>10

\* What is left of the queue after a turn of the copy loop.
LEMMA CopyShort ==
  ASSUME TypeInv, FifoInv, FramesFill, FrameCopy PROVE ShortLast'
<1>1. queue \in Seq(Item) /\ queue # << >> /\ NoMore' = NoMore
  BY ThreadApart DEF FrameCopy, TypeInv, Typed, TypeOK, PoolTypeOK, Item, Thread
<1>2. CASE queue' = Tail(queue)
  <2>1. /\ Len(queue') = Len(queue) - 1
        /\ \A i \in 1 .. Len(queue') : queue'[i] = queue[i + 1]
    BY <1>1, <1>2
  <2>2. ASSUME NEW i \in 1 .. Len(queue'), queue'[i].size # BlockSize
        PROVE  i = Len(queue') /\ NoMore
    <3>1. i + 1 \in 1 .. Len(queue) /\ queue[i + 1].size # BlockSize
      BY <1>1, <2>1, <2>2
    <3>2. i + 1 = Len(queue) /\ NoMore
      BY <3>1 DEF FifoInv, ShortLast
    <3> QED BY <3>2, <2>1, <1>1
  <2> QED BY <2>2, <1>1 DEF ShortLast
<1>3. CASE queue' = queue
  BY <1>1, <1>3 DEF FifoInv, ShortLast
<1> QED BY <1>2, <1>3 DEF FrameCopy

\* A turn of the copy loop fills the frame, or takes the last word queued.
LEMMA CopyFrame ==
  ASSUME TypeInv, FifoInv, FramesFill, FrameCopy PROVE FrameInv'
<1> DEFINE len == Head(queue).size
           r    == Lesser(FrameSize - index, len - read_index)
<1>1. /\ queue \in Seq(Item) /\ Len(queue) \in Nat /\ Len(queue) > 0
      /\ len \in 1 .. BlockSize /\ read_index \in Nat /\ read_index < len
      /\ index = 0 /\ pos = position
  BY CopyTurn
<1>2. \/ r = FrameSize /\ Multiple(read_index + FrameSize)
      \/ r < FrameSize /\ r = len - read_index /\ r \in Nat
         /\ Len(queue) = 1 /\ NoMore
  BY CopyTurn
<1>3. /\ remain' = r /\ index' = index + r /\ pos' = Wrap(pos + r)
      /\ IF read_index + r = len
         THEN read_index' = 0 /\ queue' = Tail(queue)
         ELSE read_index' = read_index + r
      /\ tpc' = IF index' = FrameSize THEN "xmit" ELSE "copy"
      /\ position' = position
  BY DEF FrameCopy
<1> HIDE DEF len, r
<1>4. FrameSize \in Nat /\ FrameSize > 0 /\ position \in {0, FrameSize}
      /\ TotalSize = 2 * FrameSize
  BY Sizes DEF FifoInv, FrameInv, Aligned
<1>5. CASE r = FrameSize /\ Multiple(read_index + FrameSize)
  <2>1. tpc' = "xmit"
    BY <1>1, <1>3, <1>4, <1>5
  <2>2. Aligned(pos')
    BY <1>1, <1>3, <1>4, <1>5, WrapAligned DEF Aligned
  <2>3. Multiple(read_index')
    BY <1>3, <1>5, MultipleZero
  <2> QED BY <2>1, <2>2, <2>3, <1>3, <1>4 DEF FrameInv, Aligned, Multiple
<1>6. CASE r < FrameSize /\ r = len - read_index /\ r \in Nat /\ Len(queue) = 1 /\ NoMore
  <2>1. read_index + r = len
    BY <1>1, <1>6
  <2>2. read_index' = 0 /\ queue' = << >>
    <3>1. queue' = Tail(queue) /\ read_index' = 0
      BY <1>3, <2>1
    <3>2. Len(Tail(queue)) = Len(queue) - 1 /\ Tail(queue) \in Seq(Item)
      BY <1>1
    <3>3. Len(Tail(queue)) = 0
      BY <1>6, <3>2
    <3>4. \A q \in Seq(Item) : q = << >> <=> Len(q) = 0
      OBVIOUS
    <3>5. Tail(queue) = << >>
      BY <3>2, <3>3, <3>4, Zenon
    <3> QED BY <3>1, <3>5
  <2>3. index' = r /\ tpc' = "copy" /\ remain' = r
    BY <1>1, <1>3, <1>4, <1>6
  <2>4. position + r \in 0 .. TotalSize - 1
    BY <1>4, <1>6
  <2>5. pos' = position + r
    BY <1>1, <1>3, <2>4, WrapInside
  <2>6. NoMore'
    BY <1>6, ThreadApart DEF Thread
  <2>7. Multiple(read_index')
    BY <2>2, MultipleZero
  <2> QED BY <2>2, <2>3, <2>5, <2>6, <2>7, <1>3, <1>4 DEF FrameInv, Aligned, Multiple
<1> QED BY <1>2, <1>5, <1>6

\* Every step of the audio thread ends a frame on a boundary of frames.
LEMMA ThreadFrame ==
  ASSUME TypeInv, FifoInv, FramesFill, Thread PROVE FrameInv'
<1>0. /\ FrameSize \in Nat /\ FrameSize > 0 /\ TotalSize = 2 * FrameSize
      /\ pos \in Nat /\ position \in Nat /\ NoMore' = NoMore
      /\ Multiple(read_index) /\ Aligned(position)
  BY Sizes, ThreadApart DEF TypeInv, Typed, TypeOK, ReadTypeOK, ThreadTypeOK, FifoInv, FrameInv
<1>1. CASE Poll \/ Mdelay \/ FrameTestStop \/ FrameAck
  <2>1. /\ tpc # "copy" /\ tpc' # "copy" /\ tpc' # "memset"
        /\ tpc' \in {"empty", "ack", "zero"} => tpc \in {"empty", "ack"}
        /\ UNCHANGED <<read_index, pos, position>>
    BY <1>1 DEF Poll, Mdelay, FrameTestStop, FrameAck, readVars
  <2> QED BY <2>1 DEF FifoInv, FrameInv, Multiple, Aligned
<1>2. CASE FramePeek
  <2>1. /\ tpc = "peek" /\ tpc' # "copy" /\ position' = pos
        /\ index' = 0 /\ remain' = 0 /\ UNCHANGED <<read_index, pos>>
    BY <1>2 DEF FramePeek, readVars
  <2> QED BY <2>1 DEF FifoInv, FrameInv, Multiple, Aligned
<1>3. CASE FrameZero
  <2>1. /\ tpc = "zero" /\ tpc' = "xmit" /\ pos' = Wrap(pos + FrameSize)
        /\ UNCHANGED <<read_index, position>>
    BY <1>3 DEF FrameZero
  <2>2. Aligned(pos')
    BY <1>0, <2>1, WrapAligned DEF FifoInv, FrameInv
  <2> QED BY <1>0, <2>1, <2>2 DEF FrameInv, Multiple, Aligned
<1>4. CASE FrameMemset
  <2>1. /\ tpc = "memset" /\ tpc' = "copy"
        /\ UNCHANGED <<read_index, pos, position, index, remain>>
    BY <1>4 DEF FrameMemset, readVars
  <2>2. pos' = position' + index' /\ index' = 0 /\ remain' = 0
    BY <1>0, <2>1 DEF FifoInv, FrameInv
  <2> QED BY <1>0, <2>1, <2>2 DEF FrameInv, Multiple, Aligned
<1>5. CASE FrameCopy
  BY <1>5, CopyFrame
<1>6. CASE FrameUnderrun
  <2>1. /\ tpc = "copy" /\ tpc' = "xmit" /\ pos' = Wrap(pos - remain + FrameSize)
        /\ read_index' = 0 /\ position' = position
    BY <1>6 DEF FrameUnderrun
  <2>2. pos = position + remain /\ remain \in Nat
    BY <1>0, <2>1 DEF FifoInv, FrameInv, TypeInv, Typed, TypeOK, ThreadTypeOK
  <2>3. pos - remain + FrameSize = position + FrameSize
    BY <1>0, <2>2
  <2>4. Aligned(pos')
    BY <1>0, <2>1, <2>3, WrapAligned
  <2> QED BY <1>0, <2>1, <2>4, MultipleZero DEF FrameInv, Multiple, Aligned
<1>7. CASE XmitWord \/ XmitFull \/ XmitPend \/ XmitPut
  <2>1. /\ tpc # "copy" /\ tpc' \in {"poll", "xmit", "pend", "put"}
        /\ UNCHANGED <<read_index, pos, position>>
    BY <1>7 DEF XmitWord, XmitFull, XmitPend, XmitPut, PutWord, readVars
  <2> QED BY <2>1 DEF FifoInv, FrameInv, Multiple, Aligned
<1> QED BY <1>1, <1>2, <1>3, <1>4, <1>5, <1>6, <1>7 DEF Thread

\* Every step of the audio thread leaves short blocks last.
LEMMA ThreadShort ==
  ASSUME TypeInv, FifoInv, FramesFill, Thread PROVE ShortLast'
<1>1. CASE FrameCopy
  BY <1>1, CopyShort
<1>2. CASE ~FrameCopy
  <2>1. queue' = queue
    BY <1>2 DEF Thread, Poll, Mdelay, FramePeek, FrameTestStop, FrameAck, FrameZero,
       FrameMemset, FrameUnderrun, XmitWord, XmitFull, XmitPend, XmitPut, poolVars
  <2> QED BY <2>1, ThreadApart DEF FifoInv, ShortLast
<1> QED BY <1>1, <1>2

\* Before the first opening the audio thread polls an inactive stream.
LEMMA ThreadSession ==
  ASSUME OneSession, Thread PROVE OneSession'
<1> SUFFICES ASSUME MaxSessions <= 1 PROVE OneSession'
  BY DEF OneSession
<1>1. /\ UNCHANGED <<apc, opened, sessions, closing, activated>> /\ Flushed' = Flushed
  BY ThreadApart DEF appVars
<1>2. ASSUME sessions = 0 PROVE tpc' \in {"poll", "sleep"}
  <2>1. ~activated /\ tpc \in {"poll", "sleep"}
    BY <1>2 DEF OneSession
  <2> QED
    BY <2>1 DEF Thread, Poll, Mdelay, FramePeek, FrameTestStop, FrameAck, FrameZero,
       FrameMemset, FrameCopy, FrameUnderrun, XmitWord, XmitFull, XmitPend, XmitPut
<1> QED BY <1>1, <1>2 DEF OneSession

\* A frame filled with silence at a boundary of frames is silent throughout.
LEMMA FilledSilence ==
  ASSUME TypeInv, FifoInv, tpc \in {"zero", "memset"}
  PROVE  \A i \in 0 .. FrameSize - 1 : Filled(pos, FrameSize, Silence)[position + i] = 0
<1>1. /\ FrameSize \in Nat /\ FrameSize > 0 /\ TotalSize = 2 * FrameSize
      /\ position \in {0, FrameSize} /\ pos = position
  BY Sizes DEF FifoInv, FrameInv, Aligned
<1> SUFFICES ASSUME NEW i \in 0 .. FrameSize - 1
             PROVE  Filled(position, FrameSize, Silence)[position + i] = 0
  BY <1>1
<1>2. /\ position + i \in 0 .. TotalSize - 1 /\ position <= position + i
      /\ position + i < position + FrameSize /\ (position + i) - position = i
  BY <1>1
<1>3. Filled(position, FrameSize, Silence)[position + i] = Silence[i]
  BY <1>2 DEF Filled
<1> QED BY <1>3 DEF Silence

\* Every step of the audio thread keeps an acknowledged stop drained.
LEMMA ThreadDrain ==
  ASSUME TypeInv, FifoInv, Thread PROVE DrainInv'
<1> SUFFICES ASSUME AppPrio = "lower" PROVE DrainInv'
  BY DEF DrainInv
<1>0. apc' = apc
  BY ThreadApart DEF appVars
<1>1. CASE Poll \/ Mdelay
  <2>1. /\ tpc' \in {"poll", "sleep", "peek"} /\ UNCHANGED <<cmp, queue>>
    BY <1>1 DEF Poll, Mdelay, ctlVars, poolVars
  <2> QED BY <1>0, <2>1 DEF FifoInv, DrainInv, Acked
<1>2. CASE FramePeek
  <2>1. /\ tpc' = (IF queue = << >> THEN "empty" ELSE "memset")
        /\ UNCHANGED <<cmp, queue, pos>> /\ position' = pos
    BY <1>2 DEF FramePeek, ctlVars, poolVars, readVars
  <2> QED BY <1>0, <2>1 DEF FifoInv, DrainInv, Acked
<1>3. CASE FrameTestStop
  <2>1. /\ tpc = "empty" /\ tpc' \in {"ack", "zero"}
        /\ UNCHANGED <<cmp, queue, pos, position>>
    BY <1>3 DEF FrameTestStop, ctlVars, poolVars, readVars
  <2> QED BY <1>0, <2>1 DEF FifoInv, DrainInv, Acked
<1>4. CASE FrameAck
  <2>1. /\ tpc = "ack" /\ tpc' = "zero" /\ UNCHANGED <<queue, pos, position>>
    BY <1>4 DEF FrameAck, poolVars, readVars
  <2> QED BY <1>0, <2>1 DEF FifoInv, DrainInv
<1>5. CASE FrameZero
  <2>1. /\ tpc = "zero" /\ tpc' = "xmit" /\ UNCHANGED <<cmp, queue>>
    BY <1>5 DEF FrameZero, ctlVars, poolVars
  <2> QED BY <1>0, <2>1 DEF FifoInv, DrainInv, Acked
<1>6. CASE FrameMemset
  <2>1. tpc = "memset" /\ tpc' = "copy" /\ cmp' = cmp
    BY <1>6 DEF FrameMemset, ctlVars
  <2> QED BY <1>0, <2>1 DEF FifoInv, DrainInv, Acked
<1>7. CASE FrameCopy \/ FrameUnderrun
  <2>1. tpc = "copy" /\ tpc' \in {"copy", "xmit"} /\ cmp' = cmp
    BY <1>7 DEF FrameCopy, FrameUnderrun, ctlVars
  <2> QED BY <1>0, <2>1 DEF FifoInv, DrainInv, Acked
<1>8. CASE XmitWord \/ XmitFull \/ XmitPend \/ XmitPut
  <2>1. /\ tpc' \in {"poll", "xmit", "pend", "put"} /\ UNCHANGED <<cmp, queue>>
    BY <1>8 DEF XmitWord, XmitFull, XmitPend, XmitPut, PutWord, ctlVars, poolVars
  <2> QED BY <1>0, <1>8, <2>1 DEF FifoInv, DrainInv, Acked, XmitWord, XmitFull, XmitPend, XmitPut
<1> QED BY <1>1, <1>2, <1>3, <1>4, <1>5, <1>6, <1>7, <1>8 DEF Thread

\* The DAC and its interrupt touch none of it, nor does dma_to_aubuf.
LEMMA HwFifo ==
  ASSUME FifoInv,
         \/ AudioIsr \/ DacPlay \/ AubufPend \/ UNCHANGED vars
         \/ (\E b \in DmaValues : ConfigureDma(b))
  PROVE  FifoInv'
<1>1. UNCHANGED <<appVars, activated, cmp, poolVars, readVars, threadVars>>
  BY Zenon DEF AudioIsr, DacPlay, AubufPend, ConfigureDma, ctlVars, vars
<1>2. NoMore' = NoMore /\ Flushed' = Flushed
  BY <1>1 DEF NoMore, Flushed, Over, appVars
<1>3. ShortLast' /\ OneSession'
  BY <1>1, <1>2 DEF FifoInv, ShortLast, OneSession, appVars, poolVars, threadVars
<1>4. FrameInv'
  BY <1>1, <1>2 DEF FifoInv, FrameInv, Multiple, Aligned, poolVars, readVars, threadVars
<1>5. DrainInv'
  BY <1>1 DEF FifoInv, DrainInv, Acked, appVars, ctlVars, poolVars, readVars,
     threadVars
<1> QED BY <1>3, <1>4, <1>5 DEF FifoInv

LEMMA InitFifo == Init => FifoInv
<1> SUFFICES ASSUME Init PROVE FifoInv
  OBVIOUS
<1>1. ShortLast
  <2>1. 1 .. Len(queue) = {}
    BY DEF Init
  <2> QED BY <2>1 DEF ShortLast
<1>2. FrameInv
  BY MultipleZero DEF Init, FrameInv, Aligned
<1>3. OneSession /\ DrainInv
  BY DEF Init, OneSession, Flushed, DrainInv, Acked
<1> QED BY <1>1, <1>2, <1>3 DEF FifoInv

\* Frames and the stop handshake are kept by every step.
LEMMA NextFifo ==
  ASSUME FramesFill, Quiet, TypeInv, FifoInv, [Next]_vars PROVE FifoInv'
<1>1. CASE App
  BY <1>1, AppShort, AppFrame, AppSession, AppDrain DEF FifoInv
<1>2. CASE Thread
  BY <1>2, ThreadShort, ThreadFrame, ThreadSession, ThreadDrain DEF FifoInv
<1> QED BY <1>1, <1>2, HwFifo DEF Next

\* Where FrameInv puts the frame in hand, it lies in tx_fifo.
LEMMA FrameInside == TypeInv /\ FifoInv => FrameInFifo
<1> SUFFICES ASSUME TypeInv, FifoInv PROVE FrameInFifo
  OBVIOUS
<1>1. /\ FrameSize \in Nat /\ TotalSize = 2 * FrameSize /\ index \in Nat
      /\ position \in {0, FrameSize}
  BY Sizes DEF TypeInv, Typed, TypeOK, ThreadTypeOK, FifoInv, FrameInv, Aligned
<1>2. tpc = "copy" => pos + (FrameSize - index) <= TotalSize
  BY <1>1 DEF FifoInv, FrameInv
<1> QED BY <1>1, <1>2 DEF FifoInv, FrameInv, FrameInFifo, Aligned

\* memset, memcpy and sound_transmit stay inside the two halves of tx_fifo,
\* for all sizes at which a block holds whole frames, in one session or with
\* an application below the audio thread.
THEOREM FramesStayInFifo ==
  ASSUME FramesFill, Quiet PROVE Spec => []FrameInFifo
<1> QED BY InitType, InitFifo, NextType, NextFifo, FrameInside, PTL DEF Spec

-----------------------------------------------------------------------------
(* The stream. What has been written and not yet heard is spread over four *)
(* stages: the block being filled, the data queue, the frame in hand and   *)
(* AUBUF. The words come in order within each stage, and each stage takes  *)
(* up where the one before it ends: words up to a have entered AUBUF, up   *)
(* to f have left the queue, up to Pushed have been queued.                *)

\* The writes fit the index _audio_dev_write counts them with.
Unwrapped == \A n \in WriteSizes : n < IndexSize

Copied == written - (size - windex)
Pushed == Copied - write_index

\* last[i] is the last word (not silence) among the first i words of AUBUF
AubufHolds(a) ==
    \E last \in [0 .. Len(aubuf) -> 0 .. a] :
        /\ last[0] = heard /\ last[Len(aubuf)] = a
        /\ \A i \in 1 .. Len(aubuf) :
              \/ aubuf[i] = 0 /\ last[i] = last[i - 1]
              \/ aubuf[i] = last[i - 1] + 1 /\ last[i] = last[i - 1] + 1

FrameHolds(a, f) ==
    /\ a <= f
    /\ tpc \notin {"copy", "xmit", "pend", "put"} => f = a
    /\ tpc = "copy" =>
          /\ f = a + index
          /\ \A i \in 0 .. FrameSize - 1 :
                tx_fifo[position + i] = IF i < f - a THEN a + 1 + i ELSE 0
    /\ tpc \in {"xmit", "pend", "put"} =>
          /\ f - a <= FrameSize - count
          /\ \A i \in count .. FrameSize - 1 :
                tx_fifo[position + i] =
                   IF i - count < f - a THEN a + 1 + (i - count) ELSE 0

\* The blocks of q hold, in m, the words up to p; those up to f are read.
Chain(q, m, r, p, f) ==
    LET first(i) == m[q[i].blk][0]
    IN  /\ q = << >> => f = p
        /\ q # << >> => /\ first(1) + r = f + 1
                        /\ first(Len(q)) + q[Len(q)].size = p + 1
        /\ \A i \in 1 .. Len(q) :
              /\ first(i) + q[i].size <= p + 1
              /\ \A j \in 0 .. q[i].size - 1 : m[q[i].blk][j] = first(i) + j
        /\ \A i \in 1 .. Len(q) - 1 : first(i + 1) = first(i) + q[i].size

QueueHolds(f) == Chain(queue, mem, read_index, Pushed, f)

WriterHolds ==
    /\ write_index <= Copied
    /\ \A j \in 0 .. write_index - 1 : mem[write_data][j] = Pushed + 1 + j

\* A session starts with nothing on its way.
BeforeStart ==
    /\ sessions = 0 => ~activated /\ queue = << >>
    /\ ~activated /\ ~Over => tpc \in {"poll", "sleep"} /\ aubuf = << >>

\* The loop of _audio_dev_write copies every word of the call.
CallHolds ==
    /\ size < IndexSize /\ windex <= size
    /\ apc \notin {"alloc", "copy"} => windex = size

Stages == \E a, f \in Nat : AubufHolds(a) /\ FrameHolds(a, f) /\ QueueHolds(f)
StreamInv == BeforeStart /\ CallHolds /\ WriterHolds /\ Stages

\* AUBUF takes the next word, or one of silence.
LEMMA AubufPut ==
  ASSUME aubuf \in Seq(Nat), NEW a \in Nat, AubufHolds(a), NEW w \in Nat, NEW b \in Nat,
         aubuf' = Append(aubuf, w), heard' = heard,
         (w = 0 /\ b = a) \/ (w = a + 1 /\ b = a + 1)
  PROVE  AubufHolds(b)'
<1> DEFINE L == Len(aubuf)
<1> PICK last \in [0 .. L -> 0 .. a] :
        /\ last[0] = heard /\ last[L] = a
        /\ \A i \in 1 .. L :
              \/ aubuf[i] = 0 /\ last[i] = last[i - 1]
              \/ aubuf[i] = last[i - 1] + 1 /\ last[i] = last[i - 1] + 1
  BY DEF AubufHolds
<1> DEFINE new == [i \in 0 .. L + 1 |-> IF i = L + 1 THEN b ELSE last[i]]
<1>1. L \in Nat /\ Len(aubuf') = L + 1 /\ aubuf'[L + 1] = w
      /\ \A i \in 1 .. L : aubuf'[i] = aubuf[i]
  OBVIOUS
<1>2. new \in [0 .. L + 1 -> 0 .. b]
  <2> SUFFICES ASSUME NEW i \in 0 .. L + 1 PROVE (IF i = L + 1 THEN b ELSE last[i]) \in 0 .. b
    OBVIOUS
  <2>1. CASE i = L + 1
    BY <2>1
  <2>2. CASE i # L + 1
    <3>1. i \in 0 .. L
      BY <1>1, <2>2
    <3>2. last[i] \in 0 .. a
      BY <3>1
    <3> QED BY <2>2, <3>2
  <2> QED BY <2>1, <2>2
<1>3. new[L + 1] = b /\ \A i \in 0 .. L : new[i] = last[i]
  <2>1. L + 1 \in 0 .. L + 1
    BY <1>1
  <2>2. \A i \in 0 .. L : i \in 0 .. L + 1 /\ i # L + 1
    BY <1>1
  <2> QED BY <2>1, <2>2
<1> HIDE DEF new
<1>4. new[0] = heard
  BY <1>1, <1>3
<1>5. ASSUME NEW i \in 1 .. L + 1
      PROVE  \/ aubuf'[i] = 0 /\ new[i] = new[i - 1]
             \/ aubuf'[i] = new[i - 1] + 1 /\ new[i] = new[i - 1] + 1
  <2>1. CASE i = L + 1
    <3>1. i - 1 = L /\ L \in 0 .. L
      BY <1>1, <2>1
    <3>2. new[i - 1] = a /\ new[i] = b /\ aubuf'[i] = w
      BY <3>1, <2>1, <1>1, <1>3
    <3> QED BY <3>2
  <2>2. CASE i # L + 1
    <3>1. i \in 1 .. L /\ i \in 0 .. L /\ i - 1 \in 0 .. L
      BY <1>1, <2>2
    <3>2. new[i] = last[i] /\ new[i - 1] = last[i - 1] /\ aubuf'[i] = aubuf[i]
      BY <3>1, <1>1, <1>3
    <3> QED BY <3>1, <3>2
  <2> QED BY <2>1, <2>2
<1>6. /\ new \in [0 .. Len(aubuf') -> 0 .. b]
      /\ new[0] = heard' /\ new[Len(aubuf')] = b
      /\ \A i \in 1 .. Len(aubuf') :
            \/ aubuf'[i] = 0 /\ new[i] = new[i - 1]
            \/ aubuf'[i] = new[i - 1] + 1 /\ new[i] = new[i - 1] + 1
  BY <1>1, <1>2, <1>3, <1>4, <1>5
<1> QED BY <1>6, Zenon DEF AubufHolds

\* The DAC plays the word after the last one heard, or silence.
LEMMA AubufTake ==
  ASSUME aubuf \in Seq(Nat), aubuf # << >>, NEW a \in Nat, AubufHolds(a), heard \in Nat,
         aubuf' = Tail(aubuf), heard' = IF Head(aubuf) = 0 THEN heard ELSE Head(aubuf)
  PROVE  /\ AubufHolds(a)'
         /\ Head(aubuf) # 0 => heard' = heard + 1 /\ heard < a
<1> DEFINE L == Len(aubuf)
<1> PICK last \in [0 .. L -> 0 .. a] :
        /\ last[0] = heard /\ last[L] = a
        /\ \A i \in 1 .. L :
              \/ aubuf[i] = 0 /\ last[i] = last[i - 1]
              \/ aubuf[i] = last[i - 1] + 1 /\ last[i] = last[i - 1] + 1
  BY DEF AubufHolds
<1> DEFINE new == [i \in 0 .. L - 1 |-> last[i + 1]]
<1>1. /\ L \in Nat /\ L > 0 /\ Len(aubuf') = L - 1 /\ Head(aubuf) = aubuf[1]
      /\ \A i \in 1 .. L - 1 : aubuf'[i] = aubuf[i + 1]
  OBVIOUS
<1>2. 1 \in 1 .. L /\ 1 \in 0 .. L /\ 1 - 1 = 0
  BY <1>1
<1>3. \/ aubuf[1] = 0 /\ last[1] = last[0]
      \/ aubuf[1] = last[0] + 1 /\ last[1] = last[0] + 1
  BY <1>2
<1>4. last[1] \in 0 .. a
  BY <1>2
<1>5. heard' = last[1] /\ (Head(aubuf) # 0 => heard' = heard + 1 /\ heard < a)
  BY <1>1, <1>3, <1>4
<1>6. new \in [0 .. L - 1 -> 0 .. a]
  <2>1. \A i \in 0 .. L - 1 : i + 1 \in 0 .. L
    BY <1>1
  <2> QED BY <2>1
<1>7. \A i \in 0 .. L - 1 : new[i] = last[i + 1]
  OBVIOUS
<1> HIDE DEF new
<1>8. new[0] = heard' /\ new[L - 1] = a
  <2>1. 0 \in 0 .. L - 1 /\ 0 + 1 = 1 /\ L - 1 \in 0 .. L - 1 /\ (L - 1) + 1 = L
    BY <1>1
  <2> QED BY <2>1, <1>5, <1>7
<1>9. ASSUME NEW i \in 1 .. L - 1
      PROVE  \/ aubuf'[i] = 0 /\ new[i] = new[i - 1]
             \/ aubuf'[i] = new[i - 1] + 1 /\ new[i] = new[i - 1] + 1
  <2>1. /\ i \in 0 .. L - 1 /\ i - 1 \in 0 .. L - 1 /\ (i - 1) + 1 = i
        /\ i + 1 \in 1 .. L /\ (i + 1) - 1 = i
    BY <1>1
  <2>2. new[i] = last[i + 1] /\ new[i - 1] = last[i] /\ aubuf'[i] = aubuf[i + 1]
    BY <2>1, <1>1, <1>7
  <2> QED BY <2>1, <2>2
<1>10. AubufHolds(a)'
  <2>1. /\ new \in [0 .. Len(aubuf') -> 0 .. a]
        /\ new[0] = heard' /\ new[Len(aubuf')] = a
        /\ \A i \in 1 .. Len(aubuf') :
              \/ aubuf'[i] = 0 /\ new[i] = new[i - 1]
              \/ aubuf'[i] = new[i - 1] + 1 /\ new[i] = new[i - 1] + 1
    BY <1>1, <1>6, <1>8, <1>9
  <2> QED BY <2>1, Zenon DEF AubufHolds
<1> QED BY <1>5, <1>10

Memory == [Block -> [0 .. BlockSize - 1 -> Nat]]

LEMMA SeqParts ==
  ASSUME NEW q \in Seq(Item)
  PROVE  /\ Len(q) \in Nat /\ (q = << >> <=> Len(q) = 0)
         /\ \A i \in 1 .. Len(q) : q[i] \in Item
  OBVIOUS

LEMMA ItemParts ==
  ASSUME NEW q \in Seq(Item), NEW m \in Memory, NEW i \in 1 .. Len(q)
  PROVE  q[i].blk \in Block /\ m[q[i].blk][0] \in Nat /\ q[i].size \in 1 .. BlockSize
<1>1. q[i] \in Item
  OBVIOUS
<1>2. q[i].blk \in Block /\ q[i].size \in 1 .. BlockSize
  BY <1>1 DEF Item
<1>3. m[q[i].blk] \in [0 .. BlockSize - 1 -> Nat] /\ 0 \in 0 .. BlockSize - 1
  BY <1>2, Sizes DEF Memory
<1> QED BY <1>2, <1>3

\* Memory that keeps the queued blocks keeps the chain.
LEMMA ChainSame ==
  ASSUME NEW q \in Seq(Item), NEW m \in Memory, NEW n \in Memory,
         NEW r \in Nat, NEW p \in Int, NEW f \in Nat, Chain(q, m, r, p, f),
         \A i \in 1 .. Len(q) : n[q[i].blk] = m[q[i].blk]
  PROVE  Chain(q, n, r, p, f)
<1>1. q # << >> => 1 \in 1 .. Len(q) /\ Len(q) \in 1 .. Len(q)
  BY SeqParts
<1>2. \A i \in 1 .. Len(q) - 1 : i \in 1 .. Len(q) /\ i + 1 \in 1 .. Len(q)
  BY SeqParts
<1> QED BY <1>1, <1>2 DEF Chain

\* Copying k words of the head moves on by k words ...
LEMMA ChainRead ==
  ASSUME NEW q \in Seq(Item), NEW m \in Memory, q # << >>,
         NEW r \in Nat, NEW p \in Int, NEW f \in Nat, Chain(q, m, r, p, f), NEW k \in Nat
  PROVE  Chain(q, m, r + k, p, f + k)
<1>1. 1 \in 1 .. Len(q)
  BY SeqParts
<1>2. q[1] \in Item
  BY <1>1, SeqParts
<1>3. m[q[1].blk][0] \in Nat
  BY <1>2, Sizes DEF Item, Memory
<1>4. m[q[1].blk][0] + r = f + 1
  BY DEF Chain
<1>5. m[q[1].blk][0] + (r + k) = (f + k) + 1
  BY <1>3, <1>4
<1> QED BY <1>5 DEF Chain

\* ... and a head read to its end leaves the rest of the chain.
LEMMA ChainPop ==
  ASSUME NEW q \in Seq(Item), NEW m \in Memory, q # << >>,
         NEW p \in Int, NEW f \in Nat, Chain(q, m, q[1].size, p, f)
  PROVE  Chain(Tail(q), m, 0, p, f)
<1> DEFINE t == Tail(q)
           first(i) == m[q[i].blk][0]
           next(i) == m[t[i].blk][0]
<1>1. t \in Seq(Item) /\ Len(t) = Len(q) - 1 /\ \A i \in 1 .. Len(t) : t[i] = q[i + 1]
  OBVIOUS
<1>2. Len(q) \in Nat /\ Len(q) > 0 /\ (t = << >> <=> Len(t) = 0)
  <2>1. t = << >> <=> Len(t) = 0
    BY <1>1, SeqParts, Zenon
  <2> QED BY <2>1
<1>3. \A i \in 1 .. Len(q) : first(i) \in Nat /\ q[i].size \in Nat
  BY ItemParts
<1>4. /\ first(1) + q[1].size = f + 1
      /\ first(Len(q)) + q[Len(q)].size = p + 1
      /\ \A i \in 1 .. Len(q) :
            /\ first(i) + q[i].size <= p + 1
            /\ \A j \in 0 .. q[i].size - 1 : m[q[i].blk][j] = first(i) + j
      /\ \A i \in 1 .. Len(q) - 1 : first(i + 1) = first(i) + q[i].size
  BY DEF Chain
<1>5. \A i \in 1 .. Len(t) : next(i) = first(i + 1) /\ t[i].size = q[i + 1].size
  BY <1>1
<1> HIDE DEF t, first, next
<1>6. t = << >> => f = p
  <2>1. t = << >> => Len(q) = 1
    BY <1>1, <1>2
  <2>2. t = << >> => f + 1 = p + 1
    BY <2>1, <1>4
  <2> QED BY <2>2
<1>7. ASSUME t # << >>
      PROVE  next(1) + 0 = f + 1 /\ next(Len(t)) + t[Len(t)].size = p + 1
  <2>1. /\ 1 \in 1 .. Len(t) /\ Len(t) \in 1 .. Len(t) /\ Len(t) + 1 = Len(q)
        /\ 1 \in 1 .. Len(q) - 1 /\ 1 + 1 \in 1 .. Len(q)
    BY <1>1, <1>2, <1>7
  <2>2. next(1) = first(1 + 1) /\ first(1 + 1) = first(1) + q[1].size
    BY <2>1, <1>4, <1>5
  <2>3. next(1) = f + 1 /\ next(1) \in Nat
    BY <2>1, <2>2, <1>3, <1>4
  <2>4. next(Len(t)) = first(Len(q)) /\ t[Len(t)].size = q[Len(q)].size
    BY <2>1, <1>5
  <2> QED BY <2>3, <2>4, <1>4
<1>8. ASSUME NEW i \in 1 .. Len(t)
      PROVE  /\ next(i) + t[i].size <= p + 1
             /\ \A j \in 0 .. t[i].size - 1 : m[t[i].blk][j] = next(i) + j
  <2>1. i + 1 \in 1 .. Len(q)
    BY <1>1, <1>2
  <2> QED BY <2>1, <1>1, <1>4, <1>5
<1>9. ASSUME NEW i \in 1 .. Len(t) - 1 PROVE next(i + 1) = next(i) + t[i].size
  <2>1. i \in 1 .. Len(t) /\ i + 1 \in 1 .. Len(t) /\ i + 1 \in 1 .. Len(q) - 1
    BY <1>1, <1>2
  <2> QED BY <2>1, <1>4, <1>5
<1> QED BY <1>6, <1>7, <1>8, <1>9 DEF Chain, next, t

\* A block pushed with the n words after p continues the chain.
LEMMA ChainPush ==
  ASSUME NEW q \in Seq(Item), NEW m \in Memory,
         NEW r \in Nat, NEW p \in Nat, NEW f \in Nat, Chain(q, m, r, p, f),
         q = << >> => r = 0,
         NEW b \in Block, NEW n \in 1 .. BlockSize,
         \A j \in 0 .. n - 1 : m[b][j] = p + 1 + j
  PROVE  Chain(Append(q, [blk |-> b, size |-> n]), m, r, p + n, f)
<1> DEFINE e == [blk |-> b, size |-> n]
           a == Append(q, e)
           L == Len(q)
           first(i) == m[q[i].blk][0]
           next(i) == m[a[i].blk][0]
<1>1. e \in Item /\ e.blk = b /\ e.size = n /\ n \in Nat /\ n > 0
  BY Sizes DEF Item
<1> HIDE DEF e
<1>2. /\ L \in Nat /\ Len(a) = L + 1 /\ a[L + 1] = e /\ a # << >>
      /\ \A i \in 1 .. L : a[i] = q[i]
  BY <1>1
<1>3. \A i \in 1 .. L : first(i) \in Nat /\ q[i].size \in Nat
  BY ItemParts
<1>4. /\ q = << >> => f = p
      /\ q # << >> => first(1) + r = f + 1 /\ first(L) + q[L].size = p + 1
      /\ \A i \in 1 .. L :
            /\ first(i) + q[i].size <= p + 1
            /\ \A j \in 0 .. q[i].size - 1 : m[q[i].blk][j] = first(i) + j
      /\ \A i \in 1 .. L - 1 : first(i + 1) = first(i) + q[i].size
  BY DEF Chain
<1>5. \A i \in 1 .. L : next(i) = first(i) /\ a[i] = q[i]
  BY <1>2
<1>6. next(L + 1) = p + 1
  <2>1. 0 \in 0 .. n - 1
    BY <1>1
  <2>2. m[b][0] = p + 1 + 0
    BY <2>1
  <2> QED BY <2>2, <1>1, <1>2
<1>7. q = << >> <=> L = 0
  BY SeqParts
<1> HIDE DEF a, L, first, next
<1>8. next(1) + r = f + 1
  <2>1. CASE L = 0
    BY <2>1, <1>4, <1>6, <1>7
  <2>2. CASE L # 0
    <3>1. 1 \in 1 .. L
      BY <2>2, <1>2
    <3> QED BY <2>2, <3>1, <1>4, <1>5, <1>7
  <2> QED BY <2>1, <2>2
<1>9. next(L + 1) + a[L + 1].size = (p + n) + 1
  BY <1>1, <1>2, <1>6
<1>10. ASSUME NEW i \in 1 .. L + 1
       PROVE  /\ next(i) + a[i].size <= (p + n) + 1
              /\ \A j \in 0 .. a[i].size - 1 : m[a[i].blk][j] = next(i) + j
  <2>1. CASE i = L + 1
    BY <2>1, <1>1, <1>2, <1>6
  <2>2. CASE i # L + 1
    <3>1. i \in 1 .. L
      BY <2>2, <1>2
    <3>2. next(i) + a[i].size <= (p + n) + 1
      BY <3>1, <1>1, <1>3, <1>4, <1>5
    <3> QED BY <3>1, <3>2, <1>4, <1>5
  <2> QED BY <2>1, <2>2
<1>11. ASSUME NEW i \in 1 .. L PROVE next(i + 1) = next(i) + a[i].size
  <2>1. CASE i = L
    <3>1. L \in 1 .. L /\ q # << >>
      BY <2>1, <1>2, <1>7
    <3> QED BY <2>1, <3>1, <1>3, <1>4, <1>5, <1>6
  <2>2. CASE i # L
    <3>1. i \in 1 .. L - 1 /\ i + 1 \in 1 .. L
      BY <2>2, <1>2
    <3> QED BY <3>1, <1>4, <1>5
  <2> QED BY <2>1, <2>2
<1>12. Chain(a, m, r, p + n, f)
  <2>1. (L + 1) - 1 = L
    BY <1>2
  <2> QED BY <2>1, <1>2, <1>8, <1>9, <1>10, <1>11 DEF Chain, next
<1> QED BY <1>12 DEF a, e

LEMMA StreamTypes ==
  ASSUME TypeInv
  PROVE  /\ queue \in Seq(Item) /\ mem \in Memory /\ write_data \in Block
         /\ written \in Nat /\ size \in Nat /\ windex \in Nat /\ Copied \in Nat
         /\ write_index \in 0 .. BlockSize - 1 /\ Pushed \in Int
         /\ read_index \in Nat /\ (queue = << >> => read_index = 0)
         /\ aubuf \in Seq(Nat) /\ heard \in Nat
<1>1. queue \in Seq(Item) /\ mem \in Memory
  BY DEF TypeInv, Typed, TypeOK, PoolTypeOK, Item, Memory
<1>2. /\ write_data \in Block /\ written \in Nat /\ write_index \in 0 .. BlockSize - 1
      /\ read_index \in Nat /\ size \in 0 .. written /\ windex \in Nat
  BY Sizes, SoundReplayAssumption
  DEF TypeInv, Typed, TypeOK, WriteTypeOK, AppTypeOK, ReadTypeOK
<1>3. aubuf \in Seq(Nat) /\ heard \in Nat
  BY DEF TypeInv, Typed, TypeOK, HwTypeOK
<1>4. Copied \in Nat
  BY <1>2 DEF Copied
<1> QED BY <1>1, <1>2, <1>3, <1>4 DEF TypeInv, Typed, ReadInHead, Pushed

\* The words of a write continue those of the block it fills.
LEMMA CopyWords ==
  ASSUME TypeInv, CallHolds, WriterHolds, WriteCopy
  PROVE  LET r == Lesser(BlockSize - write_index, size - windex)
         IN  /\ r \in Nat /\ r > 0 /\ write_index + r <= BlockSize
             /\ Copied' = Copied + r /\ windex' = windex + r /\ windex + r <= size
             /\ \A j \in 0 .. write_index + r - 1 : mem'[write_data][j] = Pushed + 1 + j
             /\ \A b \in Block : b # write_data => mem'[b] = mem[b]
             /\ write_index + r = BlockSize => write_index' = 0
             /\ write_index + r # BlockSize => write_index' = write_index + r
<1> DEFINE r == Lesser(BlockSize - write_index, size - windex)
           new == [i \in 0 .. BlockSize - 1 |->
                     IF i \in write_index .. write_index + r - 1
                     THEN Numbered(windex + (i - write_index))
                     ELSE mem[write_data][i]]
<1>0. /\ mem \in Memory /\ write_data \in Block /\ written \in Nat
      /\ write_index \in 0 .. BlockSize - 1
      /\ size \in Nat /\ windex \in Nat /\ windex < size /\ size < IndexSize
      /\ BlockSize \in Nat /\ BlockSize > 0 /\ IndexSize \in Nat
  BY StreamTypes, Sizes, SoundReplayAssumption DEF WriteCopy, TypeInv, WriteOpen, CallHolds
<1>1. r \in Nat /\ r > 0 /\ write_index + r <= BlockSize /\ windex + r <= size
  BY <1>0 DEF Lesser
<1>2. /\ mem' = [mem EXCEPT ![write_data] = new] /\ UNCHANGED <<size, written>>
      /\ windex' = (windex + r) % IndexSize
      /\ write_index' = (write_index + r) % BlockSize
  BY DEF WriteCopy
<1> HIDE DEF r
<1>8. windex' = windex + r
  BY <1>0, <1>1, <1>2
<1>9. Copied' = Copied + r
  BY <1>0, <1>1, <1>2, <1>8 DEF Copied
<1>3. mem'[write_data] = new /\ \A b \in Block : b # write_data => mem'[b] = mem[b]
  BY <1>0, <1>2 DEF Memory
<1>4. ASSUME NEW j \in 0 .. write_index + r - 1 PROVE new[j] = Pushed + 1 + j
  <2>1. j \in 0 .. BlockSize - 1 /\ j \in Nat
    BY <1>0, <1>1
  <2>2. CASE j \in write_index .. write_index + r - 1
    <3>1. new[j] = written - size + 1 + (windex + (j - write_index))
      BY <2>1, <2>2 DEF Numbered
    <3> QED BY <1>0, <2>1, <3>1 DEF Pushed, Copied
  <2>3. CASE j \notin write_index .. write_index + r - 1
    <3>1. new[j] = mem[write_data][j]
      BY <2>1, <2>3
    <3>2. j \in 0 .. write_index - 1
      BY <1>0, <1>1, <2>1, <2>3
    <3> QED BY <3>1, <3>2 DEF WriterHolds
  <2> QED BY <2>2, <2>3
<1> HIDE DEF new
<1>5. write_index + r = BlockSize => write_index' = 0
  BY <1>0, <1>2
<1>6. write_index + r # BlockSize => write_index' = write_index + r
  BY <1>0, <1>1, <1>2
<1>7. \A j \in 0 .. write_index + r - 1 : mem'[write_data][j] = Pushed + 1 + j
  BY <1>3, <1>4
<1> QED BY <1>1, <1>3, <1>5, <1>6, <1>7, <1>8, <1>9 DEF r

\* A block that is not queued may change, and the queue stays a chain.
LEMMA QueueSame ==
  ASSUME TypeInv, TypeInv', NEW f \in Nat, QueueHolds(f),
         UNCHANGED <<queue, read_index, Pushed>>, \A b \in Queued : mem'[b] = mem[b]
  PROVE  QueueHolds(f)'
<1>1. \A i \in 1 .. Len(queue) : mem'[queue[i].blk] = mem[queue[i].blk]
  BY DEF Queued
<1>2. mem' \in Memory
  BY DEF TypeInv, Typed, TypeOK, PoolTypeOK, Memory
<1>3. Chain(queue, mem', read_index, Pushed, f)
  BY <1>1, <1>2, StreamTypes, ChainSame DEF QueueHolds
<1> QED BY <1>3 DEF QueueHolds

\* A block that is pushed with the words that follow those queued so far.
LEMMA QueuePush ==
  ASSUME TypeInv, TypeInv', NEW f \in Nat, QueueHolds(f), Pushed \in Nat,
         NEW n \in 1 .. BlockSize, Push(write_data, n), read_index' = read_index,
         Pushed' = Pushed + n,
         \A j \in 0 .. n - 1 : mem'[write_data][j] = Pushed + 1 + j,
         \A b \in Queued : mem'[b] = mem[b]
  PROVE  QueueHolds(f)'
<1>1. \A i \in 1 .. Len(queue) : mem'[queue[i].blk] = mem[queue[i].blk]
  BY DEF Queued
<1>2. mem' \in Memory
  BY DEF TypeInv, Typed, TypeOK, PoolTypeOK, Memory
<1>3. Chain(queue, mem', read_index, Pushed, f)
  BY <1>1, <1>2, StreamTypes, ChainSame DEF QueueHolds
<1>4. Chain(Append(queue, [blk |-> write_data, size |-> n]), mem', read_index, Pushed + n, f)
  BY <1>2, <1>3, StreamTypes, ChainPush
<1> QED BY <1>4 DEF QueueHolds, Push

\* The application's steps: the writer's block and the queue go on in order.
LEMMA AppQueue ==
  ASSUME TypeInv, TypeInv', OneOwner, WriterInv, WriterHolds, CallHolds,
         BeforeStart, MaxSessions <= 1, NEW f \in Nat, QueueHolds(f), App
  PROVE  QueueHolds(f)' /\ WriterHolds'
<1>0. /\ queue \in Seq(Item) /\ mem \in Memory /\ write_data \in Block
      /\ Copied \in Nat /\ write_index \in 0 .. BlockSize - 1
      /\ Pushed \in Nat /\ write_index <= Copied
  BY StreamTypes DEF WriterHolds, Pushed
<1>1. CASE UNCHANGED <<queue, mem, read_index, Copied, write_index, write_data>>
  <2>1. UNCHANGED Pushed
    BY <1>1 DEF Pushed
  <2>2. QueueHolds(f)'
    BY <1>1, <2>1, QueueSame
  <2> QED BY <1>1, <2>1, <2>2 DEF WriterHolds
<1>2. CASE Open
  <2>1. sessions = 0 /\ apc = "idle" /\ UNCHANGED <<queue, mem, Copied, write_data>>
        /\ (write_index' = write_index \/ write_index' = 0)
    BY <1>2, SoundReplayAssumption
    DEF Open, poolVars, Copied, TypeInv, Typed, TypeOK, AppTypeOK
  <2>2. ~activated /\ queue = << >>
    BY <2>1 DEF BeforeStart
  <2>3. write_index = 0 /\ write_index' = 0
    BY <2>1, <2>2 DEF WriterInv
  <2>4. read_index = 0 /\ read_index' = 0
    BY <1>2, <2>2, StreamTypes DEF Open
  <2> QED BY <1>1, <2>1, <2>3, <2>4
<1>3. CASE WriteAlloc
  <2>1. PICK b \in free : mem' = [mem EXCEPT ![b] = Empty]
    BY <1>3 DEF WriteAlloc
  <2>2. UNCHANGED <<queue, read_index, Copied, write_index>> /\ apc = "alloc"
    BY <1>3 DEF WriteAlloc, readVars, Copied
  <2>3. b \notin Queued
    BY <2>1 DEF OneOwner
  <2>4. \A c \in Queued : c \in Block /\ c # b
    BY <2>3 DEF OneOwner
  <2>5. \A c \in Queued : mem'[c] = mem[c]
    BY <1>0, <2>1, <2>4 DEF Memory
  <2>6. write_index = 0 /\ UNCHANGED Pushed
    BY <2>2 DEF WriterInv, Pushed
  <2>7. QueueHolds(f)'
    BY <2>2, <2>5, <2>6, QueueSame
  <2>8. 0 .. write_index' - 1 = {}
    BY <2>2, <2>6
  <2> QED BY <1>0, <2>2, <2>7, <2>8 DEF WriterHolds
<1>4. CASE WriteCopy
  <2> DEFINE r == Lesser(BlockSize - write_index, size - windex)
  <2>1. /\ r \in Nat /\ r > 0 /\ write_index + r <= BlockSize /\ Copied' = Copied + r
        /\ \A j \in 0 .. write_index + r - 1 : mem'[write_data][j] = Pushed + 1 + j
        /\ \A b \in Block : b # write_data => mem'[b] = mem[b]
        /\ write_index + r = BlockSize => write_index' = 0
        /\ write_index + r # BlockSize => write_index' = write_index + r
    BY <1>4, CopyWords
  <2> HIDE DEF r
  <2>2. Filling = {write_data} /\ UNCHANGED <<write_data, read_index>>
    BY <1>4 DEF WriteCopy, Filling, readVars
  <2>3. \A b \in Queued : b \in Block /\ b # write_data
    BY <2>2 DEF OneOwner
  <2>4. \A b \in Queued : mem'[b] = mem[b]
    BY <2>1, <2>3
  <2>5. CASE write_index + r = BlockSize
    <3>1. write_index' = 0 /\ Push(write_data, BlockSize)
      BY <1>4, <2>1, <2>5 DEF WriteCopy
    <3>2. Pushed' = Pushed + BlockSize /\ BlockSize \in 1 .. BlockSize
      BY <1>0, <2>1, <2>5, <3>1, Sizes DEF Pushed
    <3>0. \A j \in 0 .. BlockSize - 1 : mem'[write_data][j] = Pushed + 1 + j
      <4>1. \A j \in 0 .. write_index + r - 1 : mem'[write_data][j] = Pushed + 1 + j
        BY <2>1
      <4>2. write_index + r - 1 = BlockSize - 1
        <5>1. write_index \in Int /\ r \in Int
          BY <2>1, StreamTypes
        <5> QED BY <2>5, <5>1
      <4> QED BY <4>1, <4>2, Zenon
    <3>3. QueueHolds(f)'
      BY <1>0, <2>2, <2>4, <3>0, <3>1, <3>2, QueuePush
    <3>4. 0 .. write_index' - 1 = {} /\ write_index' <= Copied'
      BY <1>0, <2>1, <3>1
    <3> QED BY <3>3, <3>4 DEF WriterHolds
  <2>6. CASE write_index + r # BlockSize
    <3>1. write_index' = write_index + r
      BY <2>1, <2>6
    <3>2. UNCHANGED Pushed /\ write_index' <= Copied'
      BY <1>0, <2>1, <3>1 DEF Pushed
    <3>3. WriterHolds'
      <4>1. \A j \in 0 .. write_index' - 1 : mem'[write_data'][j] = Pushed' + 1 + j
        <5>1. write_data' = write_data /\ Pushed' = Pushed
          BY <2>2, <3>2
        <5>2. 0 .. write_index' - 1 = 0 .. write_index + r - 1
          BY <1>0, <2>1, <3>1
        <5> QED BY <2>1, <5>1, <5>2
      <4> QED BY <3>2, <4>1 DEF WriterHolds
    <3>4. QueueHolds(f)'
      <4>3. write_index' # 0
        BY <1>0, <2>1, <3>1
      <4>4. queue' = queue
        BY <1>4, <4>3 DEF WriteCopy
      <4> QED BY <2>2, <2>4, <3>2, <4>4, QueueSame
    <3> QED BY <3>3, <3>4
  <2> QED BY <2>5, <2>6
<1>5. CASE StopFlush
  <2>0. write_index' = 0 /\ UNCHANGED <<mem, read_index, Copied, write_data>>
    BY <1>5 DEF StopFlush, readVars, Copied
  <2>1. /\ write_index' = 0 /\ UNCHANGED <<mem, read_index, Copied, write_data>>
        /\ Pushed' = Pushed + write_index
    BY <1>0, <2>0 DEF Pushed
  <2>2. QueueHolds(f)'
    <3>1. CASE write_index = 0
      <4>1. queue' = queue /\ Pushed' = Pushed
        BY <1>0, <1>5, <2>1, <3>1 DEF StopFlush
      <4> QED BY <2>1, <4>1, QueueSame
    <3>2. CASE write_index # 0
      <4>1. Push(write_data, write_index) /\ write_index \in 1 .. BlockSize
        BY <1>0, <1>5, <3>2, Sizes DEF StopFlush
      <4>2. \A j \in 0 .. write_index - 1 : mem'[write_data][j] = Pushed + 1 + j
        BY <2>1 DEF WriterHolds
      <4> QED BY <1>0, <2>1, <4>1, <4>2, QueuePush
    <3> QED BY <3>1, <3>2
  <2>3. 0 .. write_index' - 1 = {} /\ write_index' <= Copied'
    BY <1>0, <2>1
  <2> QED BY <2>2, <2>3 DEF WriterHolds
<1>6. CASE \E c \in BOOLEAN : Stop(c)
  <2>1. UNCHANGED <<poolVars, writeVars, readVars, written, size, windex>>
    BY <1>6, Zenon DEF Stop
  <2> QED BY <1>1, <2>1 DEF poolVars, writeVars, readVars, Copied
<1>8. ASSUME NEW n \in WriteSizes, Write(n) PROVE QueueHolds(f)' /\ WriterHolds'
  <2>1. /\ UNCHANGED <<poolVars, writeVars, readVars>> /\ apc = "idle"
        /\ written' = written + n /\ size' = n /\ windex' = 0
    BY <1>8 DEF Write
  <2>2. windex = size /\ n \in Nat
    BY <2>1, SoundReplayAssumption DEF CallHolds
  <2>3. Copied' = Copied
    BY <2>1, <2>2, StreamTypes DEF Copied
  <2> QED BY <1>1, <2>1, <2>3 DEF poolVars, writeVars, readVars
<1>7. CASE \/ StartReplay \/ StartLoad \/ StartStore \/ WriteReturn \/ Activate \/ StopEvent \/ StopInit
           \/ StopWait \/ StopClear \/ StopDac \/ StopInt \/ StopReturn
  <2>1. UNCHANGED <<poolVars, writeVars, readVars, written, size, windex>>
    BY <1>7 DEF StartReplay, StartLoad, StartStore, WriteReturn, Activate, StopEvent, StopInit,
       StopWait, StopClear, StopDac, StopInt, StopReturn
  <2> QED BY <1>1, <2>1 DEF poolVars, writeVars, readVars, Copied
<1> QED BY <1>2, <1>3, <1>4, <1>5, <1>6, <1>7, <1>8 DEF App, AppStep

\* A call goes on until its last word is copied.
LEMMA AppCall ==
  ASSUME TypeInv, CallHolds, WriterHolds, Unwrapped, App PROVE CallHolds'
<1>1. CASE Open \/ (\E c \in BOOLEAN : Stop(c))
  <2>1. UNCHANGED <<size, windex>> /\ apc = "idle"
    BY <1>1, Zenon DEF Open, Stop
  <2> QED BY <2>1 DEF CallHolds
<1>2. ASSUME NEW n \in WriteSizes, Write(n) PROVE CallHolds'
  <2>1. size' = n /\ windex' = 0 /\ apc' \in {"alloc", "copy"}
    BY <1>2 DEF Write, WriteStep
  <2>2. n \in Nat /\ n < IndexSize
    BY SoundReplayAssumption DEF Unwrapped
  <2> QED BY <2>1, <2>2 DEF CallHolds
<1>3. CASE WriteCopy
  <2>1. /\ apc' = WriteStep(windex' < size, write_index') /\ size' = size
        /\ windex' \in Nat /\ windex' <= size /\ size \in Nat
    <3>1. size \in Nat /\ windex \in Nat /\ size' = size
          /\ apc' = WriteStep(windex' < size, write_index')
      BY <1>3, StreamTypes DEF WriteCopy
    <3> QED BY <1>3, <3>1, CopyWords
  <2>2. apc' \notin {"alloc", "copy"} => windex' = size'
    BY <2>1 DEF WriteStep
  <2> QED BY <2>1, <2>2 DEF CallHolds
<1>4. CASE WriteAlloc
  BY <1>4 DEF WriteAlloc, CallHolds
<1>5. CASE \/ StartReplay \/ StartLoad \/ StartStore \/ WriteReturn \/ Activate
           \/ StopFlush \/ StopEvent \/ StopInit \/ StopWait \/ StopClear
           \/ StopDac \/ StopInt \/ StopReturn
  <2>1. UNCHANGED <<size, windex>> /\ apc \notin {"alloc", "copy"}
    BY <1>5 DEF StartReplay, StartLoad, StartStore, WriteReturn, Activate, StopFlush,
       StopEvent, StopInit, StopWait, StopClear, StopDac, StopInt, StopReturn
  <2> QED BY <2>1 DEF CallHolds
<1> QED BY <1>1, <1>2, <1>3, <1>4, <1>5 DEF App, AppStep

\* The application's steps as the listener sees them: words are handed over.
LEMMA AppHands ==
  ASSUME TypeInv, App
  PROVE  /\ UNCHANGED <<heard, plays>>
         /\ written' = written \/ written' > written
         /\ aubuf' = aubuf \/ (StartReplay /\ aubuf' = << >>)
<1>1. CASE Open \/ (\E c \in BOOLEAN : Stop(c))
  <2>1. UNCHANGED <<hwVars, written>>
    BY <1>1, Zenon DEF Open, Stop
  <2> QED BY <2>1 DEF hwVars
<1>2. ASSUME NEW n \in WriteSizes, Write(n) PROVE UNCHANGED hwVars /\ written' > written
  <2>1. UNCHANGED hwVars /\ written' = written + n
    BY <1>2 DEF Write
  <2>2. n \in Nat /\ n > 0 /\ written \in Nat
    BY SoundReplayAssumption, StreamTypes
  <2> QED BY <2>1, <2>2
<1>3. CASE StartReplay
  BY <1>3, Zenon DEF StartReplay
<1>4. CASE \/ WriteAlloc \/ WriteCopy \/ StartLoad \/ StartStore
           \/ WriteReturn \/ Activate \/ StopFlush \/ StopEvent \/ StopInit
           \/ StopWait \/ StopClear \/ StopDac \/ StopInt \/ StopReturn
  BY <1>4 DEF WriteAlloc, WriteCopy, StartLoad, StartStore, WriteReturn, Activate,
     StopFlush, StopEvent, StopInit, StopWait, StopClear, StopDac, StopInt, StopReturn,
     hwVars
<1> QED BY <1>1, <1>2, <1>3, <1>4 DEF App, AppStep, hwVars

\* Before its session and after it the stream is still.
LEMMA AppBefore ==
  ASSUME TypeInv, FifoInv, BeforeStart, MaxSessions <= 1, App
  PROVE  BeforeStart'
<1>0. /\ sessions \in Nat /\ MaxSessions \in Nat /\ activated \in BOOLEAN
      /\ ~Over /\ tpc' = tpc
  BY SoundReplayAssumption, OverForGood, AppApart
  DEF TypeInv, Typed, TypeOK, AppTypeOK, CtlTypeOK, threadVars
<1>1. sessions' # 0
  <2>1. CASE sessions # 0
    <3>1. sessions' = sessions \/ sessions' = sessions + 1
      <4>1. CASE \/ (\E n \in WriteSizes : Write(n)) \/ (\E c \in BOOLEAN : Stop(c))
        BY <4>1, Zenon DEF Write, Stop
      <4>2. CASE Open \/ StartReplay \/ AppStep
        BY <4>2 DEF Open, AppStep, WriteAlloc, WriteCopy, WriteReturn, StartReplay, StartLoad, StartStore,
           Activate, StopFlush, StopEvent, StopInit, StopWait, StopClear, StopDac,
           StopInt, StopReturn
      <4> QED BY <4>1, <4>2 DEF App
    <3> QED BY <1>0, <2>1, <3>1
  <2>2. CASE sessions = 0
    <3>1. apc = "idle" /\ opened = FALSE
      BY <2>2 DEF FifoInv, OneSession, TypeInv, Typed, TypeOK, AppTypeOK
    <3>2. ~(\E n \in WriteSizes : Write(n)) /\ ~(\E c \in BOOLEAN : Stop(c))
      BY <3>1, Zenon DEF Write, Stop
    <3>3. ~StartReplay
      BY <3>1 DEF StartReplay
    <3>4. ~AppStep
      BY <3>1 DEF AppStep, StartReplay, StartLoad, StartStore, WriteAlloc, WriteCopy, WriteReturn, Activate,
         StopFlush, StopEvent, StopInit, StopWait, StopClear, StopDac, StopInt, StopReturn
    <3>5. Open
      BY <3>2, <3>3, <3>4 DEF App
    <3> QED BY <2>2, <3>5 DEF Open
  <2> QED BY <2>1, <2>2
<1>2. ASSUME ~activated', ~Over'
      PROVE  tpc' \in {"poll", "sleep"} /\ aubuf' = << >>
  <2>1. CASE ~activated
    <3>1. tpc \in {"poll", "sleep"} /\ aubuf = << >>
      BY <1>0, <2>1 DEF BeforeStart
    <3> QED BY <1>0, <3>1, AppHands
  <2>2. CASE activated
    <3>1. StopReturn
      <4>1. CASE (\E n \in WriteSizes : Write(n)) \/ (\E c \in BOOLEAN : Stop(c))
        BY <1>2, <2>2, <4>1, Zenon DEF Write, Stop, ctlVars
      <4>2. CASE Open \/ StartReplay \/ AppStep
        BY <1>2, <2>2, <4>2 DEF Open, AppStep, WriteAlloc, WriteCopy, WriteReturn,
           StartReplay, StartLoad, StartStore, Activate, StopFlush, StopEvent, StopInit, StopWait, StopClear,
           StopDac, StopInt, ctlVars
      <4> QED BY <4>1, <4>2 DEF App
    <3>2. apc = "deactivate" /\ apc' = "idle" /\ opened' = ~closing /\ sessions' = sessions
      BY <3>1 DEF StopReturn
    <3>3. closing
      BY <3>2 DEF FifoInv, OneSession, Flushed
    <3>4. opened' = FALSE
      BY <3>2, <3>3
    <3>5. sessions' >= MaxSessions
      BY <1>0, <1>1, <3>2
    <3> QED BY <1>2, <3>2, <3>4, <3>5 DEF Over
  <2> QED BY <2>1, <2>2
<1> QED BY <1>1, <1>2 DEF BeforeStart

\* The application's steps keep the stream in order.
LEMMA AppStream ==
  ASSUME TypeInv, TypeInv', FifoInv, OneOwner, WriterInv, StreamInv,
         MaxSessions <= 1, Unwrapped, App
  PROVE  StreamInv'
<1> PICK a \in Nat, f \in Nat : AubufHolds(a) /\ FrameHolds(a, f) /\ QueueHolds(f)
  BY DEF StreamInv, Stages
<1>1. QueueHolds(f)' /\ WriterHolds'
  BY AppQueue DEF StreamInv
<1>2. FrameHolds(a, f)'
  BY AppApart DEF FrameHolds, threadVars
<1>3. heard' = heard /\ aubuf' = aubuf
  <2>1. ASSUME StartReplay PROVE aubuf = << >>
    <3>1. ~activated /\ (apc = "check" \/ opened)
      BY <2>1 DEF StartReplay
    <3> QED BY <3>1 DEF StreamInv, BeforeStart, Over
  <2> QED BY <2>1, AppHands
<1>4. AubufHolds(a)'
  BY <1>3 DEF AubufHolds
<1> QED BY <1>1, <1>2, <1>4, AppBefore, AppCall DEF StreamInv, Stages

\* The audio thread's steps leave what is written alone.
LEMMA ThreadReads ==
  ASSUME TypeInv, Thread
  PROVE  /\ UNCHANGED <<mem, written, write_index, write_data, heard, plays>>
         /\ (WriterHolds => WriterHolds') /\ (CallHolds => CallHolds')
         /\ UNCHANGED Pushed /\ UNCHANGED Over
<1>1. UNCHANGED <<appVars, mem, writeVars, heard, plays>>
  BY DEF Thread, Poll, Mdelay, FramePeek, FrameTestStop, FrameAck, FrameZero,
     FrameMemset, FrameCopy, FrameUnderrun, XmitWord, XmitFull, XmitPend, XmitPut,
     poolVars, hwVars
<1> QED BY <1>1 DEF appVars, writeVars, WriterHolds, CallHolds, Pushed, Copied, Over

\* Before its session and after it the audio thread polls.
LEMMA ThreadBefore ==
  ASSUME TypeInv, FifoInv, BeforeStart, MaxSessions <= 1, Thread PROVE BeforeStart'
<1>1. UNCHANGED <<appVars, activated>> /\ Over' = Over
  BY ThreadApart, ThreadReads
<1>2. ASSUME tpc \in {"poll", "sleep"}, ~activated
      PROVE  tpc' \in {"poll", "sleep"} /\ UNCHANGED <<queue, aubuf>>
  BY <1>2 DEF Thread, Poll, Mdelay, FramePeek, FrameTestStop, FrameAck, FrameZero,
     FrameMemset, FrameCopy, FrameUnderrun, XmitWord, XmitFull, XmitPend, XmitPut,
     poolVars, hwVars
<1>3. sessions = 0 => tpc \in {"poll", "sleep"} /\ ~activated
  BY DEF FifoInv, OneSession, BeforeStart
<1> QED BY <1>1, <1>2, <1>3 DEF BeforeStart, appVars

\* A turn of the copy loop takes the next words of the queue to the frame.
LEMMA CopyStream ==
  ASSUME TypeInv, FifoInv, FramesFill, FrameCopy,
         NEW a \in Nat, NEW f \in Nat, FrameHolds(a, f), QueueHolds(f)
  PROVE  \E g \in Nat : FrameHolds(a, g)' /\ QueueHolds(g)'
<1> DEFINE head == Head(queue)
           len == head.size
           r    == Lesser(FrameSize - index, len - read_index)
           got  == [i \in 0 .. r - 1 |-> mem[head.blk][read_index + i]]
<1>1. /\ queue \in Seq(Item) /\ Len(queue) \in Nat /\ Len(queue) > 0
      /\ len \in 1 .. BlockSize /\ read_index \in Nat /\ read_index < len
      /\ index = 0 /\ pos = position
      /\ (r = FrameSize \/ (r < FrameSize /\ r = len - read_index /\ r \in Nat))
  BY CopyTurn
<1>2. /\ FrameSize \in Nat /\ FrameSize > 0 /\ position \in {0, FrameSize}
      /\ TotalSize = 2 * FrameSize /\ BlockSize \in Nat
      /\ mem \in Memory /\ Pushed \in Int
  BY Sizes, StreamTypes DEF FifoInv, FrameInv, Aligned
<1>3. /\ tpc = "copy" /\ queue # << >> /\ head = queue[1] /\ 1 \in 1 .. Len(queue)
  BY <1>1 DEF FrameCopy
<1>4. /\ tx_fifo' = Filled(pos, r, got) /\ index' = index + r /\ count' = 0
      /\ IF read_index + r = len
         THEN read_index' = 0 /\ queue' = Tail(queue)
         ELSE read_index' = read_index + r /\ queue' = queue
      /\ tpc' = IF index' = FrameSize THEN "xmit" ELSE "copy"
      /\ UNCHANGED <<position, mem, Copied, write_index>>
  BY DEF FrameCopy, appVars, writeVars, Copied
<1>5. r \in Nat /\ r > 0 /\ r <= FrameSize /\ r <= len - read_index
  BY <1>1, <1>2 DEF Lesser
<1>6. f = a
  BY <1>1, <1>3 DEF FrameHolds
<1>7. \A i \in 0 .. r - 1 : got[i] = f + 1 + i
  <2> SUFFICES ASSUME NEW i \in 0 .. r - 1
               PROVE  mem[head.blk][read_index + i] = f + 1 + i
    OBVIOUS
  <2>1. mem[head.blk][0] + read_index = f + 1
    BY <1>3 DEF QueueHolds, Chain
  <2>2. read_index + i \in 0 .. len - 1
    BY <1>1, <1>5
  <2>3. mem[head.blk][read_index + i] = mem[head.blk][0] + (read_index + i)
    BY <1>3, <2>2 DEF QueueHolds, Chain
  <2>4. mem[head.blk][0] \in Nat
    BY <1>1, <1>2, <1>3, ItemParts
  <2>5. i \in Nat /\ read_index \in Nat
    BY <1>1, <1>5
  <2>6. mem[head.blk][0] + (read_index + i) = f + 1 + i
    BY <2>1, <2>4, <2>5
  <2> QED BY <2>3, <2>6
<1> HIDE DEF r, got, len, head
<1>8. index' = r
  BY <1>1, <1>4, <1>5
<1>9. ASSUME NEW i \in 0 .. FrameSize - 1
      PROVE  tx_fifo'[position + i] = IF i < r THEN a + 1 + i ELSE 0
  <2>1. position + i \in 0 .. TotalSize - 1
    BY <1>2
  <2>2. CASE i < r
    <3>1. i \in 0 .. r - 1 /\ (position + i) - position = i
          /\ position <= position + i /\ position + i < position + r
      BY <1>2, <1>5, <2>2
    <3>2. tx_fifo'[position + i] = got[i]
      BY <1>1, <1>4, <2>1, <3>1 DEF Filled
    <3> QED BY <2>2, <3>1, <3>2, <1>6, <1>7
  <2>3. CASE ~(i < r)
    <3>1. ~(position + i < position + r)
      BY <1>2, <1>5, <2>3
    <3>2. tx_fifo'[position + i] = tx_fifo[position + i]
      BY <1>1, <1>4, <2>1, <3>1 DEF Filled
    <3>3. tx_fifo[position + i] = 0
      BY <1>3, <1>6 DEF FrameHolds
    <3> QED BY <2>3, <3>2, <3>3
  <2> QED BY <2>2, <2>3
<1>10. PICK g \in Nat : g = f + r
  BY <1>5
<1>11. FrameHolds(a, g)'
  <2>1. g - a = r /\ a <= g /\ g = a + r
    BY <1>5, <1>6, <1>10
  <2>2. CASE tpc' = "copy"
    BY <1>4, <1>8, <1>9, <2>1, <2>2 DEF FrameHolds
  <2>3. CASE tpc' = "xmit"
    <3>1. \A i \in 0 .. FrameSize - 1 : i - 0 = i
      BY <1>2
    <3>2. r <= FrameSize - 0 /\ count' = 0 /\ position' = position
      BY <1>2, <1>4, <1>5
    <3> QED BY <1>9, <2>1, <2>3, <3>1, <3>2 DEF FrameHolds
  <2> QED BY <1>4, <2>2, <2>3
<1>12. QueueHolds(g)'
  <2>1. Chain(queue, mem, read_index + r, Pushed, g)
    BY <1>1, <1>2, <1>3, <1>5, <1>10, ChainRead DEF QueueHolds
  <2>2. Pushed' = Pushed /\ mem' = mem
    BY <1>4 DEF Pushed
  <2>3. CASE read_index + r = len
    <3>1. Chain(Tail(queue), mem, 0, Pushed, g)
      BY <1>1, <1>2, <1>3, <2>1, <2>3, ChainPop DEF len
    <3> QED BY <1>4, <2>2, <2>3, <3>1 DEF QueueHolds
  <2>4. CASE read_index + r # len
    BY <1>4, <2>1, <2>2, <2>4 DEF QueueHolds
  <2> QED BY <2>3, <2>4
<1> QED BY <1>11, <1>12

\* A word of the frame in hand goes to AUBUF.
LEMMA PutStream ==
  ASSUME TypeInv, FifoInv, tpc \in {"xmit", "put"}, Len(aubuf) < AubufSize, PutWord,
         UNCHANGED <<position, tx_fifo, heard>>,
         NEW a \in Nat, NEW f \in Nat, AubufHolds(a), FrameHolds(a, f)
  PROVE  \E b \in Nat : AubufHolds(b)' /\ FrameHolds(b, f)'
<1>1. /\ FrameSize \in Nat /\ TotalSize = 2 * FrameSize /\ position \in {0, FrameSize}
      /\ count \in Nat /\ count < FrameSize
  BY Sizes DEF FifoInv, FrameInv, Aligned, TypeInv, Typed, TypeOK, ThreadTypeOK, LoopsOpen
<1>2. PICK w : w = tx_fifo[position + count]
  OBVIOUS
<1>3. position + count < TotalSize /\ count \in count .. FrameSize - 1
  BY <1>1
<1>4. /\ a <= f /\ f - a <= FrameSize - count
      /\ \A i \in count .. FrameSize - 1 :
            tx_fifo[position + i] = IF i - count < f - a THEN a + 1 + (i - count) ELSE 0
  BY DEF FrameHolds
<1>5. w = IF 0 < f - a THEN a + 1 ELSE 0
  <2>1. w = IF count - count < f - a THEN a + 1 + (count - count) ELSE 0
    BY <1>2, <1>3, <1>4
  <2> QED BY <2>1, <1>1
<1>6. aubuf' = Append(aubuf, w) /\ count' = count + 1
      /\ tpc' = IF count' = FrameSize THEN "poll" ELSE "xmit"
  BY <1>2, <1>3 DEF PutWord, Word
<1>7. PICK b \in Nat : b = IF a < f THEN a + 1 ELSE a
  OBVIOUS
<1>8. AubufHolds(b)'
  <2>1. w \in Nat /\ ((w = 0 /\ b = a) \/ (w = a + 1 /\ b = a + 1))
    BY <1>4, <1>5, <1>7
  <2>2. aubuf \in Seq(Nat)
    BY StreamTypes
  <2> QED BY <1>6, <2>1, <2>2, AubufPut
<1>9. FrameHolds(b, f)'
  <2>1. b <= f /\ f - b <= FrameSize - count'
    BY <1>1, <1>4, <1>6, <1>7
  <2>2. ASSUME NEW i \in count' .. FrameSize - 1
        PROVE  tx_fifo'[position' + i] = IF i - count' < f - b THEN b + 1 + (i - count') ELSE 0
    <3>1. i \in count .. FrameSize - 1 /\ i \in Int /\ i >= count + 1
      BY <1>1, <1>6
    <3>2. tx_fifo'[position' + i] = IF i - count < f - a THEN a + 1 + (i - count) ELSE 0
      BY <1>4, <3>1
    <3>3. CASE a < f
      <4>1. /\ (i - count < f - a) <=> (i - count' < f - b)
            /\ a + 1 + (i - count) = b + 1 + (i - count')
        BY <1>1, <1>6, <1>7, <3>1, <3>3
      <4> QED BY <3>2, <4>1
    <3>4. CASE ~(a < f)
      <4>1. ~(i - count < f - a) /\ ~(i - count' < f - b)
        BY <1>1, <1>4, <1>6, <1>7, <3>1, <3>4
      <4> QED BY <3>2, <4>1
    <3> QED BY <3>3, <3>4
  <2>3. CASE tpc' = "poll"
    <3>1. f = b
      BY <1>1, <1>6, <2>1, <2>3
    <3> QED BY <2>1, <2>3, <3>1 DEF FrameHolds
  <2>4. CASE tpc' = "xmit"
    BY <2>1, <2>2, <2>4 DEF FrameHolds
  <2> QED BY <1>6, <2>3, <2>4
<1> QED BY <1>8, <1>9

\* Every step of the audio thread keeps the stream in order.
LEMMA ThreadStream ==
  ASSUME TypeInv, TypeInv', FifoInv, NoAubufOverflow, StreamInv, FramesFill,
         MaxSessions <= 1, Thread
  PROVE  StreamInv'
<1> PICK a \in Nat, f \in Nat : AubufHolds(a) /\ FrameHolds(a, f) /\ QueueHolds(f)
  BY DEF StreamInv, Stages
<1>1. BeforeStart' /\ CallHolds' /\ WriterHolds' /\ UNCHANGED <<Pushed, mem, heard>>
  BY ThreadBefore, ThreadReads DEF StreamInv
<1>2. SUFFICES Stages'
  BY <1>1 DEF StreamInv
<1>3. ASSUME UNCHANGED <<queue, read_index>> PROVE QueueHolds(f)'
  BY <1>1, <1>3 DEF QueueHolds
<1>4. ASSUME aubuf' = aubuf PROVE AubufHolds(a)'
  BY <1>1, <1>4 DEF AubufHolds
<1>5. CASE Poll \/ Mdelay \/ FramePeek \/ FrameTestStop \/ FrameAck
  <2>1. /\ tpc \notin {"copy", "xmit", "pend", "put"}
        /\ tpc' \notin {"copy", "xmit", "pend", "put"}
        /\ UNCHANGED <<queue, read_index, aubuf>>
    BY <1>5 DEF Poll, Mdelay, FramePeek, FrameTestStop, FrameAck, poolVars, readVars, hwVars
  <2>2. FrameHolds(a, f)'
    BY <2>1 DEF FrameHolds
  <2> QED BY <1>3, <1>4, <2>1, <2>2 DEF Stages
<1>6. CASE FrameZero \/ FrameMemset
  <2>1. /\ tpc \in {"zero", "memset"} /\ tpc' \in {"xmit", "copy"}
        /\ tpc' = "xmit" => count' = 0
        /\ tpc' = "copy" => tpc = "memset" /\ index' = index
        /\ tx_fifo' = Filled(pos, FrameSize, Silence)
        /\ UNCHANGED <<position, queue, read_index, aubuf>>
    BY <1>6 DEF FrameZero, FrameMemset, poolVars, readVars, hwVars
  <2>2. f = a /\ f - a = 0 /\ FrameSize \in Nat
    BY <2>1, Sizes DEF FrameHolds
  <2>3. \A i \in 0 .. FrameSize - 1 : tx_fifo'[position + i] = 0 /\ ~(i < f - a)
        /\ ~(i - 0 < f - a)
    BY <2>1, <2>2, FilledSilence
  <2>4. tpc' = "copy" => f = a + index'
    BY <2>1, <2>2 DEF FifoInv, FrameInv
  <2>5. FrameHolds(a, f)'
    BY <2>1, <2>2, <2>3, <2>4 DEF FrameHolds
  <2> QED BY <1>3, <1>4, <2>1, <2>5 DEF Stages
<1>7. CASE FrameCopy
  <2>1. PICK g \in Nat : FrameHolds(a, g)' /\ QueueHolds(g)'
    BY <1>7, CopyStream
  <2>2. aubuf' = aubuf
    BY <1>7 DEF FrameCopy, hwVars
  <2> QED BY <1>4, <2>1, <2>2 DEF Stages
<1>8. CASE FrameUnderrun
  <2>1. /\ tpc = "copy" /\ tpc' = "xmit" /\ count' = 0 /\ queue = << >>
        /\ UNCHANGED <<queue, aubuf, position, index, tx_fifo>>
    BY <1>8 DEF FrameUnderrun, poolVars, hwVars
  <2>2. f = a + index /\ index \in Nat /\ index <= FrameSize /\ FrameSize \in Nat
    BY <2>1, Sizes DEF FrameHolds, TypeInv, Typed, TypeOK, ThreadTypeOK
  <2>3. /\ a <= f /\ f - a <= FrameSize - 0
        /\ \A i \in 0 .. FrameSize - 1 :
              /\ tx_fifo[position + i] = IF i < f - a THEN a + 1 + i ELSE 0
              /\ i - 0 = i
    BY <2>1, <2>2 DEF FrameHolds
  <2>4. FrameHolds(a, f)'
    BY <2>1, <2>3 DEF FrameHolds
  <2>5. QueueHolds(f)'
    <3>1. Len(queue) = 0 /\ 1 .. 0 = {} /\ 1 .. 0 - 1 = {}
      BY <2>1
    <3> QED BY <1>1, <2>1, <3>1 DEF QueueHolds, Chain
  <2> QED BY <1>4, <2>1, <2>4, <2>5 DEF Stages
<1>9. CASE XmitWord \/ XmitPut
  <2>1. /\ tpc \in {"xmit", "put"} /\ PutWord /\ Len(aubuf) < AubufSize
        /\ UNCHANGED <<queue, read_index, position, tx_fifo, heard>>
    BY <1>9 DEF XmitWord, XmitPut, NoAubufOverflow, FifoInv, OneSession, poolVars, readVars
  <2>2. PICK b \in Nat : AubufHolds(b)' /\ FrameHolds(b, f)'
    BY <2>1, PutStream
  <2> QED BY <1>3, <2>1, <2>2 DEF Stages
<1>10. CASE XmitFull \/ XmitPend
  <2>1. /\ tpc \in {"xmit", "pend"} /\ tpc' \in {"pend", "put"}
        /\ UNCHANGED <<queue, read_index, aubuf, position, count, tx_fifo>>
    BY <1>10 DEF XmitFull, XmitPend, poolVars, readVars
  <2>2. FrameHolds(a, f)'
    BY <2>1 DEF FrameHolds
  <2> QED BY <1>3, <1>4, <2>1, <2>2 DEF Stages
<1> QED BY <1>5, <1>6, <1>7, <1>8, <1>9, <1>10 DEF Thread

\* What is read of the queue has been queued.
LEMMA QueueBound ==
  ASSUME TypeInv, NEW f \in Nat, QueueHolds(f) PROVE f <= Pushed
<1>1. queue \in Seq(Item) /\ mem \in Memory /\ Pushed \in Int /\ read_index \in Nat
  BY StreamTypes
<1>2. CASE queue = << >>
  BY <1>1, <1>2 DEF QueueHolds, Chain
<1>3. CASE queue # << >>
  <2>1. 1 \in 1 .. Len(queue) /\ queue[1] = Head(queue)
    BY <1>1, <1>3
  <2>2. mem[queue[1].blk][0] \in Nat /\ queue[1].size \in Nat /\ queue[1].size > 0
    BY <1>1, <2>1, ItemParts, Sizes
  <2>3. read_index < queue[1].size
    BY <1>3, <2>1, <2>2 DEF TypeInv, Typed, ReadInHead
  <2>4. /\ mem[queue[1].blk][0] + read_index = f + 1
        /\ mem[queue[1].blk][0] + queue[1].size <= Pushed + 1
    BY <1>3, <2>1 DEF QueueHolds, Chain
  <2> QED BY <1>1, <2>2, <2>3, <2>4
<1> QED BY <1>2, <1>3

\* The DAC plays the next word or silence; the interrupt touches no word.
LEMMA HwStream ==
  ASSUME TypeInv, StreamInv,
         \/ AudioIsr \/ DacPlay \/ AubufPend \/ UNCHANGED vars
         \/ (\E b \in DmaValues : ConfigureDma(b))
  PROVE  /\ StreamInv' /\ written' = written
         /\ \/ UNCHANGED <<heard, plays>>
            \/ heard' = heard + 1 /\ plays' = plays + 1 /\ heard < written
<1> PICK a \in Nat, f \in Nat : AubufHolds(a) /\ FrameHolds(a, f) /\ QueueHolds(f)
  BY DEF StreamInv, Stages
<1>1. UNCHANGED <<appVars, activated, poolVars, writeVars, readVars, threadVars>>
  BY Zenon DEF AudioIsr, DacPlay, AubufPend, ConfigureDma, ctlVars, vars
<1>2. FrameHolds(a, f)' /\ QueueHolds(f)' /\ WriterHolds' /\ CallHolds'
  BY <1>1 DEF FrameHolds, QueueHolds, Pushed, Copied, WriterHolds, CallHolds, appVars, poolVars,
     writeVars, readVars, threadVars, StreamInv
<1>3. /\ AubufHolds(a)' /\ (aubuf = << >> => aubuf' = << >>)
      /\ \/ UNCHANGED <<heard, plays>>
         \/ heard' = heard + 1 /\ plays' = plays + 1 /\ heard < a
  <2>1. CASE DacPlay
    <3>1. /\ aubuf # << >> /\ aubuf' = Tail(aubuf)
          /\ heard' = IF Head(aubuf) = 0 THEN heard ELSE Head(aubuf)
          /\ Head(aubuf) = 0 => UNCHANGED <<heard, plays>>
          /\ Head(aubuf) # 0 => plays' = plays + 1
      BY <2>1 DEF DacPlay
    <3>2. AubufHolds(a)' /\ (Head(aubuf) # 0 => heard' = heard + 1 /\ heard < a)
      BY <3>1, StreamTypes, AubufTake
    <3> QED BY <3>1, <3>2
  <2>2. CASE \/ AudioIsr \/ AubufPend \/ UNCHANGED vars
             \/ (\E b \in DmaValues : ConfigureDma(b))
    <3>1. UNCHANGED <<aubuf, heard, plays>>
      BY <2>2, Zenon DEF AudioIsr, AubufPend, ConfigureDma, vars, hwVars
    <3> QED BY <3>1 DEF AubufHolds
  <2> QED BY <2>1, <2>2
<1>4. BeforeStart'
  BY <1>1, <1>3 DEF StreamInv, BeforeStart, Over, appVars, poolVars, threadVars
<1>5. a <= f /\ f <= Pushed /\ Pushed <= Copied /\ Copied <= written
  BY QueueBound, StreamTypes DEF FrameHolds, StreamInv, WriterHolds, CallHolds, Pushed, Copied
<1>6. heard < a => heard < written
  BY <1>5, StreamTypes
<1> QED BY <1>1, <1>2, <1>3, <1>4, <1>6 DEF StreamInv, Stages, appVars

\* At the start nothing is on its way.
LEMMA InitStream == Init => StreamInv
<1> SUFFICES ASSUME Init PROVE StreamInv
  OBVIOUS
<1>1. BeforeStart /\ CallHolds
  BY SoundReplayAssumption DEF Init, BeforeStart, CallHolds
<1>2. 0 .. write_index - 1 = {} /\ write_index <= Copied /\ Pushed = 0
  BY DEF Init, Pushed, Copied
<1>3. AubufHolds(0)
  <2> DEFINE none == [i \in 0 .. 0 |-> 0]
  <2>1. none \in [0 .. Len(aubuf) -> 0 .. 0] /\ none[0] = heard /\ none[Len(aubuf)] = 0
        /\ 1 .. Len(aubuf) = {}
    BY DEF Init
  <2> HIDE DEF none
  <2> QED BY <2>1, Zenon DEF AubufHolds
<1>4. FrameHolds(0, 0)
  BY DEF Init, FrameHolds
<1>5. QueueHolds(0)
  <2>1. Len(queue) = 0 /\ 1 .. 0 = {} /\ 1 .. 0 - 1 = {} /\ queue = << >>
    BY DEF Init
  <2> QED BY <1>2, <2>1 DEF QueueHolds, Chain
<1> QED BY <1>1, <1>2, <1>3, <1>4, <1>5 DEF StreamInv, Stages, WriterHolds

\* Every step keeps the stream in order, and is a step of ReplayStream.
LEMMA NextStream ==
  ASSUME TypeInv, TypeInv', FifoInv, OneOwner, WriterInv, NoAubufOverflow, StreamInv,
         FramesFill, MaxSessions <= 1, Unwrapped, [Next]_vars
  PROVE  StreamInv' /\ [Stream!Accept \/ Stream!Play]_<<written, heard, plays>>
<1>1. CASE App
  <2>1. UNCHANGED <<heard, plays>> /\ (written' = written \/ written' > written)
    BY <1>1, AppHands
  <2> QED BY <1>1, <2>1, AppStream DEF Stream!Accept
<1>2. CASE Thread
  <2>1. UNCHANGED <<written, heard, plays>>
    BY <1>2, ThreadReads
  <2> QED BY <1>2, <2>1, ThreadStream
<1>3. CASE \/ AudioIsr \/ DacPlay \/ AubufPend \/ UNCHANGED vars
           \/ (\E b \in DmaValues : ConfigureDma(b))
  BY <1>3, HwStream DEF Stream!Play
<1> QED BY <1>1, <1>2, <1>3 DEF Next

\* In one session every word the application writes is played once, in order,
\* with nothing but silence in between, as long as each write fits the index
\* _audio_dev_write counts it with: SoundReplay implements ReplayStream.
THEOREM StreamInOrder ==
  ASSUME FramesFill, MaxSessions <= 1, Unwrapped PROVE Spec => RefinesReplayStream
<1>1. Quiet
  BY DEF Quiet
<1>2. Init => Stream!StreamInit
  BY DEF Init, Stream!StreamInit
<1> QED
  BY <1>1, <1>2, InitType, NextType, InitFifo, NextFifo, InitOwner, NextOwner,
     InitStream, NextStream, AubufNeverOverflows, PTL
  DEF Spec, RefinesReplayStream, Stream!StreamSpec
=============================================================================
