---------------------------- MODULE UartRxProofs ----------------------------
(***************************************************************************)
(* Proofs about UartRx, for every buffer size, character set and semaphore *)
(* limit: the safety invariants of the receive path and the refinement of  *)
(* CharFifo.                                                               *)
(***************************************************************************)
EXTENDS UartRx, TLAPS

\* Facts about the threads that the invariants lean on: the reader has set
\* rx_indicate before it first reads, the ISR's local ch holds a received
\* character once getc returned one, and a thread inside the read loop has
\* its ring buffer.
Context ==
    /\ shell \in {"read", "wait"} => indicate
    /\ isr \in {"clear", "put"} => ch \in Char
    /\ rx = "valid" <=> shell \in {"opened", "read", "wait"}

IInv == TypeOK /\ Context /\ FullMeansFull /\ ReaderNotStranded

\* The state rt_hw_usart_init leaves satisfies IInv.
LEMMA InitIInv == Init => IInv
<1> SUFFICES ASSUME Init PROVE IInv
  OBVIOUS
<1>1. put_index \in Index /\ get_index \in Index /\ sem \in 0 .. SemMax
  BY UartRxAssumption DEF Init, Index
<1>2. TypeOK
  BY <1>1 DEF Init, TypeOK
<1>3. Context /\ FullMeansFull /\ ReaderNotStranded
  BY DEF Init, Context, FullMeansFull, ReaderNotStranded
<1> QED BY <1>2, <1>3 DEF IInv

\* put_index and get_index stay inside the ring when they advance.
LEMMA AdvanceType == \A i \in Index : Advance(i) \in Index
  BY UartRxAssumption DEF Advance, Index

\* The step that changes the ring buffer's indices, alone: after a put the
\* buffer is full, or one character longer than before.
LEMMA PutLength ==
  ASSUME TypeOK, IsrPut
  PROVE  /\ put_index' = get_index'  => FALSE
         /\ IF RxLength = BufSz - 1 THEN RxLength' = BufSz - 1
                                    ELSE RxLength' = RxLength + 1
         /\ put_index' = get_index <=> RxLength = BufSz - 1
  BY UartRxAssumption DEF TypeOK, IsrPut, RxLength, Advance, Index

\* A read that does not end in a wait takes exactly one byte out of the ring.
LEMMA ReadLength ==
  ASSUME TypeOK, FullMeansFull, Read, shell' # "wait"
  PROVE  RxLength # 0 /\ RxLength' = RxLength - 1
  BY UartRxAssumption DEF TypeOK, FullMeansFull, Read, RxLength, Advance, Index

\* IInv is inductive.
LEMMA NextIInv == IInv /\ [Next]_vars => IInv'
<1> SUFFICES ASSUME IInv, [Next]_vars PROVE IInv'
  OBVIOUS
<1> USE UartRxAssumption
<1>1. ASSUME NEW c \in Char, Arrive(c) PROVE IInv'
  BY <1>1 DEF Arrive, IInv, TypeOK, Context, FullMeansFull, ReaderNotStranded,
              RxLength, fifoVars
<1>2. CASE IsrEnter
  BY <1>2 DEF IsrEnter, IInv, TypeOK, Context, FullMeansFull, ReaderNotStranded,
              RxLength, fifoVars, hwVars
<1>3. CASE IsrGetc
  BY <1>3 DEF IsrGetc, IInv, TypeOK, Context, FullMeansFull, ReaderNotStranded,
              RxLength, fifoVars, hwVars
<1>4. CASE IsrClear
  BY <1>4 DEF IsrClear, IInv, TypeOK, Context, FullMeansFull, ReaderNotStranded,
              RxLength, fifoVars
<1>5. CASE IsrPut
  <2>1. TypeOK'
    BY <1>5, AdvanceType DEF IsrPut, IInv, TypeOK, hwVars, Context
  <2>2. FullMeansFull'
    BY <1>5, PutLength DEF IsrPut, IInv, FullMeansFull
  <2>3. Context' /\ ReaderNotStranded'
    BY <1>5 DEF IsrPut, IInv, Context, ReaderNotStranded
  <2> QED BY <2>1, <2>2, <2>3 DEF IInv
<1>6. CASE IsrNotify
  <2>1. TypeOK' /\ Context' /\ FullMeansFull'
    BY <1>6 DEF IsrNotify, IInv, TypeOK, Context, FullMeansFull,
                RxLength, fifoVars, hwVars
  <2>2. ReaderNotStranded'
    BY <1>6 DEF IsrNotify, IInv, TypeOK, Context, ReaderNotStranded,
                RxLength, fifoVars, hwVars
  <2> QED BY <2>1, <2>2 DEF IInv
<1>7. CASE Open
  <2>1. put_index' \in Index /\ get_index' \in Index
    BY <1>7 DEF Open, Index
  <2>2. TypeOK'
    BY <1>7, <2>1 DEF Open, IInv, TypeOK
  <2>3. Context' /\ FullMeansFull' /\ ReaderNotStranded'
    BY <1>7 DEF Open, IInv, Context, FullMeansFull, ReaderNotStranded
  <2> QED BY <2>2, <2>3 DEF IInv
<1>8. CASE SetIndicate
  BY <1>8 DEF SetIndicate, IInv, TypeOK, Context, FullMeansFull, ReaderNotStranded,
              RxLength, fifoVars, hwVars
<1>9. CASE Read
  <2>1. CASE shell' = "wait"
    <3>1. TypeOK' /\ Context' /\ FullMeansFull'
      BY <1>9, <2>1 DEF Read, IInv, TypeOK, Context, FullMeansFull,
                        RxLength, fifoVars, hwVars
    <3>2. RxLength' = 0
      BY <1>9, <2>1 DEF Read, IInv, TypeOK, RxLength, fifoVars, Index
    <3>3. ReaderNotStranded'
      BY <3>2 DEF ReaderNotStranded
    <3> QED BY <3>1, <3>3 DEF IInv
  <2>2. CASE shell' # "wait"
    <3>1. TypeOK' /\ Context'
      BY <1>9, <2>2, AdvanceType DEF Read, IInv, TypeOK, Context, hwVars, fifoVars
    <3>2. FullMeansFull' /\ ReaderNotStranded'
      BY <1>9, <2>2 DEF Read, IInv, FullMeansFull, ReaderNotStranded, TypeOK
    <3> QED BY <3>1, <3>2 DEF IInv
  <2> QED BY <2>1, <2>2
<1>10. CASE TakeSem
  BY <1>10 DEF TakeSem, IInv, TypeOK, Context, FullMeansFull, ReaderNotStranded,
               RxLength, fifoVars, hwVars
<1>11. CASE CloseFree \/ CloseNull
  BY <1>11 DEF CloseFree, CloseNull, IInv, TypeOK, Context, FullMeansFull,
               ReaderNotStranded, RxLength, fifoVars, hwVars
<1>12. CASE CloseClrInt
  BY <1>12 DEF CloseClrInt, IInv, TypeOK, Context, FullMeansFull,
               ReaderNotStranded, RxLength, fifoVars, hwVars
<1>13. CASE ClearIndicate
  BY <1>13 DEF ClearIndicate, IInv, TypeOK, Context, FullMeansFull,
               ReaderNotStranded, RxLength, fifoVars, hwVars
<1>14. CASE UNCHANGED vars
  BY <1>14 DEF vars, IInv, TypeOK, Context, FullMeansFull, ReaderNotStranded,
               RxLength, fifoVars, hwVars
<1> QED
  BY <1>1, <1>2, <1>3, <1>4, <1>5, <1>6, <1>7, <1>8, <1>9, <1>10, <1>11, <1>12,
     <1>13, <1>14 DEF Next, Isr, Shell

\* The indices stay inside the buffer, is_full tells the truth and no
\* wake-up of the shell is lost, whatever the line and the reader do.
THEOREM ReceivePathSafe == Spec => [](TypeOK /\ FullMeansFull /\ ReaderNotStranded)
<1>1. IInv => TypeOK /\ FullMeansFull /\ ReaderNotStranded
  BY DEF IInv
<1> QED BY <1>1, InitIInv, NextIInv, PTL DEF Spec

-----------------------------------------------------------------------------
(* The refinement of CharFifo.                                             *)

\* uart_irq_process's rx_length is a length.
LEMMA RxLengthType ==
  ASSUME TypeOK PROVE RxLength \in 0 .. BufSz - 1
  BY UartRxAssumption DEF TypeOK, RxLength, Index

\* Contents is a sequence, and what its length and its elements are.
ContentsOK ==
    /\ Contents \in Seq(Char \cup {NoChar})
    /\ Len(Contents) = RxLength
    /\ \A i \in 1 .. RxLength : Contents[i] = buffer[Slot(i)]

\* What the ring holds, read from get_index on, is a sequence of bytes.
LEMMA ContentsSeq == TypeOK /\ rx = "valid" => ContentsOK
<1> SUFFICES ASSUME TypeOK, rx = "valid" PROVE ContentsOK
  OBVIOUS
<1>1. RxLength \in Nat
  BY RxLengthType, UartRxAssumption
<1>2. \A i \in 1 .. RxLength : Slot(i) \in Index
  BY RxLengthType, UartRxAssumption DEF TypeOK, Slot, Index, RxLength
<1>3. \A i \in 1 .. RxLength : buffer[Slot(i)] \in Char \cup {NoChar}
  BY <1>2 DEF TypeOK
<1> QED
  BY <1>1, <1>3 DEF Contents, ContentsOK

\* Two sequences that agree in length and in every element are equal.
LEMMA SeqEqual ==
  ASSUME NEW S, NEW s \in Seq(S), NEW t \in Seq(S), Len(s) = Len(t),
         \A i \in 1 .. Len(s) : s[i] = t[i]
  PROVE  s = t
  OBVIOUS

\* A put appends to the queue, after dropping the head of a full one.
LEMMA PutRefines ==
  ASSUME IInv, TypeOK', IsrPut, rx = "valid"
  PROVE  Fifo!FifoPut(ch)
<1> DEFINE C == Char \cup {NoChar}
           base == IF Len(Contents) = BufSz - 1 THEN Tail(Contents) ELSE Contents
<1>0. rx' = "valid" /\ ch \in C /\ UNCHANGED last
  BY DEF IsrPut, IInv, TypeOK
<1>1. /\ Contents \in Seq(C) /\ Len(Contents) = RxLength
      /\ \A i \in 1 .. RxLength : Contents[i] = buffer[Slot(i)]
  BY ContentsSeq DEF IInv, ContentsOK
<1>2. /\ Contents' \in Seq(C) /\ Len(Contents') = RxLength'
      /\ \A i \in 1 .. RxLength' : Contents'[i] = buffer'[Slot(i)']
  <2>1. TypeOK' /\ (rx = "valid")'
    BY <1>0
  <2>2. ContentsOK'
    BY <2>1, ContentsSeq, PTL
  <2> QED BY <2>2 DEF ContentsOK
<1>3. RxLength \in 0 .. BufSz - 1
  BY RxLengthType DEF IInv
<1>a. /\ put_index \in Index /\ get_index \in Index
      /\ put_index' = Advance(put_index)
      /\ get_index' = IF RxLength = BufSz - 1 THEN Advance(get_index) ELSE get_index
  BY PutLength DEF IInv, TypeOK, IsrPut
<1>4. CASE RxLength = BufSz - 1
  <2>1. RxLength' = BufSz - 1
    BY <1>4, PutLength DEF IInv
  <2>2. base = Tail(Contents) /\ base \in Seq(C) /\ Len(base) = RxLength - 1
        /\ \A i \in 1 .. RxLength - 1 : base[i] = buffer[Slot(i + 1)]
    BY <1>1, <1>3, <1>4, UartRxAssumption
  <2>3. Append(base, ch) \in Seq(C) /\ Len(Append(base, ch)) = RxLength
    BY <2>2, <1>0, <1>3
  <2>4. \A i \in 1 .. RxLength : Append(base, ch)[i] = Contents'[i]
    <3> TAKE i \in 1 .. RxLength
    <3>1. Contents'[i] = buffer'[Slot(i)']
      BY <1>2, <2>1, <1>4
    <3>2. CASE i = RxLength
      <4>1. Slot(i)' = put_index
        BY <1>4, <3>2, UartRxAssumption, <1>a
        DEF Slot, RxLength, Advance, Index
      <4>2. buffer'[put_index] = ch
        BY DEF IInv, TypeOK, IsrPut
      <4> QED BY <3>1, <3>2, <4>1, <4>2, <2>2, <1>0
    <3>3. CASE i # RxLength
      <4>1. Slot(i)' = Slot(i + 1) /\ Slot(i + 1) # put_index /\ Slot(i + 1) \in Index
        BY <1>4, <3>3, UartRxAssumption, <1>a
        DEF Slot, RxLength, Advance, Index
      <4>2. buffer'[Slot(i + 1)] = buffer[Slot(i + 1)]
        BY <4>1 DEF IInv, TypeOK, IsrPut
      <4>3. Append(base, ch)[i] = base[i]
        BY <2>2, <1>0, <3>3, <1>3
      <4> QED BY <3>1, <4>1, <4>2, <4>3, <2>2, <3>3, <1>3
    <3> QED BY <3>2, <3>3
  <2>5. Contents' = Append(base, ch)
    BY <2>1, <2>3, <2>4, <1>2, <1>4, SeqEqual
  <2> QED BY <2>5, <1>0 DEF Fifo!FifoPut
<1>5. CASE RxLength # BufSz - 1
  <2>1. RxLength' = RxLength + 1
    BY <1>5, PutLength DEF IInv
  <2>2. base = Contents
    BY <1>1, <1>5
  <2>3. Append(base, ch) \in Seq(C) /\ Len(Append(base, ch)) = RxLength + 1
    <3> HIDE DEF C, base
    <3> QED BY <2>2, <1>0, <1>1, <1>3
  <2>4. \A i \in 1 .. RxLength + 1 : Append(base, ch)[i] = Contents'[i]
    <3> TAKE i \in 1 .. RxLength + 1
    <3>1. Contents'[i] = buffer'[Slot(i)']
      BY <1>2, <2>1
    <3>2. CASE i = RxLength + 1
      <4>1. Slot(i)' = put_index
        BY <1>5, <3>2, UartRxAssumption, <1>a
        DEF Slot, RxLength, Advance, Index
      <4>2. buffer'[put_index] = ch
        BY DEF IInv, TypeOK, IsrPut
      <4> QED BY <3>1, <3>2, <4>1, <4>2, <2>2, <1>0, <1>1
    <3>3. CASE i # RxLength + 1
      <4>1. Slot(i)' = Slot(i) /\ Slot(i) # put_index /\ Slot(i) \in Index
        BY <1>5, <3>3, UartRxAssumption, <1>a
        DEF Slot, RxLength, Advance, Index
      <4>2. buffer'[Slot(i)] = buffer[Slot(i)]
        BY <4>1 DEF IInv, TypeOK, IsrPut
      <4>3. Append(base, ch)[i] = Contents[i]
        BY <2>2, <1>0, <1>1, <3>3, <1>3
      <4> QED BY <3>1, <4>1, <4>2, <4>3, <1>1, <3>3, <1>3
    <3> QED BY <3>2, <3>3
  <2>5. Contents' = Append(base, ch)
    BY <2>1, <2>3, <2>4, <1>2, SeqEqual
  <2> QED BY <2>5, <1>0 DEF Fifo!FifoPut
<1> QED BY <1>4, <1>5

\* A successful read takes the head of the queue.
LEMMA ReadRefines ==
  ASSUME IInv, TypeOK', Read, shell' # "wait"
  PROVE  Fifo!FifoGet
<1> DEFINE C == Char \cup {NoChar}
<1>0. rx = "valid" /\ rx' = "valid" /\ last' = buffer[get_index] /\ buffer' = buffer
  BY DEF Read, IInv, Context, TypeOK
<1>1. ContentsOK /\ ContentsOK'
  <2>1. TypeOK' /\ (rx = "valid")'
    BY <1>0
  <2>2. ContentsOK'
    BY <2>1, ContentsSeq, PTL
  <2>3. ContentsOK
    BY <1>0, ContentsSeq DEF IInv
  <2> QED BY <2>2, <2>3
<1>2. RxLength \in 1 .. BufSz - 1 /\ RxLength' = RxLength - 1
  BY ReadLength, RxLengthType, UartRxAssumption DEF IInv
<1>3. /\ get_index \in Index /\ put_index \in Index
      /\ get_index' = Advance(get_index)
  BY DEF Read, IInv, TypeOK
<1>4. Slot(1) = get_index
  BY <1>3, UartRxAssumption DEF Slot, Index
<1>5. \A i \in 1 .. RxLength - 1 : Slot(i)' = Slot(i + 1)
  BY <1>2, <1>3, UartRxAssumption DEF Slot, Advance, Index, RxLength
<1>6. /\ Contents \in Seq(C) /\ Len(Contents) = RxLength
      /\ \A i \in 1 .. RxLength : Contents[i] = buffer[Slot(i)]
  BY <1>1 DEF ContentsOK
<1>7. /\ Contents' \in Seq(C) /\ Len(Contents') = RxLength - 1
      /\ \A i \in 1 .. RxLength - 1 : Contents'[i] = buffer[Slot(i + 1)]
  BY <1>1, <1>0, <1>2, <1>5 DEF ContentsOK
<1> HIDE DEF C
<1>8. Contents # << >> /\ Head(Contents) = buffer[get_index]
  BY <1>2, <1>4, <1>6
<1>9. /\ Tail(Contents) \in Seq(C) /\ Len(Tail(Contents)) = RxLength - 1
      /\ \A i \in 1 .. RxLength - 1 : Tail(Contents)[i] = buffer[Slot(i + 1)]
  BY <1>2, <1>6
<1>10. Contents' = Tail(Contents)
  BY <1>7, <1>9, SeqEqual
<1> QED BY <1>0, <1>8, <1>10 DEF Fifo!FifoGet

\* A step that leaves the ring buffer, its pointer and "last" alone leaves
\* the abstract queue alone.
LEMMA SameContents ==
  ASSUME UNCHANGED <<rx, fifoVars, last>>
  PROVE  UNCHANGED Fifo!fifoVars
  BY DEF fifoVars, Contents, RxLength, Slot, Fifo!fifoVars

\* Every step of the driver puts, drops, takes or leaves alone, as CharFifo may.
LEMMA StepRefines ==
  ASSUME IInv, IInv', [Next]_vars
  PROVE  [Fifo!FifoNext]_(Fifo!fifoVars)
<1>1. ASSUME NEW c \in Char, Arrive(c) PROVE UNCHANGED <<rx, fifoVars, last>>
  BY <1>1 DEF Arrive
<1>2. CASE IsrEnter \/ IsrGetc \/ IsrClear \/ IsrNotify \/ SetIndicate \/ TakeSem
           \/ CloseClrInt \/ ClearIndicate \/ UNCHANGED vars
  <2>1. UNCHANGED <<rx, fifoVars, last>>
    BY <1>2 DEF IsrEnter, IsrGetc, IsrClear, IsrNotify, SetIndicate, TakeSem,
                CloseClrInt, ClearIndicate, vars
  <2> QED BY <2>1, SameContents
<1>3. CASE IsrPut
  <2>1. CASE rx = "valid"
    <3>1. Fifo!FifoPut(ch) /\ ch \in Char
      BY <1>3, <2>1, PutRefines DEF IInv, Context, IsrPut
    <3> QED BY <3>1 DEF Fifo!FifoNext
  <2>2. CASE rx # "valid"
    <3>1. UNCHANGED <<rx, last>>
      BY <1>3 DEF IsrPut
    <3> QED BY <3>1, <2>2 DEF Contents, Fifo!fifoVars
  <2> QED BY <2>1, <2>2
<1>4. CASE Read
  <2>1. CASE shell' = "wait"
    <3>1. UNCHANGED <<rx, fifoVars, last>>
      BY <1>4, <2>1 DEF Read, IInv, TypeOK
    <3> QED BY <3>1, SameContents
  <2>2. CASE shell' # "wait"
    BY <1>4, <2>2, ReadRefines DEF IInv, Fifo!FifoNext
  <2> QED BY <2>1, <2>2
<1>5. CASE Open
  <2>1. last' = last /\ rx' = "valid" /\ rx # "valid" /\ RxLength' = 0
    BY <1>5 DEF Open, RxLength, IInv, Context
  <2>2. Contents' = << >>
    BY <2>1 DEF Contents
  <2> QED BY <2>1, <2>2 DEF Fifo!FifoNext, Fifo!FifoOpen
<1>6. CASE CloseFree
  <2>1. last' = last /\ rx = "valid" /\ rx' # "valid"
    BY <1>6 DEF CloseFree, IInv, Context
  <2>2. Contents' = << >>
    BY <2>1 DEF Contents
  <2> QED BY <2>1, <2>2 DEF Fifo!FifoNext, Fifo!FifoClose
<1>7. CASE CloseNull
  <2>1. last' = last /\ rx # "valid" /\ rx' # "valid"
    BY <1>7 DEF CloseNull, IInv, Context
  <2> QED BY <2>1 DEF Contents, Fifo!fifoVars
<1> QED
  BY <1>1, <1>2, <1>3, <1>4, <1>5, <1>6, <1>7, SameContents DEF Next, Isr, Shell

\* The ring buffer filled by the ISR and emptied by the reader is a
\* first-in first-out queue of BufSz - 1 characters that gives up its oldest
\* character when full, for every buffer size and every interleaving.
THEOREM RingBufferIsFifo == Spec => RefinesCharFifo
<1>1. Init => Fifo!FifoInit
  BY DEF Init, Contents, Fifo!FifoInit
<1>2. IInv /\ IInv' /\ [Next]_vars => [Fifo!FifoNext]_(Fifo!fifoVars)
  BY StepRefines
<1> QED
  BY <1>1, <1>2, InitIInv, NextIInv, PTL DEF Spec, RefinesCharFifo, Fifo!FifoSpec
=============================================================================
