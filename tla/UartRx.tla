------------------------------- MODULE UartRx -------------------------------
(***************************************************************************)
(* The receive side of a serial port and the shell that reads it:          *)
(*                                                                         *)
(*   UART data register -> uart_isr / uart_irq_process (drv_usart.c)       *)
(*     -> ring buffer rt_serial_rx_fifo -> _serial_int_rx (serial.c)       *)
(*     -> finsh_getchar (shell.c), which sleeps on shell->rx_sem.          *)
(*                                                                         *)
(* The ISR runs to completion before any thread goes on (interrupts do not *)
(* nest on this core); the line keeps delivering characters meanwhile.     *)
(* Every section a thread runs with interrupts masked is one step.         *)
(***************************************************************************)
EXTENDS Naturals, Sequences

CONSTANTS
    Char,        \* characters the line can carry
    NoChar,      \* no character read yet
    BufSz,       \* serial->config.bufsz (RT_SERIAL_RB_BUFSZ)
    SemMax       \* RT_SEM_VALUE_MAX

ASSUME UartRxAssumption ==
    /\ BufSz \in Nat /\ BufSz > 1
    /\ SemMax \in Nat /\ SemMax > 0
    /\ NoChar \notin Char

VARIABLES
    rxData,      \* UARTxDATA, receive side
    rxPnd,       \* UART_FLAG_RXPND of UARTxCON
    rxIE,        \* UART_RXIT_ENABLE of UARTxCON
    rx,          \* serial->serial_rx: "null", "valid", or "freed" (dangling)
    buffer, put_index, get_index, is_full,    \* struct rt_serial_rx_fifo
    indicate,    \* serial->parent.rx_indicate # RT_NULL
    sem,         \* shell->rx_sem.value
    isr, ch,     \* where the ISR is, and its local ch
    shell,       \* where the reading thread is
    last         \* the character finsh_getchar returned last

hwVars   == <<rxData, rxPnd, rxIE>>
fifoVars == <<buffer, put_index, get_index, is_full>>
vars     == <<hwVars, rx, fifoVars, indicate, sem, isr, ch, shell, last>>

Index == 0 .. BufSz - 1

\* index += 1; if (index >= bufsz) index = 0
Advance(i) == IF i + 1 >= BufSz THEN 0 ELSE i + 1

\* rx_length as uart_irq_process computes it
RxLength == IF put_index >= get_index
            THEN put_index - get_index
            ELSE BufSz - (get_index - put_index)

Init ==
    /\ rxData \in Char /\ rxPnd \in BOOLEAN /\ rxIE = FALSE
    /\ rx = "null"
    /\ buffer = [i \in Index |-> NoChar]
    /\ put_index = 0 /\ get_index = 0 /\ is_full = FALSE
    /\ indicate = FALSE /\ sem = 0
    /\ isr = "none" /\ ch = NoChar
    /\ shell = "closed" /\ last = NoChar

-----------------------------------------------------------------------------
(* The line. A character that arrives while RXPND is still set replaces    *)
(* the one in the data register.                                           *)

Arrive(c) ==
    /\ rxData' = c
    /\ rxPnd' = TRUE
    /\ UNCHANGED <<rxIE, rx, fifoVars, indicate, sem, isr, ch, shell, last>>

-----------------------------------------------------------------------------
(* The interrupt.                                                          *)

\* uart_isr, and the RT_ASSERT at the head of uart_irq_process: a failed
\* assertion spins forever with interrupts off ("halted").
IsrEnter ==
    /\ isr = "none" /\ rxIE /\ rxPnd
    /\ isr' = IF rx = "null" THEN "halted" ELSE "getc"
    /\ UNCHANGED <<hwVars, rx, fifoVars, indicate, sem, ch, shell, last>>

\* ab32_getc: test RXPND, read the data register ...
IsrGetc ==
    /\ isr = "getc"
    /\ \/ rxPnd /\ ch' = rxData /\ isr' = "clear"
       \/ ~rxPnd /\ ch' = ch /\ isr' = "notify"
    /\ UNCHANGED <<hwVars, rx, fifoVars, indicate, sem, shell, last>>

\* ... and only then clear the flag, whatever set it.
IsrClear ==
    /\ isr = "clear"
    /\ rxPnd' = FALSE
    /\ isr' = "put"
    /\ UNCHANGED <<rxData, rxIE, rx, fifoVars, indicate, sem, ch, shell, last>>

\* Mutant: a full buffer is not noticed.
IsrPutNoDrop ==
    /\ isr = "put"
    /\ buffer' = [buffer EXCEPT ![put_index] = ch]
    /\ put_index' = Advance(put_index)
    /\ isr' = "getc"
    /\ UNCHANGED <<get_index, is_full, hwVars, rx, indicate, sem, ch, shell, last>>

\* the ring buffer insertion of uart_irq_process
IsrPut ==
    /\ isr = "put"
    /\ buffer' = [buffer EXCEPT ![put_index] = ch]
    /\ put_index' = Advance(put_index)
    /\ IF put_index' = get_index
       THEN get_index' = Advance(get_index) /\ is_full' = TRUE
       ELSE UNCHANGED <<get_index, is_full>>
    /\ isr' = "getc"
    /\ UNCHANGED <<hwVars, rx, indicate, sem, ch, shell, last>>

\* Mutant: the length test forgets that the indices wrap.
IsrNotifyNoWrap ==
    /\ isr = "notify"
    /\ sem' = IF indicate /\ put_index > get_index /\ sem < SemMax THEN sem + 1 ELSE sem
    /\ isr' = "none"
    /\ UNCHANGED <<hwVars, rx, fifoVars, indicate, ch, shell, last>>

\* rx_length, and shell_rx_ind -> rt_sem_release
IsrNotify ==
    /\ isr = "notify"
    /\ sem' = IF indicate /\ RxLength # 0 /\ sem < SemMax THEN sem + 1 ELSE sem
    /\ isr' = "none"
    /\ UNCHANGED <<hwVars, rx, fifoVars, indicate, ch, shell, last>>

Isr == IsrEnter \/ IsrGetc \/ IsrClear \/ IsrPut \/ IsrNotify

-----------------------------------------------------------------------------
(* The reading thread; it only runs while no interrupt is being served.    *)

\* rt_serial_open with RT_DEVICE_FLAG_INT_RX; ab32_control(SET_INT) clears
\* RXPND before it enables the interrupt.
Open ==
    /\ isr = "none" /\ shell = "closed"
    /\ rx' = "valid"
    /\ buffer' = [i \in Index |-> NoChar]
    /\ put_index' = 0 /\ get_index' = 0 /\ is_full' = FALSE
    /\ rxPnd' = FALSE /\ rxIE' = TRUE
    /\ shell' = "opened"
    /\ UNCHANGED <<rxData, indicate, sem, isr, ch, last>>

\* rt_device_set_rx_indicate, after the interrupt has been enabled
SetIndicate ==
    /\ isr = "none" /\ shell = "opened"
    /\ indicate' = TRUE
    /\ shell' = "read"
    /\ UNCHANGED <<hwVars, rx, fifoVars, sem, isr, ch, last>>

\* _serial_int_rx for one character, called from finsh_getchar's loop
Read ==
    /\ isr = "none" /\ shell = "read"
    /\ \/ /\ get_index = put_index /\ ~is_full
          /\ shell' = "wait"
          /\ UNCHANGED <<fifoVars, last>>
       \/ /\ get_index # put_index \/ is_full
          /\ last' = buffer[get_index]
          /\ get_index' = Advance(get_index)
          /\ is_full' = FALSE
          /\ UNCHANGED <<shell, buffer, put_index>>
    /\ UNCHANGED <<hwVars, rx, indicate, sem, isr, ch>>

\* rt_sem_take(&shell->rx_sem, RT_WAITING_FOREVER)
TakeSem ==
    /\ isr = "none" /\ shell = "wait" /\ sem > 0
    /\ sem' = sem - 1
    /\ shell' = "read"
    /\ UNCHANGED <<hwVars, rx, fifoVars, indicate, isr, ch, last>>

\* rt_serial_close: rt_free(rx_fifo) ...
CloseFree ==
    /\ isr = "none" /\ shell = "read"
    /\ rx' = "freed"
    /\ shell' = "null"
    /\ UNCHANGED <<hwVars, fifoVars, indicate, sem, isr, ch, last>>

\* ... serial->serial_rx = RT_NULL ...
CloseNull ==
    /\ isr = "none" /\ shell = "null"
    /\ rx' = "null"
    /\ shell' = "clrint"
    /\ UNCHANGED <<hwVars, fifoVars, indicate, sem, isr, ch, last>>

\* ... and only now ab32_control(CLR_INT).
CloseClrInt ==
    /\ isr = "none" /\ shell = "clrint"
    /\ rxIE' = FALSE
    /\ shell' = "unset"
    /\ UNCHANGED <<rxData, rxPnd, rx, fifoVars, indicate, sem, isr, ch, last>>

\* finsh_set_device: rt_device_set_rx_indicate(old, RT_NULL)
ClearIndicate ==
    /\ isr = "none" /\ shell = "unset"
    /\ indicate' = FALSE
    /\ shell' = "closed"
    /\ UNCHANGED <<hwVars, rx, fifoVars, sem, isr, ch, last>>

Shell == \/ Open \/ SetIndicate \/ Read \/ TakeSem
         \/ CloseFree \/ CloseNull \/ CloseClrInt \/ ClearIndicate

Next == (\E c \in Char : Arrive(c)) \/ Isr \/ Shell

Spec == Init /\ [][Next]_vars

(* Fairness. The ISR never stops half way, and the shell is scheduled when *)
(* it becomes ready again and again: nothing of a higher priority runs for *)
(* ever. CpuFasterThanLine is the one assumption about speed: the receive  *)
(* loop of uart_irq_process, which goes round as long as it finds a new    *)
(* character, comes to an end.                                             *)
FairSpec == Spec /\ WF_vars(Isr) /\ SF_vars(Shell)

CpuFasterThanLine == []<>(isr = "none")

-----------------------------------------------------------------------------
(* Properties.                                                             *)

\* The slot of the i-th oldest character.
Slot(i) == IF get_index + i - 1 >= BufSz THEN get_index + i - 1 - BufSz
                                         ELSE get_index + i - 1

\* The characters in the ring buffer, oldest first.
Contents == IF rx = "valid" THEN [i \in 1 .. RxLength |-> buffer[Slot(i)]]
                            ELSE << >>

\* The ring buffer, as the reader sees it, is the drop-oldest queue of
\* CharFifo with one slot kept free.
Fifo == INSTANCE CharFifo
    WITH Capacity <- BufSz - 1, open <- (rx = "valid"), q <- Contents

\* Every variable keeps its type: indices stay inside the buffer that
\* rt_serial_open allocated and rx_sem within RT_SEM_VALUE_MAX.
TypeOK ==
    /\ rxData \in Char /\ rxPnd \in BOOLEAN /\ rxIE \in BOOLEAN
    /\ rx \in {"null", "valid", "freed"}
    /\ buffer \in [Index -> Char \cup {NoChar}]
    /\ put_index \in Index /\ get_index \in Index /\ is_full \in BOOLEAN
    /\ indicate \in BOOLEAN /\ sem \in 0 .. SemMax
    /\ isr \in {"none", "getc", "clear", "put", "notify", "halted"}
    /\ ch \in Char \cup {NoChar}
    /\ shell \in {"closed", "opened", "read", "wait", "null", "clrint", "unset"}
    /\ last \in Char \cup {NoChar}

\* is_full is set by uart_irq_process in the overflow branch and cleared by
\* _serial_int_rx at the first read: whenever it is set, the buffer holds
\* exactly BufSz - 1 characters, so the "is there data" test of
\* _serial_int_rx (which trusts is_full) never hands out an empty slot.
FullMeansFull == is_full => RxLength = BufSz - 1

\* No lost wake-up: the shell never sleeps on rx_sem while characters are
\* in the ring buffer, unless a release is already counted in the semaphore
\* or the ISR is still on its way to release it.
ReaderNotStranded ==
    shell = "wait" /\ RxLength # 0 =>
        sem > 0 \/ isr \in {"getc", "clear", "put", "notify", "halted"}

\* What the thread reads is what the ISR stored, in that order; only the
\* oldest characters are given up, and only when BufSz - 1 are waiting.
RefinesCharFifo == Fifo!FifoSpec

\* A shell asleep on rx_sem with characters in the ring buffer wakes up, as
\* long as the receive interrupt does not occupy the CPU for ever.
SleeperWakes ==
    CpuFasterThanLine => ((shell = "wait" /\ RxLength # 0) ~> (shell = "read"))
=============================================================================
