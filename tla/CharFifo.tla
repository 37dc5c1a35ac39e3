------------------------------ MODULE CharFifo ------------------------------
(***************************************************************************)
(* What the interrupt-driven receive path promises the thread that reads   *)
(* a serial device: a first-in first-out queue of bounded length that      *)
(* gives up its OLDEST character when a new one finds it full.             *)
(* drv_usart.c:uart_irq_process puts, serial.c:_serial_int_rx gets, and    *)
(* opening or closing the device empties it.                               *)
(***************************************************************************)
EXTENDS Naturals, Sequences

CONSTANTS
    Char,       \* the characters of the line
    NoChar,     \* the value of "last" before anything was read
    Capacity    \* characters held before the oldest is given up

VARIABLES
    open,       \* is the device open?
    q,          \* characters received and not yet read, oldest first
    last        \* the character the reader was given last

fifoVars == <<open, q, last>>

FifoInit == ~open /\ q = << >> /\ last = NoChar

\* Opening starts from an empty queue ...
FifoOpen == ~open /\ open' /\ q' = << >> /\ UNCHANGED last

\* ... and closing gives up what was not read.
FifoClose == open /\ ~open' /\ q' = << >> /\ UNCHANGED last

\* A character is received; a full queue drops its head first.
FifoPut(c) ==
    /\ open /\ open'
    /\ q' = Append(IF Len(q) = Capacity THEN Tail(q) ELSE q, c)
    /\ UNCHANGED last

FifoGet ==
    /\ open /\ open'
    /\ q # << >>
    /\ last' = Head(q)
    /\ q' = Tail(q)

FifoNext == FifoOpen \/ FifoClose \/ (\E c \in Char : FifoPut(c)) \/ FifoGet

FifoSpec == FifoInit /\ [][FifoNext]_fifoVars
=============================================================================
