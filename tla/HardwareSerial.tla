--------------------------- MODULE HardwareSerial ---------------------------
(***************************************************************************)
(* One serial port (cores/tivac/HardwareSerial.cpp): a receive and a       *)
(* transmit ring shared by the sketch and the UART interrupt.              *)
(*                                                                         *)
(* UARTIntHandler runs to completion and is one step.  The sketch is       *)
(* preempted between any two accesses to an index, except while the UART   *)
(* interrupt is disabled (primeTransmit) or all are masked (end).          *)
(*                                                                         *)
(* The k-th character to arrive, and the k-th written, is the number k.    *)
(***************************************************************************)
EXTENDS Integers, Sequences

CONSTANTS
    rxBufferSize, txBufferSize,  \* 256 unless setBufferSize was called
    RxFifo, TxFifo,              \* depth of the UART's own FIFOs (16)
    MaxRx, MaxTx                 \* bounds: characters received and written

ASSUME SizesAssumption ==
    rxBufferSize \in Nat \ {0, 1} /\ txBufferSize \in Nat \ {0, 1}
ASSUME FifosAssumption == RxFifo \in Nat \ {0} /\ TxFifo \in Nat \ {0}
ASSUME CharsAssumption == MaxRx \in Nat /\ MaxTx \in Nat

VARIABLES
    rxBuffer, rxReadIndex, rxWriteIndex,
    txBuffer, txReadIndex, txWriteIndex,
    rxLine,     \* characters in the UART's receive FIFO
    txLine,     \* how many are in its transmit FIFO
    uartInt,    \* the interrupt is enabled in the NVIC
    rxMask,     \* UART_INT_RX and UART_INT_RT are enabled in the UART
    txMask,     \* UART_INT_TX is
    th,         \* the sketch: where it is in a call, a character, a count
    got,        \* history: the character read() returned last
    arrived,    \* history: characters that arrived
    sent,       \* history: characters given to the transmit FIFO
    raced       \* history: begin() on a running port was hit by the interrupt

rx == <<rxBuffer, rxReadIndex, rxWriteIndex>>
tx == <<txBuffer, txReadIndex, txWriteIndex>>
uart == <<rxLine, txLine, uartInt, rxMask, txMask>>
hist == <<arrived, sent, raced>>
vars == <<rx, tx, uart, th, got, hist>>

\* A port on which begin() was never called has no buffers.
Off == [pc |-> "off", c |-> 0, n |-> 0, some |-> FALSE, written |-> 0]

Init ==
    /\ rxBuffer = [i \in 0 .. rxBufferSize - 1 |-> 0]
    /\ rxReadIndex = 0
    /\ rxWriteIndex = 0
    /\ txBuffer = [i \in 0 .. txBufferSize - 1 |-> 0]
    /\ txReadIndex = 0
    /\ txWriteIndex = 0
    /\ rxLine = <<>>
    /\ txLine = 0
    /\ uartInt = FALSE
    /\ rxMask = FALSE
    /\ txMask = FALSE
    /\ th = Off
    /\ got = 0
    /\ arrived = 0
    /\ sent = <<>>
    /\ raced = FALSE

-----------------------------------------------------------------------------
\* Mutant of NextRx: no wrap.
NextRx_flat(i) == i + 1

NextRx(i) == (i + 1) % rxBufferSize
NextTx(i) == (i + 1) % txBufferSize

RX_BUFFER_EMPTY == rxReadIndex = rxWriteIndex
TX_BUFFER_EMPTY == txReadIndex = txWriteIndex

\* Mutant of TX_BUFFER_FULL: full is taken for empty.
TX_BUFFER_FULL_empty == txWriteIndex = txReadIndex

TX_BUFFER_FULL == NextTx(txWriteIndex) = txReadIndex

Used(r, w, size) == IF w >= r THEN w - r ELSE w - r + size
RxUsed == Used(rxReadIndex, rxWriteIndex, rxBufferSize)
TxUsed == Used(txReadIndex, txWriteIndex, txBufferSize)

RxContents == [k \in 1 .. RxUsed |-> rxBuffer[(rxReadIndex + k - 1) % rxBufferSize]]
TxContents == [k \in 1 .. TxUsed |-> txBuffer[(txReadIndex + k - 1) % txBufferSize]]

-----------------------------------------------------------------------------
(* The UART.                                                               *)

\* A character arrives; with the FIFO full it is lost to an overrun.
Arrive ==
    /\ arrived < MaxRx
    /\ arrived' = arrived + 1
    /\ rxLine' = IF Len(rxLine) < RxFifo THEN Append(rxLine, arrived + 1) ELSE rxLine
    /\ UNCHANGED <<rx, tx, txLine, uartInt, rxMask, txMask, th, got, sent, raced>>

\* A character leaves the transmit FIFO.
Shift ==
    /\ txLine > 0
    /\ txLine' = txLine - 1
    /\ UNCHANGED <<rx, tx, rxLine, uartInt, rxMask, txMask, th, got, hist>>

\* primeTransmit inside the interrupt: it stays until the ring is empty, while
\* the UART goes on sending.
primeTransmit ==
    /\ sent' = IF raced' THEN sent ELSE sent \o TxContents
    /\ txReadIndex' = txWriteIndex
    /\ UNCHANGED <<txBuffer, txWriteIndex>>
    /\ IF TX_BUFFER_EMPTY THEN UNCHANGED txLine
       ELSE txLine' \in {n \in 1 .. TxFifo : n <= txLine + TxUsed}

\* Mutant of RxRoom: the slot that tells full from empty is used.
RxRoom_all == rxBufferSize - RxUsed

\* How many characters go in before RX_BUFFER_FULL.
RxRoom == rxBufferSize - 1 - RxUsed

\* The receive loop: characters are moved until the FIFO is empty; the one
\* read when the ring is full is thrown away, which ends the loop.
ReceiveLoop ==
    LET full == Len(rxLine) > RxRoom
        m == IF full THEN RxRoom ELSE Len(rxLine)
    IN /\ rxBuffer' = [i \in 0 .. rxBufferSize - 1 |->
            LET k == IF i >= rxWriteIndex THEN i - rxWriteIndex + 1
                     ELSE i - rxWriteIndex + rxBufferSize + 1
            IN IF k <= m THEN rxLine[k] ELSE rxBuffer[i]]
       /\ rxWriteIndex' = (rxWriteIndex + m) % rxBufferSize
       /\ rxLine' = SubSeq(rxLine, IF full THEN m + 2 ELSE m + 1, Len(rxLine))
       /\ UNCHANGED rxReadIndex

\* begin() turns the interrupt off only after flushAll.  It finds the ring
\* half cleared, or puts characters in a buffer that is about to be replaced.
BeginHit(r) ==
    \/ th.pc = "begin_tx" /\ ~ TX_BUFFER_EMPTY
    \/ th.pc \in {"begin_rxw", "begin_int"} /\ r /\ rxLine # <<>>

\* ulInts has the TX bit (t), one of the RX bits (r), or both.  The ring is
\* empty after primeTransmit, so TX alone ends with its interrupt disabled.
\* With an RX bit the FIFO may be empty: a character that came while the loop
\* ran is taken by that loop.
UARTIntHandler(t, r) ==
    /\ uartInt
    /\ th.pc # "end"
    /\ t \/ r
    /\ t => txMask
    /\ r => rxMask
    /\ raced' = (raced \/ BeginHit(r))
    /\ primeTransmit
    /\ txMask' = r
    /\ IF r THEN ReceiveLoop ELSE UNCHANGED <<rx, rxLine>>
    /\ UNCHANGED <<uartInt, rxMask, th, got, arrived>>

-----------------------------------------------------------------------------
(* The sketch.                                                             *)

Goto(pc) == th' = [th EXCEPT !.pc = pc]

\* begin(): UARTConfigSetExpClk waits for the UART and empties its FIFOs.
begin ==
    /\ th.pc \in {"off", "idle"}
    /\ txLine = 0
    /\ rxLine' = <<>>
    /\ Goto("begin")
    /\ UNCHANGED <<rx, tx, txLine, uartInt, rxMask, txMask, got, hist>>

\* flushAll, index by index: on a running port the interrupt may come between.
beginFlush ==
    /\ th.pc = "begin"
    /\ TX_BUFFER_EMPTY
    /\ txLine = 0
    /\ txReadIndex' = 0
    /\ Goto("begin_tx")
    /\ UNCHANGED <<rx, txBuffer, txWriteIndex, uart, got, hist>>

beginFlushTx ==
    /\ th.pc = "begin_tx"
    /\ txWriteIndex' = 0
    /\ Goto("begin_rx")
    /\ UNCHANGED <<rx, txBuffer, txReadIndex, uart, got, hist>>

beginFlushRead ==
    /\ th.pc = "begin_rx"
    /\ rxReadIndex' = 0
    /\ Goto("begin_rxw")
    /\ UNCHANGED <<rxBuffer, rxWriteIndex, tx, uart, got, hist>>

beginFlushWrite ==
    /\ th.pc = "begin_rxw"
    /\ rxWriteIndex' = 0
    /\ Goto("begin_int")
    /\ UNCHANGED <<rxBuffer, rxReadIndex, tx, uart, got, hist>>

\* The UART's interrupts are off while the buffers are replaced, then RX and
\* RT are on.  0 stands for what the new blocks hold.
beginEnable ==
    /\ th.pc = "begin_int"
    /\ rxBuffer' = [i \in 0 .. rxBufferSize - 1 |-> 0]
    /\ txBuffer' = [i \in 0 .. txBufferSize - 1 |-> 0]
    /\ txMask' = FALSE
    /\ rxMask' = TRUE
    /\ uartInt' = TRUE
    /\ Goto("idle")
    /\ UNCHANGED <<rxReadIndex, rxWriteIndex, txReadIndex, txWriteIndex, rxLine, txLine,
                   got, hist>>

\* end() masks every interrupt and waits in flushAll for the ring to empty.
endCall ==
    /\ th.pc = "idle"
    /\ rxMask
    /\ Goto("end")
    /\ UNCHANGED <<rx, tx, uart, got, hist>>

flushAll ==
    /\ th.pc = "end"
    /\ TX_BUFFER_EMPTY
    /\ txLine = 0
    /\ txReadIndex' = 0 /\ txWriteIndex' = 0
    /\ rxReadIndex' = 0 /\ rxWriteIndex' = 0
    /\ Goto("ended")
    /\ UNCHANGED <<rxBuffer, txBuffer, uart, got, hist>>

\* Interrupts are back before the UART's own is turned off.
endDisable ==
    /\ th.pc = "ended"
    /\ uartInt' = FALSE
    /\ rxMask' = FALSE
    /\ Goto("idle")
    /\ UNCHANGED <<rx, tx, rxLine, txLine, txMask, got, hist>>

\* read(): -1 on an empty ring; the character is loaded, then the index moves.
readCheck ==
    /\ th.pc = "idle"
    /\ ~ RX_BUFFER_EMPTY
    /\ Goto("read_load")
    /\ UNCHANGED <<rx, tx, uart, got, hist>>

readLoad ==
    /\ th.pc = "read_load"
    /\ th' = [th EXCEPT !.pc = "read_next", !.c = rxBuffer[rxReadIndex]]
    /\ UNCHANGED <<rx, tx, uart, got, hist>>

readNext ==
    /\ th.pc = "read_next"
    /\ rxReadIndex' = NextRx(rxReadIndex)
    /\ got' = th.c
    /\ th' = [th EXCEPT !.pc = "idle", !.c = 0]
    /\ UNCHANGED <<rxBuffer, rxWriteIndex, tx, uart, hist>>

\* available() compares the indices, then reads rxWriteIndex again.  some
\* records whether there was anything to read at the call.
availableCompare ==
    /\ th.pc = "idle"
    /\ th' = [th EXCEPT !.pc = IF rxWriteIndex >= rxReadIndex THEN "avail_ge" ELSE "avail_lt",
                        !.some = ~ RX_BUFFER_EMPTY]
    /\ UNCHANGED <<rx, tx, uart, got, hist>>

\* Mutant of Difference: the wrapped case is taken for the plain one.
Difference_plain == rxReadIndex - rxWriteIndex

\* The result is unsigned; as an int it is negative when rxWriteIndex wrapped
\* after the comparison.
Difference ==
    IF th.pc = "avail_ge" THEN rxWriteIndex - rxReadIndex
    ELSE rxBufferSize - (rxReadIndex - rxWriteIndex)

availableReturn ==
    /\ th.pc \in {"avail_ge", "avail_lt"}
    /\ th' = [th EXCEPT !.pc = "avail_ret", !.n = Difference]
    /\ UNCHANGED <<rx, tx, uart, got, hist>>

availableDone ==
    /\ th.pc = "avail_ret"
    /\ th' = [th EXCEPT !.pc = "idle", !.n = 0, !.some = FALSE]
    /\ UNCHANGED <<rx, tx, uart, got, hist>>

\* write(): wait for room, store, move the index, then transmit.
writeCall ==
    /\ th.pc = "idle"
    /\ rxMask
    /\ th.written < MaxTx
    /\ Goto("write_store")
    /\ UNCHANGED <<rx, tx, uart, got, hist>>

writeStore ==
    /\ th.pc = "write_store"
    /\ ~ TX_BUFFER_FULL
    /\ txBuffer' = [txBuffer EXCEPT ![txWriteIndex] = th.written + 1]
    /\ Goto("write_next")
    /\ UNCHANGED <<rx, txReadIndex, txWriteIndex, uart, got, hist>>

writeNext ==
    /\ th.pc = "write_next"
    /\ txWriteIndex' = NextTx(txWriteIndex)
    /\ th' = [th EXCEPT !.pc = "write_prime", !.written = @ + 1]
    /\ UNCHANGED <<rx, txBuffer, txReadIndex, uart, got, hist>>

\* Nothing left to send: the interrupt has sent it.
writePrime ==
    /\ th.pc = "write_prime"
    /\ Goto(IF TX_BUFFER_EMPTY THEN "idle" ELSE "prime")
    /\ UNCHANGED <<rx, tx, uart, got, hist>>

primeCheck ==
    /\ th.pc = "prime"
    /\ Goto(IF TX_BUFFER_EMPTY THEN "write_int" ELSE "prime_off")
    /\ UNCHANGED <<rx, tx, uart, got, hist>>

\* Mutant of primeDisable: the interrupt stays enabled.
primeDisable_on ==
    /\ th.pc = "prime_off"
    /\ Goto("prime_loop")
    /\ UNCHANGED <<rx, tx, uart, got, hist>>

primeDisable ==
    /\ th.pc = "prime_off"
    /\ uartInt' = FALSE
    /\ Goto("prime_loop")
    /\ UNCHANGED <<rx, tx, rxLine, txLine, rxMask, txMask, got, hist>>

\* The next character goes to the FIFO once it has space.
primePut ==
    /\ th.pc = "prime_loop"
    /\ IF TX_BUFFER_EMPTY
       THEN Goto("prime_on") /\ UNCHANGED <<txLine, sent>>
       ELSE /\ txLine < TxFifo
            /\ sent' = IF raced THEN sent ELSE Append(sent, txBuffer[txReadIndex])
            /\ txLine' = txLine + 1
            /\ Goto("prime_next")
    /\ UNCHANGED <<rx, tx, rxLine, uartInt, rxMask, txMask, got, arrived, raced>>

primeNext ==
    /\ th.pc = "prime_next"
    /\ txReadIndex' = NextTx(txReadIndex)
    /\ Goto("prime_loop")
    /\ UNCHANGED <<rx, txBuffer, txWriteIndex, uart, got, hist>>

primeEnable ==
    /\ th.pc = "prime_on"
    /\ uartInt' = TRUE
    /\ Goto("write_int")
    /\ UNCHANGED <<rx, tx, rxLine, txLine, rxMask, txMask, got, hist>>

writeIntEnable ==
    /\ th.pc = "write_int"
    /\ txMask' = TRUE
    /\ Goto("idle")
    /\ UNCHANGED <<rx, tx, rxLine, txLine, uartInt, rxMask, got, hist>>

\* flush() only waits.
flushCall ==
    /\ th.pc = "idle"
    /\ rxMask
    /\ Goto("flush")
    /\ UNCHANGED <<rx, tx, uart, got, hist>>

flush ==
    /\ th.pc = "flush"
    /\ TX_BUFFER_EMPTY
    /\ txLine = 0
    /\ Goto("idle")
    /\ UNCHANGED <<rx, tx, uart, got, hist>>

Calls ==
    begin \/ endCall \/ readCheck \/ availableCompare \/ writeCall \/ flushCall

CallSteps ==
    \/ beginFlush \/ beginFlushTx \/ beginFlushRead \/ beginFlushWrite \/ beginEnable
    \/ flushAll \/ endDisable \/ flush
    \/ readLoad \/ readNext
    \/ availableReturn \/ availableDone
    \/ writeStore \/ writeNext \/ writePrime \/ writeIntEnable
    \/ primeCheck \/ primeDisable \/ primePut \/ primeNext \/ primeEnable

Interrupt == \E t, r \in BOOLEAN : UARTIntHandler(t, r)

\* After a begin() that was hit the ring may never look empty again, and the
\* calls that wait for it stay there.
Hung ==
    /\ raced
    /\ th.pc \in {"begin", "flush", "end"}
    /\ ~ TX_BUFFER_EMPTY
    /\ UNCHANGED vars

Next == Arrive \/ Shift \/ Interrupt \/ Calls \/ CallSteps \/ Hung

Spec == Init /\ [][Next]_vars

-----------------------------------------------------------------------------
PCs ==
    {"off", "begin", "begin_tx", "begin_rx", "begin_rxw", "begin_int", "idle", "flush", "end",
     "ended", "read_load", "read_next", "avail_ge", "avail_lt", "avail_ret", "write_store",
     "write_next", "write_prime", "write_int", "prime", "prime_off", "prime_loop",
     "prime_next", "prime_on"}
Thread == [pc : PCs, c : Nat, n : Int, some : BOOLEAN, written : Nat]

TypeOK ==
    /\ rxBuffer \in [0 .. rxBufferSize - 1 -> Nat]
    /\ rxReadIndex \in 0 .. rxBufferSize - 1
    /\ rxWriteIndex \in 0 .. rxBufferSize - 1
    /\ txBuffer \in [0 .. txBufferSize - 1 -> Nat]
    /\ txReadIndex \in 0 .. txBufferSize - 1
    /\ txWriteIndex \in 0 .. txBufferSize - 1
    /\ rxLine \in Seq(Nat) /\ Len(rxLine) <= RxFifo
    /\ txLine \in 0 .. TxFifo
    /\ uartInt \in BOOLEAN /\ rxMask \in BOOLEAN /\ txMask \in BOOLEAN
    /\ th \in Thread
    /\ got \in Nat
    /\ arrived \in Nat
    /\ sent \in Seq(Nat)
    /\ raced \in BOOLEAN

\* The queue the ring stands for.  Between the two assignments of flushAll it
\* counts as cleared.
Contents == IF th.pc = "begin_rxw" THEN <<>> ELSE RxContents

Queue == INSTANCE RxQueue WITH
    Char <- 1 .. MaxRx, Cap <- rxBufferSize - 1, LineCap <- RxFifo,
    line <- rxLine, q <- Contents, out <- got,
    clearing <- th.pc \in {"begin", "begin_rxw", "ended"}

\* The receive ring implements RxQueue: whatever the interrupt does between
\* the steps of read(), characters come out once each, in order of arrival,
\* and one is thrown away only when the ring holds rxBufferSize - 1, or by
\* begin() and end().  The exception is a begin() on a running port that the
\* interrupt hits.
ReceivesInOrder == Queue!Init /\ [][Queue!Next \/ raced']_(Queue!qvars)

\* Both the sketch (in write) and the interrupt move characters from the
\* transmit ring to the FIFO; primeTransmit disables the interrupt so that
\* the read index is not corrupted.  What goes out is what was written, once
\* and in order, and nothing written is lost: it went out or is still in the
\* ring, which flushAll clears index by index.  Between two calls the ring is
\* empty: end() waits for that with every interrupt masked, when nothing would
\* empty it any more.
TransmitsInOrder ==
    ~ raced =>
        /\ \A k \in 1 .. Len(sent) : sent[k] = k
        /\ th.pc # "begin_tx" =>
             Len(sent) + TxUsed = IF th.pc = "prime_next" THEN th.written + 1 ELSE th.written
        /\ th.pc \in {"idle", "flush", "end"} => TX_BUFFER_EMPTY

\* available() is not atomic.  A positive result is still never more than
\* read() will find, and it is not 0 if there was something to read, which is
\* what serialEventRun goes by.
AvailableSound ==
    th.pc = "avail_ret" =>
        /\ th.n > 0 => th.n <= RxUsed
        /\ th.some => th.n # 0

\* The sketch goes on with a call it is in, and the UART sends what is in its
\* FIFO.
FairSpec == Spec /\ WF_vars(CallSteps) /\ WF_vars(Shift)

\* No call waits for ever: write() for room, primeTransmit for the FIFO,
\* end() for the ring.
CallsReturn == th.pc \notin {"off", "idle"} ~> th.pc = "idle" \/ raced
=============================================================================
