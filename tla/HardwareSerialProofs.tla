------------------------ MODULE HardwareSerialProofs ------------------------
(***************************************************************************)
(* Proofs about HardwareSerial, for rings and FIFOs of any size.           *)
(***************************************************************************)
EXTENDS HardwareSerial, Remainders, TLAPS

\* Where the sketch is in write() with characters in the ring.
Sending == {"write_prime", "prime", "prime_off", "prime_loop", "prime_next"}

\* The transmit ring.  It holds the last characters written, and those before
\* were sent; the interrupt is off while primeTransmit runs in the sketch.
TxInv ==
    /\ th.pc \in {"prime_loop", "prime_next", "prime_on"} => ~ uartInt
    /\ ~ raced =>
        /\ \A k \in 1 .. Len(sent) : sent[k] = k
        /\ th.pc = "begin_tx" => Len(sent) = th.written /\ txReadIndex = 0
        /\ th.pc # "begin_tx" =>
             /\ Len(sent) + TxUsed = IF th.pc = "prime_next" THEN th.written + 1 ELSE th.written
             /\ \A k \in 1 .. TxUsed : TxContents[k] = th.written - TxUsed + k
        /\ th.pc \notin Sending \cup {"begin_tx"} => TX_BUFFER_EMPTY
        /\ th.pc = "write_next" => txBuffer[txWriteIndex] = th.written + 1
        /\ th.pc = "prime_next" => ~ TX_BUFFER_EMPTY

\* The receive ring while the sketch is in read(), available() or flushAll:
\* the interrupt only adds behind what is there.
RxInv ==
    /\ th.pc \in {"read_load", "read_next"} => ~ RX_BUFFER_EMPTY
    /\ th.pc = "read_next" => th.c = rxBuffer[rxReadIndex]
    /\ th.pc = "avail_lt" => rxWriteIndex < rxReadIndex
    /\ th.pc \in {"avail_ge", "avail_lt"} /\ th.some => ~ RX_BUFFER_EMPTY
    /\ th.pc \in {"begin_rxw", "begin_int"} => rxReadIndex = 0
    /\ th.pc = "begin_int" /\ ~ raced => rxWriteIndex = 0

IInv == TypeOK /\ TxInv /\ RxInv /\ AvailableSound

-----------------------------------------------------------------------------
(* Rings.                                                                  *)

LEMMA UsedRange ==
    ASSUME NEW n \in Nat \ {0, 1}, NEW r \in 0 .. n - 1, NEW w \in 0 .. n - 1
    PROVE  Used(r, w, n) \in 0 .. n - 1 /\ (Used(r, w, n) = 0 <=> r = w)
  BY DEF Used

LEMMA NextRange ==
    ASSUME NEW n \in Nat \ {0, 1}, NEW i \in 0 .. n - 1
    PROVE  (i + 1) % n \in 0 .. n - 1
<1>1. PICK a \in Nat : a = i + 1
  OBVIOUS
<1>2. a % n \in 0 .. n - 1
  BY Quotient
<1> QED
  BY <1>1, <1>2

\* m characters more.
LEMMA UsedAdd ==
    ASSUME NEW n \in Nat \ {0, 1}, NEW r \in 0 .. n - 1, NEW w \in 0 .. n - 1,
           NEW m \in Nat, m + Used(r, w, n) <= n - 1
    PROVE  /\ (w + m) % n = IF w + m < n THEN w + m ELSE w + m - n
           /\ (w + m) % n \in 0 .. n - 1
           /\ Used(r, (w + m) % n, n) = Used(r, w, n) + m
<1>1. m <= n - 1
  BY UsedRange
<1>2. (w + m) % n = IF w + m < n THEN w + m ELSE w + m - n
  <2>1. PICK a \in Nat : a = w + m /\ a < n + n
    BY <1>1
  <2>2. a % n = IF a < n THEN a ELSE a - n
    BY Zenon, <2>1, ModOnce
  <2> QED
    BY <2>1, <2>2
<1> QED
  BY <1>1, <1>2 DEF Used

\* One less.
LEMMA UsedTake ==
    ASSUME NEW n \in Nat \ {0, 1}, NEW r \in 0 .. n - 1, NEW w \in 0 .. n - 1, r # w
    PROVE  /\ (r + 1) % n = IF r + 1 < n THEN r + 1 ELSE 0
           /\ (r + 1) % n \in 0 .. n - 1
           /\ Used((r + 1) % n, w, n) = Used(r, w, n) - 1
<1>1. (r + 1) % n = IF r + 1 < n THEN r + 1 ELSE 0
  <2>1. PICK a \in Nat : a = r + 1 /\ a < n + n
    OBVIOUS
  <2>2. a % n = IF a < n THEN a ELSE a - n
    BY Zenon, <2>1, ModOnce
  <2> QED
    BY <2>1, <2>2
<1> QED
  BY <1>1 DEF Used

\* The place of the k-th character from the read index.
LEMMA PlaceMod ==
    ASSUME NEW n \in Nat \ {0, 1}, NEW r \in 0 .. n - 1, NEW k \in 1 .. n
    PROVE  (r + k - 1) % n = IF r + k - 1 < n THEN r + k - 1 ELSE r + k - 1 - n
<1>1. PICK a \in Nat : a = r + k - 1 /\ a < n + n
  OBVIOUS
<1>2. a % n = IF a < n THEN a ELSE a - n
  BY Zenon, <1>1, ModOnce
<1> QED
  BY <1>1, <1>2

-----------------------------------------------------------------------------
(* Where the sketch is.                                                    *)

LEMMA GotoEffect ==
    ASSUME th \in Thread, NEW p \in PCs, Goto(p)
    PROVE  /\ th' \in Thread /\ th'.pc = p
           /\ th'.c = th.c /\ th'.n = th.n /\ th'.some = th.some /\ th'.written = th.written
  BY DEF Goto, Thread, PCs

LEMMA ReadLoadEffect ==
    ASSUME TypeOK, readLoad
    PROVE  /\ th' \in Thread /\ th'.pc = "read_next" /\ th'.c = rxBuffer[rxReadIndex]
           /\ th'.n = th.n /\ th'.some = th.some /\ th'.written = th.written
<1> DEFINE v == rxBuffer[rxReadIndex]
           u == [th EXCEPT !.pc = "read_next"]
<1>1. v \in Nat /\ th \in Thread
  BY Zenon DEF TypeOK
<1>2. th' = [u EXCEPT !.c = v]
  BY DEF readLoad
<1> HIDE DEF v
<1>3. u \in Thread /\ u.pc = "read_next" /\ u.n = th.n /\ u.some = th.some
      /\ u.written = th.written
  BY <1>1 DEF Thread, PCs
<1> HIDE DEF u
<1> QED
  BY <1>1, <1>2, <1>3 DEF Thread, v

LEMMA ReadNextEffect ==
    ASSUME TypeOK, readNext
    PROVE  /\ th' \in Thread /\ th'.pc = "idle"
           /\ th'.n = th.n /\ th'.some = th.some /\ th'.written = th.written
<1> DEFINE u == [th EXCEPT !.pc = "idle"]
<1>1. th \in Thread /\ th' = [u EXCEPT !.c = 0]
  BY DEF TypeOK, readNext
<1>2. u \in Thread /\ u.pc = "idle" /\ u.n = th.n /\ u.some = th.some
      /\ u.written = th.written
  BY <1>1 DEF Thread, PCs
<1> HIDE DEF u
<1> QED
  BY <1>1, <1>2 DEF Thread

LEMMA AvailableCompareEffect ==
    ASSUME TypeOK, availableCompare
    PROVE  /\ th' \in Thread /\ th'.c = th.c /\ th'.n = th.n /\ th'.written = th.written
           /\ th'.pc = IF rxWriteIndex >= rxReadIndex THEN "avail_ge" ELSE "avail_lt"
           /\ th'.some => ~ RX_BUFFER_EMPTY
<1> DEFINE p == IF rxWriteIndex >= rxReadIndex THEN "avail_ge" ELSE "avail_lt"
           u == [th EXCEPT !.pc = p]
           v == ~ RX_BUFFER_EMPTY
<1>1. th \in Thread /\ th' = [u EXCEPT !.some = v] /\ p \in PCs /\ v \in BOOLEAN
  BY DEF TypeOK, availableCompare, PCs
<1> HIDE DEF p, v
<1>2. u \in Thread /\ u.pc = p /\ u.c = th.c /\ u.n = th.n /\ u.written = th.written
  BY <1>1 DEF Thread
<1> HIDE DEF u
<1>3. /\ th' \in Thread /\ th'.pc = p /\ th'.c = th.c /\ th'.n = th.n
      /\ th'.written = th.written
  BY <1>1, <1>2 DEF Thread
<1>4. th'.some = v
  BY <1>1, <1>2 DEF Thread
<1> QED
  BY Zenon, <1>3, <1>4 DEF p, v

LEMMA AvailableReturnEffect ==
    ASSUME TypeOK, availableReturn
    PROVE  /\ th' \in Thread /\ th'.pc = "avail_ret" /\ th'.n = Difference
           /\ th'.c = th.c /\ th'.some = th.some /\ th'.written = th.written
<1> DEFINE u == [th EXCEPT !.pc = "avail_ret"]
           d == Difference
<1>0. d \in Int
  BY SizesAssumption DEF TypeOK, Difference
<1> HIDE DEF d
<1>1. th \in Thread /\ th' = [u EXCEPT !.n = d] /\ d \in Int
  BY <1>0 DEF TypeOK, availableReturn, d
<1>2. u \in Thread /\ u.pc = "avail_ret" /\ u.c = th.c /\ u.some = th.some
      /\ u.written = th.written
  BY <1>1 DEF Thread, PCs
<1> HIDE DEF u
<1> QED
  BY <1>1, <1>2 DEF Thread, d

LEMMA AvailableDoneEffect ==
    ASSUME TypeOK, availableDone
    PROVE  /\ th' \in Thread /\ th'.pc = "idle" /\ th'.c = th.c /\ th'.written = th.written
<1> DEFINE u == [th EXCEPT !.pc = "idle"]
           v == [u EXCEPT !.n = 0]
<1>1. th \in Thread /\ th' = [v EXCEPT !.some = FALSE]
  BY DEF TypeOK, availableDone
<1>2. u \in Thread /\ u.pc = "idle" /\ u.c = th.c /\ u.written = th.written
  BY <1>1 DEF Thread, PCs
<1> HIDE DEF u
<1>3. v \in Thread /\ v.pc = "idle" /\ v.c = th.c /\ v.written = th.written
  BY <1>2 DEF Thread
<1> HIDE DEF v
<1> QED
  BY Zenon, <1>1, <1>3 DEF Thread

LEMMA WriteNextEffect ==
    ASSUME TypeOK, writeNext
    PROVE  /\ th' \in Thread /\ th'.pc = "write_prime" /\ th'.written = th.written + 1
           /\ th'.c = th.c /\ th'.n = th.n /\ th'.some = th.some
<1> DEFINE u == [th EXCEPT !.pc = "write_prime"]
           k == th.written + 1
<1>1. th \in Thread /\ k \in Nat
  BY DEF TypeOK, Thread
<1>2. u \in Thread /\ u.pc = "write_prime" /\ u.c = th.c /\ u.n = th.n
      /\ u.some = th.some /\ u.written = th.written
  BY <1>1 DEF Thread, PCs
<1>3. th' = [u EXCEPT !.written = k]
  BY <1>1, <1>2 DEF writeNext, Thread
<1> HIDE DEF u, k
<1> QED
  BY <1>1, <1>2, <1>3 DEF Thread, k

-----------------------------------------------------------------------------
(* Types.                                                                  *)

\* A step of the sketch that moves it on and leaves the rings and the UART.
LEMMA MoveTypeOK ==
    ASSUME TypeOK, th' \in Thread, UNCHANGED <<rx, tx, uart, got, hist>>
    PROVE  TypeOK'
  BY DEF TypeOK, rx, tx, uart, hist

LEMMA SketchTypeOK ==
    ASSUME TypeOK, Calls \/ CallSteps
    PROVE  TypeOK'
<1> USE SizesAssumption, FifosAssumption DEF rx, tx, uart, hist
<1>1. th \in Thread
  BY DEF TypeOK
<1>2. CASE endCall \/ readCheck \/ writeCall \/ flushCall \/ flush \/ writePrime \/ primeCheck
  <2>1. \E p \in PCs : Goto(p)
    BY <1>2 DEF endCall, readCheck, writeCall, flushCall, flush, writePrime, primeCheck, PCs
  <2>2. th' \in Thread
    BY <1>1, <2>1, GotoEffect
  <2>3. UNCHANGED <<rx, tx, uart, got, hist>>
    BY <1>2 DEF endCall, readCheck, writeCall, flushCall, flush, writePrime, primeCheck
  <2> QED
    BY <2>2, <2>3, MoveTypeOK
<1>3. CASE readLoad \/ availableCompare \/ availableReturn \/ availableDone
  <2>1. th' \in Thread
    BY <1>3, ReadLoadEffect, AvailableCompareEffect, AvailableReturnEffect, AvailableDoneEffect
  <2>2. UNCHANGED <<rx, tx, uart, got, hist>>
    BY <1>3 DEF readLoad, availableCompare, availableReturn, availableDone
  <2> QED
    BY <2>1, <2>2, MoveTypeOK
<1>4. CASE begin
  <2>1. th' \in Thread
    BY <1>1, <1>4, GotoEffect DEF begin, PCs
  <2> QED
    BY <1>4, <2>1 DEF begin, TypeOK
<1>5. CASE beginFlush \/ beginFlushTx \/ beginFlushRead \/ beginFlushWrite \/ flushAll
  <2>1. \E p \in PCs : Goto(p)
    BY <1>5 DEF beginFlush, beginFlushTx, beginFlushRead, beginFlushWrite, flushAll, PCs
  <2>2. th' \in Thread
    BY <1>1, <2>1, GotoEffect
  <2>3. /\ UNCHANGED <<rxBuffer, txBuffer, uart, got, hist>>
        /\ rxReadIndex' \in {rxReadIndex, 0} /\ rxWriteIndex' \in {rxWriteIndex, 0}
        /\ txReadIndex' \in {txReadIndex, 0} /\ txWriteIndex' \in {txWriteIndex, 0}
    BY <1>5 DEF beginFlush, beginFlushTx, beginFlushRead, beginFlushWrite, flushAll
  <2>4. /\ rxReadIndex' \in 0 .. rxBufferSize - 1 /\ rxWriteIndex' \in 0 .. rxBufferSize - 1
        /\ txReadIndex' \in 0 .. txBufferSize - 1 /\ txWriteIndex' \in 0 .. txBufferSize - 1
    <3>1. 0 \in 0 .. rxBufferSize - 1 /\ 0 \in 0 .. txBufferSize - 1
      OBVIOUS
    <3>2. /\ rxReadIndex \in 0 .. rxBufferSize - 1 /\ rxWriteIndex \in 0 .. rxBufferSize - 1
          /\ txReadIndex \in 0 .. txBufferSize - 1 /\ txWriteIndex \in 0 .. txBufferSize - 1
      BY DEF TypeOK
    <3> QED
      BY <2>3, <3>1, <3>2
  <2>5. UNCHANGED <<rxBuffer, txBuffer, uart, got, hist>>
    BY <2>3
  <2> QED
    BY Zenon, <2>2, <2>4, <2>5 DEF TypeOK
<1>6. CASE beginEnable \/ endDisable \/ primeDisable \/ primeEnable \/ writeIntEnable
  <2>1. \E p \in PCs : Goto(p)
    BY <1>6 DEF beginEnable, endDisable, primeDisable, primeEnable, writeIntEnable, PCs
  <2>2. th' \in Thread
    BY <1>1, <2>1, GotoEffect
  <2>3. uartInt' \in BOOLEAN /\ rxMask' \in BOOLEAN /\ txMask' \in BOOLEAN
    BY Zenon, <1>6 DEF beginEnable, endDisable, primeDisable, primeEnable, writeIntEnable, TypeOK
  <2>4. /\ UNCHANGED <<rxReadIndex, rxWriteIndex, txReadIndex, txWriteIndex, rxLine, txLine,
                       got, hist>>
    BY <1>6 DEF beginEnable, endDisable, primeDisable, primeEnable, writeIntEnable
  <2>5. /\ rxBuffer' \in [0 .. rxBufferSize - 1 -> Nat]
        /\ txBuffer' \in [0 .. txBufferSize - 1 -> Nat]
    <3>1. CASE beginEnable
      BY <3>1 DEF beginEnable
    <3>2. CASE ~ beginEnable
      <4>1. UNCHANGED <<rxBuffer, txBuffer>>
        BY <1>6, <3>2 DEF endDisable, primeDisable, primeEnable, writeIntEnable
      <4> QED
        BY <4>1 DEF TypeOK
    <3> QED
      BY <3>1, <3>2
  <2> QED
    BY Zenon, <2>2, <2>3, <2>4, <2>5 DEF TypeOK
<1>7. CASE readNext
  <2>1. th' \in Thread
    BY <1>7, ReadNextEffect
  <2>2. rxReadIndex' \in 0 .. rxBufferSize - 1
    BY Zenon, <1>7, NextRange DEF readNext, NextRx, TypeOK
  <2>3. got' \in Nat
    BY <1>1, <1>7 DEF readNext, Thread
  <2> QED
    BY Zenon, <1>7, <2>1, <2>2, <2>3 DEF readNext, TypeOK
<1>8. CASE writeStore
  <2>1. th' \in Thread
    BY <1>1, <1>8, GotoEffect DEF writeStore, PCs
  <2>2. txBuffer' \in [0 .. txBufferSize - 1 -> Nat]
    <3>1. th.written + 1 \in Nat
      BY <1>1 DEF Thread
    <3> QED
      BY <1>8, <3>1 DEF writeStore, TypeOK
  <2> QED
    BY Zenon, <1>8, <2>1, <2>2 DEF writeStore, TypeOK
<1>9. CASE writeNext
  <2>1. th' \in Thread
    BY <1>9, WriteNextEffect
  <2>2. txWriteIndex' \in 0 .. txBufferSize - 1
    BY <1>9, NextRange DEF writeNext, NextTx, TypeOK
  <2> QED
    BY Zenon, <1>9, <2>1, <2>2 DEF writeNext, TypeOK
<1>10. CASE primePut
  <2>1. \E p \in PCs : Goto(p)
    BY <1>10 DEF primePut, PCs
  <2>2. th' \in Thread
    BY <1>1, <2>1, GotoEffect
  <2>3. txLine' \in 0 .. TxFifo
    BY SMTT(60), <1>10 DEF primePut, TypeOK
  <2>4. sent' \in Seq(Nat)
    <3>1. txBuffer[txReadIndex] \in Nat /\ sent \in Seq(Nat)
      BY DEF TypeOK
    <3> QED
      BY SMTT(60), <1>10, <3>1 DEF primePut
  <2>5. UNCHANGED <<rx, tx, rxLine, uartInt, rxMask, txMask, got, arrived, raced>>
    BY <1>10 DEF primePut
  <2> QED
    BY <2>2, <2>3, <2>4, <2>5 DEF TypeOK
<1>11. CASE primeNext
  <2>1. th' \in Thread
    BY <1>1, <1>11, GotoEffect DEF primeNext, PCs
  <2>2. txReadIndex' \in 0 .. txBufferSize - 1
    BY <1>11, NextRange DEF primeNext, NextTx, TypeOK
  <2> QED
    BY Zenon, <1>11, <2>1, <2>2 DEF primeNext, TypeOK
<1> QED
  BY <1>2, <1>3, <1>4, <1>5, <1>6, <1>7, <1>8, <1>9, <1>10, <1>11 DEF Calls, CallSteps

\* What the receive loop does to the ring: it puts m characters behind those
\* that are there, and moves none of these.
LEMMA ReceiveEffect ==
    ASSUME TypeOK, ReceiveLoop
    PROVE  \E m \in Nat :
              /\ m <= Len(rxLine) /\ m + RxUsed <= rxBufferSize - 1
              /\ rxReadIndex' = rxReadIndex
              /\ rxWriteIndex' \in 0 .. rxBufferSize - 1
              /\ RxUsed' = RxUsed + m
              /\ rxBuffer' \in [0 .. rxBufferSize - 1 -> Nat]
              /\ \A k \in 1 .. RxUsed : RxContents'[k] = RxContents[k]
              /\ \A k \in 1 .. m : RxContents'[RxUsed + k] = rxLine[k]
              /\ \/ m = Len(rxLine) /\ rxLine' = SubSeq(rxLine, m + 1, Len(rxLine))
                 \/ /\ m < Len(rxLine) /\ m + RxUsed = rxBufferSize - 1
                    /\ rxLine' = SubSeq(rxLine, m + 2, Len(rxLine))
              /\ rxWriteIndex' = IF rxWriteIndex + m < rxBufferSize THEN rxWriteIndex + m
                                 ELSE rxWriteIndex + m - rxBufferSize
<1> DEFINE n == rxBufferSize
           r == rxReadIndex
           w == rxWriteIndex
           full == Len(rxLine) > RxRoom
           m == IF full THEN RxRoom ELSE Len(rxLine)
           kk(i) == IF i >= w THEN i - w + 1 ELSE i - w + n + 1
<1>1. n \in Nat \ {0, 1} /\ r \in 0 .. n - 1 /\ w \in 0 .. n - 1
  BY SizesAssumption DEF TypeOK
<1>2. RxUsed = Used(r, w, n) /\ RxUsed \in 0 .. n - 1
  BY <1>1, UsedRange DEF RxUsed
<1>3. Len(rxLine) \in Nat /\ RxRoom \in Nat /\ RxRoom = n - 1 - RxUsed
  <2>1. Len(rxLine) \in Nat
    BY DEF TypeOK
  <2>2. RxRoom \in Nat /\ RxRoom = n - 1 - RxUsed
    BY <1>1, <1>2 DEF RxRoom
  <2> QED
    BY <2>1, <2>2
<1>4. m \in Nat /\ m <= Len(rxLine) /\ m + RxUsed <= n - 1
  BY <1>1, <1>2, <1>3
<1>5. /\ rxBuffer' = [i \in 0 .. n - 1 |-> IF kk(i) <= m THEN rxLine[kk(i)] ELSE rxBuffer[i]]
      /\ rxWriteIndex' = (w + m) % n
      /\ rxLine' = SubSeq(rxLine, IF full THEN m + 2 ELSE m + 1, Len(rxLine))
      /\ rxReadIndex' = r
  BY DEF ReceiveLoop
<1>6. \/ m = Len(rxLine) /\ rxLine' = SubSeq(rxLine, m + 1, Len(rxLine))
      \/ /\ m < Len(rxLine) /\ m + RxUsed = n - 1
         /\ rxLine' = SubSeq(rxLine, m + 2, Len(rxLine))
  <2>1. CASE full
    <3>1. m = RxRoom /\ m < Len(rxLine)
      BY <1>3, <2>1
    <3>2. rxLine' = SubSeq(rxLine, m + 2, Len(rxLine))
      BY Zenon, <1>5, <2>1
    <3>3. m + RxUsed = n - 1
      BY <1>1, <1>2, <1>3, <3>1
    <3> QED
      BY <3>1, <3>2, <3>3
  <2>2. CASE ~ full
    BY <1>5, <2>2
  <2> QED
    BY <2>1, <2>2
<1> HIDE DEF m, full
<1>7. /\ rxWriteIndex' = IF w + m < n THEN w + m ELSE w + m - n
      /\ rxWriteIndex' \in 0 .. n - 1 /\ RxUsed' = RxUsed + m
  BY <1>1, <1>2, <1>4, <1>5, UsedAdd DEF RxUsed
<1>8. \A i \in 0 .. n - 1 : kk(i) \in 1 .. n
  BY <1>1
<1>9. rxBuffer' \in [0 .. n - 1 -> Nat]
  <2>1. ASSUME NEW i \in 0 .. n - 1
        PROVE  (IF kk(i) <= m THEN rxLine[kk(i)] ELSE rxBuffer[i]) \in Nat
    <3>1. CASE kk(i) <= m
      <4>1. PICK j \in 1 .. Len(rxLine) : j = kk(i)
        BY <1>3, <1>4, <1>8, <3>1
      <4>2. rxLine[j] \in Nat
        BY DEF TypeOK
      <4> QED
        BY <3>1, <4>1, <4>2
    <3>2. CASE ~ kk(i) <= m
      BY Zenon, <3>2 DEF TypeOK
    <3> QED
      BY <3>1, <3>2
  <2> QED
    BY <1>5, <2>1
<1>10. ASSUME NEW k \in 1 .. RxUsed + m
       PROVE  RxContents'[k] = IF k <= RxUsed THEN RxContents[k] ELSE rxLine[k - RxUsed]
  <2> DEFINE i == (r + k - 1) % n
  <2>1. k \in 1 .. n /\ k \in Nat
    BY <1>1, <1>2, <1>4
  <2>2. i = IF r + k - 1 < n THEN r + k - 1 ELSE r + k - 1 - n
    BY <1>1, <2>1, PlaceMod
  <2>3. RxContents'[k] = rxBuffer'[i]
    BY <1>5, <1>7 DEF RxContents
  <2>4. k <= RxUsed => RxContents[k] = rxBuffer[i]
    BY <1>2, <2>1 DEF RxContents
  <2> HIDE DEF i
  <2>5. i \in 0 .. n - 1
    BY <1>1, <2>1, <2>2
  <2>6. kk(i) = IF k <= RxUsed THEN n - RxUsed + k ELSE k - RxUsed
    BY <1>1, <1>2, <1>4, <2>1, <2>2, <2>5 DEF Used
  <2>7. rxBuffer'[i] = IF kk(i) <= m THEN rxLine[kk(i)] ELSE rxBuffer[i]
    BY <1>5, <2>5
  <2>8. CASE k <= RxUsed
    <3>1. ~ kk(i) <= m
      BY <1>1, <1>2, <1>4, <2>1, <2>6, <2>8
    <3> QED
      BY <2>3, <2>4, <2>7, <2>8, <3>1
  <2>9. CASE ~ k <= RxUsed
    <3>1. kk(i) <= m /\ kk(i) = k - RxUsed
      BY <1>2, <1>4, <2>1, <2>6, <2>9
    <3> QED
      BY <2>3, <2>7, <2>9, <3>1
  <2> QED
    BY <2>8, <2>9
<1>11. \A k \in 1 .. RxUsed : RxContents'[k] = RxContents[k]
  <2> TAKE k \in 1 .. RxUsed
  <2>1. k \in 1 .. RxUsed + m /\ k <= RxUsed
    BY <1>2, <1>4
  <2> QED
    BY <1>10, <2>1
<1>12. \A k \in 1 .. m : RxContents'[RxUsed + k] = rxLine[k]
  <2> TAKE k \in 1 .. m
  <2>1. PICK j \in 1 .. RxUsed + m : j = RxUsed + k /\ ~ j <= RxUsed /\ j - RxUsed = k
    BY <1>2, <1>4
  <2> QED
    BY <1>10, <2>1
<1> QED
  BY <1>4, <1>5, <1>6, <1>7, <1>9, <1>11, <1>12

LEMMA RingChars ==
    ASSUME NEW n \in Nat \ {0, 1}, NEW r \in 0 .. n - 1, NEW w \in 0 .. n - 1,
           NEW buf \in [0 .. n - 1 -> Nat]
    PROVE  \A k \in 1 .. Used(r, w, n) : buf[(r + k - 1) % n] \in Nat
<1>0. Used(r, w, n) \in 0 .. n - 1
  BY UsedRange
<1> TAKE k \in 1 .. Used(r, w, n)
<1>1. k \in 1 .. n
  BY <1>0
<1>2. (r + k - 1) % n = IF r + k - 1 < n THEN r + k - 1 ELSE r + k - 1 - n
  BY Zenon, <1>1, PlaceMod
<1>3. (r + k - 1) % n \in 0 .. n - 1
  BY <1>1, <1>2
<1> QED
  BY <1>3

LEMMA TxContentsSeq ==
    ASSUME TypeOK
    PROVE  /\ TxUsed \in 0 .. txBufferSize - 1
           /\ TxContents \in Seq(Nat) /\ Len(TxContents) = TxUsed
<1>1. /\ txBufferSize \in Nat \ {0, 1} /\ txReadIndex \in 0 .. txBufferSize - 1
      /\ txWriteIndex \in 0 .. txBufferSize - 1
      /\ txBuffer \in [0 .. txBufferSize - 1 -> Nat]
  BY SizesAssumption DEF TypeOK
<1>2. TxUsed \in 0 .. txBufferSize - 1
  BY <1>1, UsedRange DEF TxUsed
<1>3. \A k \in 1 .. TxUsed : txBuffer[(txReadIndex + k - 1) % txBufferSize] \in Nat
  BY <1>1, RingChars DEF TxUsed
<1> QED
  BY <1>2, <1>3 DEF TxContents

LEMMA RxContentsSeq ==
    ASSUME TypeOK
    PROVE  /\ RxUsed \in 0 .. rxBufferSize - 1
           /\ RxContents \in Seq(Nat) /\ Len(RxContents) = RxUsed
<1>1. /\ rxBufferSize \in Nat \ {0, 1} /\ rxReadIndex \in 0 .. rxBufferSize - 1
      /\ rxWriteIndex \in 0 .. rxBufferSize - 1
      /\ rxBuffer \in [0 .. rxBufferSize - 1 -> Nat]
  BY SizesAssumption DEF TypeOK
<1>2. RxUsed \in 0 .. rxBufferSize - 1
  BY <1>1, UsedRange DEF RxUsed
<1>3. \A k \in 1 .. RxUsed : rxBuffer[(rxReadIndex + k - 1) % rxBufferSize] \in Nat
  BY <1>1, RingChars DEF RxUsed
<1> QED
  BY <1>2, <1>3 DEF RxContents

LEMMA UartTypeOK ==
    ASSUME TypeOK, Arrive \/ Shift \/ Interrupt
    PROVE  TypeOK'
<1> USE SizesAssumption, FifosAssumption DEF rx, tx, uart, hist
<1>1. CASE Arrive
  <2>1. rxLine' \in Seq(Nat) /\ Len(rxLine') <= RxFifo /\ arrived' \in Nat
    BY <1>1 DEF Arrive, TypeOK
  <2> QED
    BY <1>1, <2>1 DEF Arrive, TypeOK
<1>2. CASE Shift
  BY <1>2 DEF Shift, TypeOK
<1>3. ASSUME NEW t \in BOOLEAN, NEW r \in BOOLEAN, UARTIntHandler(t, r)
      PROVE  TypeOK'
  <2>1. /\ UNCHANGED <<uartInt, rxMask, th, got, arrived, txBuffer, txWriteIndex>>
        /\ txReadIndex' = txWriteIndex
    BY <1>3 DEF UARTIntHandler, primeTransmit
  <2>2. raced' \in BOOLEAN /\ txMask' \in BOOLEAN
    BY <1>3 DEF UARTIntHandler
  <2>3. sent' \in Seq(Nat)
    <3>1. sent \in Seq(Nat) /\ TxContents \in Seq(Nat)
      BY TxContentsSeq DEF TypeOK
    <3> QED
      BY <1>3, <3>1 DEF UARTIntHandler, primeTransmit
  <2>4. txLine' \in 0 .. TxFifo
    BY SMTT(60), <1>3 DEF UARTIntHandler, primeTransmit, TypeOK
  <2>5. /\ rxBuffer' \in [0 .. rxBufferSize - 1 -> Nat]
        /\ rxReadIndex' = rxReadIndex /\ rxWriteIndex' \in 0 .. rxBufferSize - 1
    <3>1. CASE r
      BY <1>3, <3>1, ReceiveEffect DEF UARTIntHandler
    <3>2. CASE ~ r
      BY <1>3, <3>2 DEF UARTIntHandler, TypeOK
    <3> QED
      BY <3>1, <3>2
  <2>6. rxLine' \in Seq(Nat) /\ Len(rxLine') <= RxFifo
    <3>1. rxLine \in Seq(Nat) /\ Len(rxLine) \in Nat /\ Len(rxLine) <= RxFifo
      BY DEF TypeOK
    <3>2. CASE r
      <4>1. PICK m \in Nat :
               /\ m <= Len(rxLine)
               /\ \/ rxLine' = SubSeq(rxLine, m + 1, Len(rxLine))
                  \/ m < Len(rxLine) /\ rxLine' = SubSeq(rxLine, m + 2, Len(rxLine))
        BY <1>3, <3>2, ReceiveEffect DEF UARTIntHandler
      <4>2. \A a \in 1 .. Len(rxLine) + 1 :
               /\ SubSeq(rxLine, a, Len(rxLine)) \in Seq(Nat)
               /\ Len(SubSeq(rxLine, a, Len(rxLine))) <= Len(rxLine)
        BY <3>1
      <4>3. m + 1 \in 1 .. Len(rxLine) + 1 /\ (m < Len(rxLine) => m + 2 \in 1 .. Len(rxLine) + 1)
        BY <3>1, <4>1
      <4>4. PICK a \in 1 .. Len(rxLine) + 1 : rxLine' = SubSeq(rxLine, a, Len(rxLine))
        BY Zenon, <4>1, <4>3
      <4>5. rxLine' \in Seq(Nat) /\ Len(rxLine') <= Len(rxLine)
        BY <4>2, <4>4
      <4>6. Len(rxLine') \in Nat
        BY <4>5
      <4> QED
        BY <3>1, <4>5, <4>6, FifosAssumption
    <3>3. CASE ~ r
      BY <1>3, <3>1, <3>3 DEF UARTIntHandler
    <3> QED
      BY <3>2, <3>3
  <2> QED
    BY Zenon, <2>1, <2>2, <2>3, <2>4, <2>5, <2>6 DEF TypeOK
<1> QED
  BY <1>1, <1>2, <1>3 DEF Interrupt

-----------------------------------------------------------------------------
(* The transmit ring.                                                      *)

\* A step that leaves the ring alone, or only the buffer of an empty one.
LEMMA TxFrame ==
    ASSUME TypeOK, TxInv, UNCHANGED <<txReadIndex, txWriteIndex, sent, raced>>,
           txBuffer' = txBuffer \/ th.pc \notin Sending,
           th'.written = th.written,
           th'.pc \in {"prime_loop", "prime_next", "prime_on"} => ~ uartInt',
           th.pc \notin {"begin_tx", "prime_next"},
           th'.pc \notin {"begin_tx", "prime_next", "write_next"},
           th'.pc \notin Sending => th.pc \notin Sending \/ TX_BUFFER_EMPTY
    PROVE  TxInv'
<1>1. TxUsed' = TxUsed
  BY DEF TxUsed, Used
<1>2. TX_BUFFER_EMPTY' <=> TX_BUFFER_EMPTY
  BY DEF TX_BUFFER_EMPTY
<1> SUFFICES ASSUME ~ raced
             PROVE  TxInv'
  BY DEF TxInv
<1>3. th.pc \notin Sending => TX_BUFFER_EMPTY
  BY DEF TxInv
<1>4. TX_BUFFER_EMPTY => TxUsed = 0
  BY UsedRange, SizesAssumption DEF TX_BUFFER_EMPTY, TxUsed, TypeOK
<1>5. \A k \in 1 .. TxUsed : TxContents'[k] = TxContents[k]
  <2>1. CASE TX_BUFFER_EMPTY
    BY <1>4, <2>1
  <2>2. CASE ~ TX_BUFFER_EMPTY
    BY <1>1, <1>3, <2>2 DEF TxContents
  <2> QED
    BY <2>1, <2>2
<1>6. /\ \A k \in 1 .. Len(sent) : sent[k] = k
      /\ Len(sent) + TxUsed = th.written
      /\ \A k \in 1 .. TxUsed : TxContents[k] = th.written - TxUsed + k
  BY DEF TxInv
<1>7. \A k \in 1 .. TxUsed' : TxContents'[k] = th'.written - TxUsed' + k
  BY <1>1, <1>5, <1>6
<1> QED
  BY <1>1, <1>2, <1>3, <1>6, <1>7 DEF TxInv

LEMMA TxSketch ==
    ASSUME IInv, Calls \/ CallSteps
    PROVE  TxInv'
<1> USE SizesAssumption DEF rx, tx, uart, hist
<1>1. TypeOK /\ TxInv /\ th \in Thread
  BY DEF IInv, TypeOK
<1>2. CASE endCall \/ readCheck \/ writeCall \/ flushCall \/ flush \/ writePrime \/ primeCheck
           \/ begin \/ beginFlushRead \/ beginFlushWrite
  <2>1. PICK p \in PCs : Goto(p) /\ p \in {"end", "read_load", "write_store", "flush", "idle",
            "prime", "write_int", "prime_off", "begin", "begin_rxw", "begin_int"}
            /\ (p \notin Sending => th.pc \notin Sending \/ TX_BUFFER_EMPTY)
    BY <1>2 DEF endCall, readCheck, writeCall, flushCall, flush, writePrime, primeCheck,
                begin, beginFlushRead, beginFlushWrite, PCs, Sending
  <2>2. th'.pc = p /\ th'.written = th.written
    BY <1>1, <2>1, GotoEffect
  <2>3. th.pc \notin {"begin_tx", "prime_next"} /\ UNCHANGED <<tx, sent, raced>>
    BY <1>2 DEF endCall, readCheck, writeCall, flushCall, flush, writePrime, primeCheck,
                begin, beginFlushRead, beginFlushWrite
  <2> QED
    BY <1>1, <2>1, <2>2, <2>3, TxFrame
<1>3. CASE readLoad \/ readNext \/ availableCompare \/ availableReturn \/ availableDone
  <2>1. th'.pc \in {"read_next", "idle", "avail_ge", "avail_lt", "avail_ret"}
        /\ th'.written = th.written
    BY <1>1, <1>3, ReadLoadEffect, ReadNextEffect, AvailableCompareEffect,
       AvailableReturnEffect, AvailableDoneEffect
  <2>2. th.pc \in {"idle", "read_load", "read_next", "avail_ge", "avail_lt", "avail_ret"}
        /\ UNCHANGED <<tx, sent, raced>>
    BY <1>3 DEF readLoad, readNext, availableCompare, availableReturn, availableDone
  <2>3. th.pc \notin Sending
    BY <2>2 DEF Sending
  <2> QED
    BY <1>1, <2>1, <2>2, <2>3, TxFrame
<1>4. CASE beginEnable \/ endDisable \/ primeDisable \/ primeEnable \/ writeIntEnable
  <2>1. PICK p \in PCs : Goto(p) /\ p \in {"idle", "prime_loop", "write_int"}
            /\ (p = "prime_loop" => ~ uartInt' /\ th.pc = "prime_off" /\ tx' = tx)
            /\ (p # "prime_loop" => th.pc \in {"begin_int", "ended", "prime_on", "write_int"})
    BY <1>4 DEF beginEnable, endDisable, primeDisable, primeEnable, writeIntEnable, PCs
  <2>2. th'.pc = p /\ th'.written = th.written
    BY <1>1, <2>1, GotoEffect
  <2>3. UNCHANGED <<txReadIndex, txWriteIndex, sent, raced>>
    BY <1>4 DEF beginEnable, endDisable, primeDisable, primeEnable, writeIntEnable
  <2> QED
    BY <1>1, <2>1, <2>2, <2>3, TxFrame DEF Sending
<1>5. CASE beginFlush
  <2>1. /\ th.pc = "begin" /\ txReadIndex' = 0 /\ UNCHANGED <<sent, raced>>
        /\ th'.pc = "begin_tx" /\ th'.written = th.written
    BY <1>1, <1>5, GotoEffect DEF beginFlush, PCs
  <2>2. ~ raced => /\ TX_BUFFER_EMPTY
                   /\ Len(sent) + TxUsed = th.written
                   /\ \A k \in 1 .. Len(sent) : sent[k] = k
    BY <1>1, <2>1 DEF TxInv, Sending
  <2>3. TX_BUFFER_EMPTY => TxUsed = 0
    BY <1>1, UsedRange DEF TX_BUFFER_EMPTY, TxUsed, TypeOK
  <2>4. ~ raced => Len(sent) = th.written
    BY <1>1, <2>2, <2>3 DEF TypeOK
  <2> QED
    BY <2>1, <2>2, <2>4 DEF TxInv, Sending
<1>6. CASE beginFlushTx \/ flushAll
  <2>1. /\ txWriteIndex' = 0 /\ UNCHANGED <<sent, raced>>
        /\ th'.pc \in {"begin_rx", "ended"} /\ th'.written = th.written
        /\ \/ th.pc = "begin_tx" /\ txReadIndex' = txReadIndex
           \/ th.pc = "end" /\ txReadIndex' = 0
    BY <1>1, <1>6, GotoEffect DEF beginFlushTx, flushAll, PCs
  <2>2. ~ raced => txReadIndex' = 0
    BY <1>1, <2>1 DEF TxInv
  <2>3. ~ raced => TxUsed' = 0 /\ TX_BUFFER_EMPTY'
    BY <2>1, <2>2 DEF TxUsed, Used, TX_BUFFER_EMPTY
  <2>4. TX_BUFFER_EMPTY => TxUsed = 0
    BY <1>1, UsedRange DEF TX_BUFFER_EMPTY, TxUsed, TypeOK
  <2>5. ~ raced => Len(sent) = th.written /\ \A k \in 1 .. Len(sent) : sent[k] = k
    BY <1>1, <2>1, <2>4 DEF TxInv, Sending, TypeOK
  <2>6. th'.written \in Nat
    BY <1>1, <2>1 DEF Thread
  <2> QED
    BY <2>1, <2>3, <2>5, <2>6 DEF TxInv, Sending
<1>7. CASE writeStore
  <2>1. /\ th.pc = "write_store" /\ txBuffer' = [txBuffer EXCEPT ![txWriteIndex] = th.written + 1]
        /\ UNCHANGED <<txReadIndex, txWriteIndex, sent, raced>>
        /\ th'.pc = "write_next" /\ th'.written = th.written
    BY <1>1, <1>7, GotoEffect DEF writeStore, PCs
  <2>2. ~ raced => /\ TX_BUFFER_EMPTY
                   /\ Len(sent) + TxUsed = th.written
                   /\ \A k \in 1 .. Len(sent) : sent[k] = k
    BY <1>1, <2>1 DEF TxInv, Sending
  <2>3. TX_BUFFER_EMPTY => TxUsed = 0
    BY <1>1, UsedRange DEF TX_BUFFER_EMPTY, TxUsed, TypeOK
  <2>4. TxUsed' = TxUsed /\ (TX_BUFFER_EMPTY' <=> TX_BUFFER_EMPTY)
    BY <2>1 DEF TxUsed, Used, TX_BUFFER_EMPTY
  <2>5. txBuffer'[txWriteIndex'] = th'.written + 1
    BY <1>1, <2>1 DEF TypeOK
  <2> QED
    BY <2>1, <2>2, <2>3, <2>4, <2>5 DEF TxInv, Sending
<1>8. CASE writeNext
  <2>1. /\ th.pc = "write_next" /\ txWriteIndex' = (txWriteIndex + 1) % txBufferSize
        /\ UNCHANGED <<txReadIndex, txBuffer, sent, raced>>
        /\ th'.pc = "write_prime" /\ th'.written = th.written + 1
    BY <1>1, <1>8, WriteNextEffect DEF writeNext, NextTx
  <2> SUFFICES ASSUME ~ raced
               PROVE  TxInv'
    BY <2>1 DEF TxInv
  <2>2. /\ txReadIndex = txWriteIndex
        /\ Len(sent) + TxUsed = th.written
        /\ \A k \in 1 .. Len(sent) : sent[k] = k
        /\ txBuffer[txWriteIndex] = th.written + 1
    BY <1>1, <2>1 DEF TxInv, Sending, TX_BUFFER_EMPTY
  <2>3. /\ txReadIndex \in 0 .. txBufferSize - 1 /\ txWriteIndex \in 0 .. txBufferSize - 1
        /\ Len(sent) \in Nat /\ th.written \in Nat
    BY <1>1 DEF TypeOK, Thread
  <2>4. TxUsed = 0
    BY <2>2, <2>3, UsedRange DEF TxUsed
  <2>u. TxUsed' = Used(txReadIndex', txWriteIndex', txBufferSize)
    BY DEF TxUsed, Used
  <2>v. Used(txReadIndex, (txWriteIndex + 1) % txBufferSize, txBufferSize) = 1
    BY <2>3, <2>4, UsedAdd DEF TxUsed
  <2>5. TxUsed' = 1
    BY <2>1, <2>u, <2>v
  <2>6. TxContents'[1] = th.written + 1
    <3>1. txReadIndex + 1 - 1 = txReadIndex /\ txReadIndex % txBufferSize = txReadIndex
      BY <2>3, ModSmall
    <3> QED
      BY <2>1, <2>2, <2>5, <3>1 DEF TxContents
  <2>7. \A k \in 1 .. TxUsed' : TxContents'[k] = th'.written - TxUsed' + k
    BY <2>1, <2>3, <2>5, <2>6
  <2> QED
    BY <2>1, <2>2, <2>3, <2>4, <2>5, <2>7 DEF TxInv, Sending
<1>9. CASE primePut
  <2>1. /\ th.pc = "prime_loop" /\ UNCHANGED <<txReadIndex, txWriteIndex, txBuffer, raced, uartInt>>
    BY <1>9 DEF primePut
  <2>2. CASE TX_BUFFER_EMPTY
    <3>1. th'.pc = "prime_on" /\ th'.written = th.written /\ sent' = sent
      BY <1>1, <1>9, <2>2, GotoEffect DEF primePut, PCs
    <3>2. ~ uartInt
      BY <1>1, <2>1 DEF TxInv
    <3> QED
      BY <1>1, <2>1, <2>2, <3>1, <3>2, TxFrame
  <2>3. CASE ~ TX_BUFFER_EMPTY
    <3>1. /\ th'.pc = "prime_next" /\ th'.written = th.written
          /\ sent' = IF raced THEN sent ELSE Append(sent, txBuffer[txReadIndex])
      BY <1>1, <1>9, <2>3, GotoEffect DEF primePut, PCs
    <3>2. ~ uartInt'
      BY <1>1, <2>1 DEF TxInv
    <3> SUFFICES ASSUME ~ raced
                 PROVE  TxInv'
      BY <2>1, <3>1, <3>2 DEF TxInv
    <3>3. /\ TxUsed' = TxUsed /\ TxContents' = TxContents
          /\ (TX_BUFFER_EMPTY' <=> TX_BUFFER_EMPTY)
      BY <2>1 DEF TxUsed, Used, TxContents, TX_BUFFER_EMPTY
    <3>4. /\ txReadIndex \in 0 .. txBufferSize - 1 /\ txWriteIndex \in 0 .. txBufferSize - 1
          /\ sent \in Seq(Nat) /\ Len(sent) \in Nat /\ th.written \in Nat
          /\ txBuffer[txReadIndex] \in Nat
      BY SMTT(60), <1>1 DEF TypeOK, Thread
    <3>5. TxUsed \in Nat \ {0}
      BY <2>3, <3>4, UsedRange DEF TxUsed, TX_BUFFER_EMPTY
    <3>6. /\ Len(sent) + TxUsed = th.written
          /\ \A k \in 1 .. Len(sent) : sent[k] = k
          /\ \A k \in 1 .. TxUsed : TxContents[k] = th.written - TxUsed + k
      BY <1>1, <2>1 DEF TxInv
    <3>7. TxContents[1] = txBuffer[txReadIndex]
      <4>1. txReadIndex + 1 - 1 = txReadIndex /\ txReadIndex % txBufferSize = txReadIndex
        BY <3>4, ModSmall
      <4> QED
        BY <3>5, <4>1 DEF TxContents
    <3>8. txBuffer[txReadIndex] = Len(sent) + 1
      BY <3>4, <3>5, <3>6, <3>7
    <3>9. Len(sent') = Len(sent) + 1 /\ \A k \in 1 .. Len(sent') : sent'[k] = k
      BY <3>1, <3>4, <3>6, <3>8
    <3>10. Len(sent') + TxUsed' = th'.written + 1
      BY <3>1, <3>3, <3>4, <3>5, <3>6, <3>9
    <3> QED
      BY <2>1, <2>3, <3>1, <3>2, <3>3, <3>6, <3>9, <3>10 DEF TxInv, Sending
  <2> QED
    BY <2>2, <2>3
<1>10. CASE primeNext
  <2>1. /\ th.pc = "prime_next" /\ txReadIndex' = (txReadIndex + 1) % txBufferSize
        /\ UNCHANGED <<txWriteIndex, txBuffer, sent, raced, uartInt>>
        /\ th'.pc = "prime_loop" /\ th'.written = th.written
    BY <1>1, <1>10, GotoEffect DEF primeNext, NextTx, PCs
  <2>2. ~ uartInt'
    BY <1>1, <2>1 DEF TxInv
  <2> SUFFICES ASSUME ~ raced
               PROVE  TxInv'
    BY <2>1, <2>2 DEF TxInv
  <2>3. /\ txReadIndex \in 0 .. txBufferSize - 1 /\ txWriteIndex \in 0 .. txBufferSize - 1
        /\ Len(sent) \in Nat /\ th.written \in Nat
    BY <1>1 DEF TypeOK, Thread
  <2>4. /\ txReadIndex # txWriteIndex
        /\ Len(sent) + TxUsed = th.written + 1
        /\ \A k \in 1 .. Len(sent) : sent[k] = k
        /\ \A k \in 1 .. TxUsed : TxContents[k] = th.written - TxUsed + k
    BY <1>1, <2>1 DEF TxInv, TX_BUFFER_EMPTY
  <2>u. TxUsed' = Used(txReadIndex', txWriteIndex', txBufferSize)
    BY DEF TxUsed, Used
  <2>v. TxUsed = Used(txReadIndex, txWriteIndex, txBufferSize)
    BY DEF TxUsed
  <2>5. /\ TxUsed \in 0 .. txBufferSize - 1 /\ TxUsed' = TxUsed - 1
        /\ txReadIndex' = IF txReadIndex + 1 < txBufferSize THEN txReadIndex + 1 ELSE 0
        /\ txReadIndex' \in 0 .. txBufferSize - 1
    BY <2>1, <2>u, <2>v, <2>3, <2>4, UsedRange, UsedTake
  <2>6. ASSUME NEW k \in 1 .. TxUsed'
        PROVE  TxContents'[k] = TxContents[k + 1] /\ k + 1 \in 1 .. TxUsed
    <3>1. k \in 1 .. txBufferSize /\ k + 1 \in 1 .. txBufferSize /\ k + 1 \in 1 .. TxUsed
      BY <2>5
    <3>2. (txReadIndex' + k - 1) % txBufferSize =
             IF txReadIndex' + k - 1 < txBufferSize THEN txReadIndex' + k - 1
             ELSE txReadIndex' + k - 1 - txBufferSize
      BY <2>5, <3>1, PlaceMod
    <3>3. (txReadIndex + (k + 1) - 1) % txBufferSize =
             IF txReadIndex + (k + 1) - 1 < txBufferSize THEN txReadIndex + (k + 1) - 1
             ELSE txReadIndex + (k + 1) - 1 - txBufferSize
      BY <2>3, <3>1, PlaceMod
    <3>4. (txReadIndex' + k - 1) % txBufferSize = (txReadIndex + (k + 1) - 1) % txBufferSize
      BY <2>3, <2>5, <3>1, <3>2, <3>3
    <3> QED
      BY <2>1, <3>1, <3>4 DEF TxContents
  <2>7. ASSUME NEW k \in 1 .. TxUsed'
        PROVE  TxContents'[k] = th'.written - TxUsed' + k
    <3>1. TxContents'[k] = TxContents[k + 1] /\ k + 1 \in 1 .. TxUsed
      BY <2>6
    <3>2. TxContents[k + 1] = th.written - TxUsed + (k + 1)
      BY <2>4, <3>1
    <3> QED
      BY <2>1, <2>3, <2>5, <3>1, <3>2
  <2> QED
    BY <2>1, <2>2, <2>3, <2>4, <2>5, <2>7 DEF TxInv, Sending
<1> QED
  BY <1>2, <1>3, <1>4, <1>5, <1>6, <1>7, <1>8, <1>9, <1>10 DEF Calls, CallSteps

LEMMA ConcatNat ==
    ASSUME NEW s \in Seq(Nat), NEW u \in Seq(Nat)
    PROVE  /\ Len(s \o u) = Len(s) + Len(u)
           /\ \A k \in 1 .. Len(s) : (s \o u)[k] = s[k]
           /\ \A k \in 1 .. Len(u) : (s \o u)[Len(s) + k] = u[k]
  OBVIOUS

LEMMA TxUart ==
    ASSUME IInv, Arrive \/ Shift \/ Interrupt
    PROVE  TxInv'
<1> USE SizesAssumption DEF rx, tx, uart, hist
<1>1. TypeOK /\ TxInv
  BY DEF IInv
<1>2. CASE Arrive \/ Shift
  <2>1. UNCHANGED <<txBuffer, txReadIndex, txWriteIndex, uartInt, th, sent, raced>>
    BY <1>2 DEF Arrive, Shift
  <2> QED
    BY <1>1, <2>1 DEF TxInv, TxUsed, Used, TxContents, TX_BUFFER_EMPTY
<1>3. ASSUME NEW t \in BOOLEAN, NEW r \in BOOLEAN, UARTIntHandler(t, r)
      PROVE  TxInv'
  <2>1. /\ UNCHANGED <<uartInt, th, txBuffer, txWriteIndex>>
        /\ txReadIndex' = txWriteIndex
        /\ raced' = (raced \/ BeginHit(r))
        /\ sent' = IF raced' THEN sent ELSE sent \o TxContents
        /\ uartInt
    BY <1>3 DEF UARTIntHandler, primeTransmit
  <2>2. th.pc \notin {"prime_loop", "prime_next", "prime_on"}
    BY <1>1, <2>1 DEF TxInv
  <2> SUFFICES ASSUME ~ raced'
               PROVE  TxInv'
    BY <2>1, <2>2 DEF TxInv
  <2>3. /\ ~ raced /\ sent' = sent \o TxContents
        /\ th.pc = "begin_tx" => TX_BUFFER_EMPTY
    BY Zenon, <2>1 DEF BeginHit
  <2>4. TxUsed' = 0 /\ TX_BUFFER_EMPTY'
    BY <1>1, <2>1 DEF TxUsed, Used, TX_BUFFER_EMPTY, TypeOK
  <2>5. /\ sent \in Seq(Nat) /\ Len(sent) \in Nat /\ th.written \in Nat
        /\ TxContents \in Seq(Nat) /\ Len(TxContents) = TxUsed /\ TxUsed \in Nat
    BY <1>1, TxContentsSeq DEF TypeOK, Thread
  <2>6. TX_BUFFER_EMPTY => TxUsed = 0
    BY <1>1, UsedRange DEF TX_BUFFER_EMPTY, TxUsed, TypeOK
  <2>7. /\ \A k \in 1 .. Len(sent) : sent[k] = k
        /\ Len(sent) + TxUsed = th.written
        /\ \A k \in 1 .. TxUsed : TxContents[k] = Len(sent) + k
    <3>1. CASE th.pc = "begin_tx"
      BY <1>1, <2>3, <2>5, <2>6, <3>1 DEF TxInv
    <3>2. CASE th.pc # "begin_tx"
      BY <1>1, <2>2, <2>3, <2>5, <3>2 DEF TxInv
    <3> QED
      BY <3>1, <3>2
  <2>8. Len(sent') = th.written
    <3>1. Len(sent \o TxContents) = Len(sent) + Len(TxContents)
      BY <2>5, ConcatNat
    <3> QED
      BY <2>3, <2>5, <2>7, <3>1
  <2>9. ASSUME NEW k \in 1 .. Len(sent')
        PROVE  sent'[k] = k
    <3>1. CASE k <= Len(sent)
      BY <2>3, <2>5, <2>7, <2>8, <3>1
    <3>2. CASE ~ k <= Len(sent)
      <4>0. k \in Nat /\ k <= Len(sent) + TxUsed
        BY <2>5, <2>7, <2>8
      <4>1. PICK j \in 1 .. TxUsed : j = k - Len(sent)
        <5>1. k - Len(sent) \in 1 .. TxUsed
          BY <2>5, <3>2, <4>0
        <5> QED
          BY <5>1
      <4>2. sent'[k] = TxContents[j]
        BY <2>3, <2>5, <2>8, <3>2, <4>1
      <4> QED
        BY <2>5, <2>7, <4>1, <4>2
    <3> QED
      BY <3>1, <3>2
  <2>10. th.pc = "begin_tx" => txReadIndex' = 0
    BY <1>1, <2>1, <2>3 DEF TxInv, TX_BUFFER_EMPTY
  <2>11. th.pc = "write_next" => txBuffer'[txWriteIndex'] = th.written + 1
    BY <1>1, <2>1, <2>3 DEF TxInv
  <2> QED
    BY <2>1, <2>2, <2>4, <2>5, <2>8, <2>9, <2>10, <2>11 DEF TxInv
<1> QED
  BY <1>2, <1>3 DEF Interrupt

-----------------------------------------------------------------------------
(* The receive ring.                                                       *)

LEMMA RxSketch ==
    ASSUME IInv, Calls \/ CallSteps
    PROVE  RxInv' /\ AvailableSound'
<1> USE SizesAssumption DEF rx, tx, uart, hist
<1>1. TypeOK /\ RxInv /\ th \in Thread
  BY DEF IInv, TypeOK
<1>2. ASSUME th'.pc \notin {"read_load", "read_next", "avail_ge", "avail_lt", "avail_ret",
                           "begin_rxw", "begin_int"}
      PROVE  RxInv' /\ AvailableSound'
  BY <1>2 DEF RxInv, AvailableSound
<1>3. CASE readCheck
  BY <1>1, <1>3, GotoEffect DEF readCheck, PCs, RxInv, AvailableSound, RX_BUFFER_EMPTY
<1>4. CASE readLoad
  <2>1. /\ th.pc = "read_load" /\ th'.pc = "read_next" /\ th'.c = rxBuffer[rxReadIndex]
        /\ UNCHANGED <<rxBuffer, rxReadIndex, rxWriteIndex>>
    BY <1>1, <1>4, ReadLoadEffect DEF readLoad
  <2> QED
    BY <1>1, <2>1 DEF RxInv, AvailableSound, RX_BUFFER_EMPTY
<1>5. CASE availableCompare
  <2>1. /\ th'.pc = IF rxWriteIndex >= rxReadIndex THEN "avail_ge" ELSE "avail_lt"
        /\ th'.some => ~ RX_BUFFER_EMPTY
        /\ UNCHANGED <<rxBuffer, rxReadIndex, rxWriteIndex>>
        /\ rxReadIndex \in Int /\ rxWriteIndex \in Int
    BY SMTT(60), <1>1, <1>5, AvailableCompareEffect DEF availableCompare, TypeOK
  <2> QED
    BY <2>1 DEF RxInv, AvailableSound, RX_BUFFER_EMPTY
<1>6. CASE availableReturn
  <2>1. /\ th.pc \in {"avail_ge", "avail_lt"} /\ th'.pc = "avail_ret" /\ th'.n = Difference
        /\ th'.some = th.some /\ UNCHANGED <<rxReadIndex, rxWriteIndex>>
    BY <1>1, <1>6, AvailableReturnEffect DEF availableReturn
  <2>2. /\ rxReadIndex \in 0 .. rxBufferSize - 1 /\ rxWriteIndex \in 0 .. rxBufferSize - 1
        /\ th.pc = "avail_lt" => rxWriteIndex < rxReadIndex
        /\ th.some => rxReadIndex # rxWriteIndex
    BY <1>1, <2>1 DEF RxInv, RX_BUFFER_EMPTY, TypeOK
  <2>3. RxUsed' = RxUsed
    BY <2>1 DEF RxUsed, Used
  <2>4. Difference > 0 => Difference <= RxUsed
    BY <2>1, <2>2 DEF Difference, RxUsed, Used
  <2>5. th.some => Difference # 0
    BY <2>1, <2>2 DEF Difference
  <2> QED
    BY <2>1, <2>3, <2>4, <2>5 DEF RxInv, AvailableSound
<1>7. CASE beginFlushRead
  BY <1>1, <1>7, GotoEffect DEF beginFlushRead, PCs, RxInv, AvailableSound
<1>8. CASE beginFlushWrite
  <2>1. /\ th.pc = "begin_rxw" /\ th'.pc = "begin_int"
        /\ rxWriteIndex' = 0 /\ rxReadIndex' = rxReadIndex
    BY <1>1, <1>8, GotoEffect DEF beginFlushWrite, PCs
  <2> QED
    BY <1>1, <2>1 DEF RxInv, AvailableSound
<1>9. CASE readNext \/ availableDone \/ writeNext
  BY <1>1, <1>2, <1>9, ReadNextEffect, AvailableDoneEffect, WriteNextEffect
<1>10. CASE begin \/ endCall \/ writeCall \/ flushCall
  BY <1>1, <1>2, <1>10, GotoEffect DEF begin, endCall, writeCall, flushCall, PCs
<1>11. CASE beginFlush \/ beginFlushTx \/ beginEnable \/ flushAll \/ endDisable \/ flush
  BY <1>1, <1>2, <1>11, GotoEffect
     DEF beginFlush, beginFlushTx, beginEnable, flushAll, endDisable, flush, PCs
<1>12. CASE writeStore \/ writePrime \/ writeIntEnable
  BY <1>1, <1>2, <1>12, GotoEffect DEF writeStore, writePrime, writeIntEnable, PCs
<1>13. CASE primeCheck \/ primeDisable \/ primePut \/ primeNext \/ primeEnable
  BY <1>1, <1>2, <1>13, GotoEffect
     DEF primeCheck, primeDisable, primePut, primeNext, primeEnable, PCs
<1> QED
  BY <1>3, <1>4, <1>5, <1>6, <1>7, <1>8, <1>9, <1>10, <1>11, <1>12, <1>13 DEF Calls, CallSteps

LEMMA RxUart ==
    ASSUME IInv, Arrive \/ Shift \/ Interrupt
    PROVE  RxInv' /\ AvailableSound'
<1> USE SizesAssumption DEF rx, tx, uart, hist
<1>1. TypeOK /\ RxInv /\ AvailableSound
  BY DEF IInv
<1>2. ASSUME UNCHANGED <<rxBuffer, rxReadIndex, rxWriteIndex, th>>, raced => raced'
      PROVE  RxInv' /\ AvailableSound'
  <2>1. RxUsed' = RxUsed /\ (RX_BUFFER_EMPTY' <=> RX_BUFFER_EMPTY)
    BY <1>2 DEF RxUsed, Used, RX_BUFFER_EMPTY
  <2>2. AvailableSound'
    BY <1>1, <1>2, <2>1 DEF AvailableSound
  <2> QED
    BY Zenon, <1>1, <1>2, <2>1, <2>2 DEF RxInv
<1>3. CASE Arrive \/ Shift
  BY <1>2, <1>3 DEF Arrive, Shift
<1>4. ASSUME NEW t \in BOOLEAN, NEW r \in BOOLEAN, UARTIntHandler(t, r)
      PROVE  RxInv' /\ AvailableSound'
  <2>1. th' = th /\ raced' = (raced \/ BeginHit(r))
    BY <1>4 DEF UARTIntHandler
  <2>2. CASE ~ r
    BY <1>2, <1>4, <2>1, <2>2 DEF UARTIntHandler
  <2>3. CASE r
    <3>1. PICK m \in Nat :
              /\ m <= Len(rxLine) /\ m + RxUsed <= rxBufferSize - 1
              /\ rxReadIndex' = rxReadIndex
              /\ rxWriteIndex' \in 0 .. rxBufferSize - 1
              /\ RxUsed' = RxUsed + m
              /\ \A k \in 1 .. RxUsed : RxContents'[k] = RxContents[k]
              /\ rxWriteIndex' = IF rxWriteIndex + m < rxBufferSize THEN rxWriteIndex + m
                                 ELSE rxWriteIndex + m - rxBufferSize
      BY <1>1, <1>4, <2>3, ReceiveEffect DEF UARTIntHandler
    <3>2. /\ rxReadIndex \in 0 .. rxBufferSize - 1 /\ rxWriteIndex \in 0 .. rxBufferSize - 1
          /\ rxLine \in Seq(Nat)
      BY <1>1 DEF TypeOK
    <3>3. RxUsed \in 0 .. rxBufferSize - 1 /\ (RxUsed = 0 <=> RX_BUFFER_EMPTY)
      BY <3>2, UsedRange DEF RxUsed, RX_BUFFER_EMPTY
    <3>4. ~ RX_BUFFER_EMPTY => ~ RX_BUFFER_EMPTY'
      <4>1. RX_BUFFER_EMPTY' => RxUsed' = 0
        BY <3>1, <3>2 DEF RX_BUFFER_EMPTY, RxUsed, Used
      <4> QED
        BY <3>1, <3>3, <4>1
    <3>5. ~ RX_BUFFER_EMPTY => rxBuffer'[rxReadIndex'] = rxBuffer[rxReadIndex]
      <4> SUFFICES ASSUME ~ RX_BUFFER_EMPTY
                   PROVE  rxBuffer'[rxReadIndex'] = rxBuffer[rxReadIndex]
        OBVIOUS
      <4>1. 1 \in 1 .. RxUsed /\ 1 \in 1 .. RxUsed'
        BY <3>1, <3>3
      <4>2. rxReadIndex + 1 - 1 = rxReadIndex /\ rxReadIndex % rxBufferSize = rxReadIndex
        BY <3>2, ModSmall
      <4>3. RxContents[1] = rxBuffer[rxReadIndex]
        BY <4>1, <4>2 DEF RxContents
      <4>4. RxContents'[1] = rxBuffer'[rxReadIndex']
        BY <3>1, <4>1, <4>2 DEF RxContents
      <4> QED
        BY <3>1, <4>1, <4>3, <4>4
    <3>6. rxWriteIndex < rxReadIndex => rxWriteIndex' < rxReadIndex'
      BY <3>1, <3>2 DEF RxUsed, Used
    <3>7. th.pc = "begin_int" /\ ~ raced' => m = 0
      <4>1. th.pc = "begin_int" /\ ~ raced' => rxLine = <<>>
        BY Zenon, <2>1, <2>3 DEF BeginHit
      <4>2. Len(<<>>) = 0
        OBVIOUS
      <4> QED
        BY <3>1, <4>1, <4>2
    <3>8. th.pc = "begin_int" /\ ~ raced' => rxWriteIndex' = 0
      <4>1. th.pc = "begin_int" /\ ~ raced' => rxWriteIndex = 0
        BY Zenon, <1>1, <2>1 DEF RxInv
      <4> QED
        BY <3>1, <3>2, <3>7, <4>1
    <3>9. RxInv'
      BY <1>1, <2>1, <3>1, <3>4, <3>5, <3>6, <3>8 DEF RxInv
    <3>10. AvailableSound'
      <4>1. th.n \in Int
        BY <1>1 DEF TypeOK, Thread
      <4> QED
        BY <1>1, <2>1, <3>1, <3>3, <4>1 DEF AvailableSound
    <3> QED
      BY <3>9, <3>10
  <2> QED
    BY <2>2, <2>3
<1> QED
  BY <1>3, <1>4 DEF Interrupt

-----------------------------------------------------------------------------
(* The invariant, and what follows from it.                                *)

LEMMA InitIInv == Init => IInv
<1> SUFFICES ASSUME Init
             PROVE  IInv
  OBVIOUS
<1> USE SizesAssumption, FifosAssumption DEF Init
<1>1. th \in Thread /\ th.pc = "off" /\ th.written = 0
  BY DEF Off, Thread, PCs
<1>2. sent \in Seq(Nat) /\ rxLine \in Seq(Nat) /\ Len(sent) = 0 /\ Len(rxLine) = 0
  OBVIOUS
<1>3. TypeOK
  BY <1>1, <1>2 DEF TypeOK
<1>4. TxUsed = 0
  BY DEF TxUsed, Used
<1>5. TxInv
  BY <1>1, <1>2, <1>4 DEF TxInv, TX_BUFFER_EMPTY
<1> QED
  BY <1>1, <1>3, <1>5 DEF IInv, RxInv, AvailableSound

LEMMA NextIInv == IInv /\ [Next]_vars => IInv'
<1> SUFFICES ASSUME IInv, [Next]_vars
             PROVE  IInv'
  OBVIOUS
<1>1. CASE Calls \/ CallSteps
  BY <1>1, SketchTypeOK, TxSketch, RxSketch DEF IInv
<1>2. CASE Arrive \/ Shift \/ Interrupt
  BY <1>2, UartTypeOK, TxUart, RxUart DEF IInv
<1>3. CASE Hung \/ UNCHANGED vars
  <2>1. UNCHANGED <<rxBuffer, rxReadIndex, rxWriteIndex, txBuffer, txReadIndex, txWriteIndex,
                    rxLine, txLine, uartInt, rxMask, txMask, th, got, arrived, sent, raced>>
    BY <1>3 DEF Hung, vars, rx, tx, uart, hist
  <2>2. TypeOK'
    BY <2>1 DEF IInv, TypeOK
  <2>3. TxInv'
    BY <2>1 DEF IInv, TxInv, TxUsed, Used, TxContents, TX_BUFFER_EMPTY
  <2>4. RxInv' /\ AvailableSound'
    BY <2>1 DEF IInv, RxInv, AvailableSound, RxUsed, Used, RX_BUFFER_EMPTY
  <2> QED
    BY <2>2, <2>3, <2>4 DEF IInv
<1> QED
  BY <1>1, <1>2, <1>3 DEF Next

\* The inductive invariant.
THEOREM Inductive == Spec => []IInv
  BY InitIInv, NextIInv, PTL DEF Spec

\* Every index of HardwareSerial stays inside its buffer, whatever the sizes
\* given to setBufferSize.
THEOREM SerialTypeOK == Spec => []TypeOK
<1>1. IInv => TypeOK
  BY DEF IInv
<1> QED
  BY <1>1, Inductive, PTL

\* What write() was given goes out once and in order, with the sketch and the
\* interrupt both emptying the transmit ring, unless the interrupt hit a
\* begin() on a running port.
THEOREM SerialTransmitsInOrder == Spec => []TransmitsInOrder
<1>1. IInv => TransmitsInOrder
  BY DEF IInv, TxInv, TransmitsInOrder, Sending
<1> QED
  BY <1>1, Inductive, PTL

\* available() never promises more than read() will find, and never 0 when
\* there was something, although it reads rxWriteIndex twice.
THEOREM SerialAvailableSound == Spec => []AvailableSound
<1>1. IInv => AvailableSound
  BY DEF IInv
<1> QED
  BY <1>1, Inductive, PTL

-----------------------------------------------------------------------------
(* The receive ring implements RxQueue.                                    *)

LEMMA SameSeq ==
    ASSUME NEW s \in Seq(Nat), NEW u \in Seq(Nat), Len(s) = Len(u),
           \A k \in 1 .. Len(s) : s[k] = u[k]
    PROVE  s = u
  BY SMTT(60)

LEMMA RxContentsSeqNext ==
    TypeOK' => (RxContents \in Seq(Nat) /\ Len(RxContents) = RxUsed)'
<1>1. TypeOK => RxContents \in Seq(Nat) /\ Len(RxContents) = RxUsed
  BY RxContentsSeq
<1> QED
  BY <1>1, PTL

LEMMA EmptyContents ==
    ASSUME TypeOK, rxReadIndex = rxWriteIndex
    PROVE  RxContents = <<>>
<1>1. RxUsed = 0
  BY UsedRange, SizesAssumption DEF RxUsed, TypeOK
<1> QED
  BY <1>1, RxContentsSeq

LEMMA EmptyContentsNext ==
    TypeOK' /\ (rxReadIndex = rxWriteIndex)' => (RxContents = <<>>)'
<1>1. TypeOK /\ rxReadIndex = rxWriteIndex => RxContents = <<>>
  BY EmptyContents
<1> QED
  BY <1>1, PTL

LEMMA InitRefines == Init => Queue!Init
<1> SUFFICES ASSUME Init
             PROVE  Queue!Init
  OBVIOUS
<1>1. Contents = <<>>
  BY InitIInv, EmptyContents DEF Init, IInv, Contents, Off
<1> QED
  BY <1>1 DEF Init, Queue!Init

\* What the receive loop moves goes behind what is there.
LEMMA ReceiveContents ==
    ASSUME TypeOK, TypeOK', NEW m \in Nat, m <= Len(rxLine), RxUsed' = RxUsed + m,
           \A k \in 1 .. RxUsed : RxContents'[k] = RxContents[k],
           \A k \in 1 .. m : RxContents'[RxUsed + k] = rxLine[k]
    PROVE  RxContents' = RxContents \o SubSeq(rxLine, 1, m)
<1> DEFINE s == SubSeq(rxLine, 1, m)
<1>1. /\ RxUsed \in Nat /\ RxContents \in Seq(Nat) /\ Len(RxContents) = RxUsed
      /\ RxContents' \in Seq(Nat) /\ Len(RxContents') = RxUsed + m
  BY RxContentsSeq, RxContentsSeqNext
<1>2. rxLine \in Seq(Nat) /\ Len(rxLine) \in Nat
  BY DEF TypeOK
<1>3. s \in Seq(Nat) /\ Len(s) = m /\ \A k \in 1 .. m : s[k] = rxLine[k]
  BY <1>2
<1> HIDE DEF s
<1>4. /\ RxContents \o s \in Seq(Nat) /\ Len(RxContents \o s) = RxUsed + m
      /\ \A k \in 1 .. RxUsed : (RxContents \o s)[k] = RxContents[k]
      /\ \A k \in 1 .. m : (RxContents \o s)[RxUsed + k] = s[k]
  <2>1. RxContents \in Seq(Nat) /\ Len(RxContents) = RxUsed
    BY <1>1
  <2>2. s \in Seq(Nat) /\ Len(s) = m
    BY <1>3
  <2>3. RxContents \o s \in Seq(Nat)
    BY <2>1, <2>2
  <2>4. /\ Len(RxContents \o s) = Len(RxContents) + Len(s)
        /\ \A k \in 1 .. Len(RxContents) : (RxContents \o s)[k] = RxContents[k]
        /\ \A k \in 1 .. Len(s) : (RxContents \o s)[Len(RxContents) + k] = s[k]
    BY Zenon, <2>1, <2>2, ConcatNat
  <2>5. Len(RxContents) = RxUsed /\ Len(s) = m
    BY <2>1, <2>2
  <2> QED
    BY Zenon, <2>3, <2>4, <2>5
<1>5. ASSUME NEW k \in 1 .. RxUsed + m
      PROVE  RxContents'[k] = (RxContents \o s)[k]
  <2>1. CASE k <= RxUsed
    BY <1>1, <1>4, <2>1
  <2>2. CASE ~ k <= RxUsed
    <3>1. k - RxUsed \in 1 .. m /\ RxUsed + (k - RxUsed) = k
      BY <1>1, <2>2
    <3>2. PICK j \in 1 .. m : RxUsed + j = k
      BY <3>1
    <3> QED
      BY Zenon, <1>3, <1>4, <3>2
  <2> QED
    BY Zenon, <2>1, <2>2
<1> QED
  BY Zenon, <1>1, <1>4, <1>5, SameSeq DEF s

\* read() takes the first.
LEMMA TakeContents ==
    ASSUME TypeOK, TypeOK', rxReadIndex # rxWriteIndex,
           rxReadIndex' = NextRx(rxReadIndex), UNCHANGED <<rxBuffer, rxWriteIndex>>
    PROVE  /\ RxContents # <<>> /\ Head(RxContents) = rxBuffer[rxReadIndex]
           /\ RxContents' = Tail(RxContents)
<1> DEFINE n == rxBufferSize
           r == rxReadIndex
           w == rxWriteIndex
<1>1. n \in Nat \ {0, 1} /\ r \in 0 .. n - 1 /\ w \in 0 .. n - 1
  BY SizesAssumption DEF TypeOK
<1>2. RxUsed = Used(r, w, n) /\ RxUsed' = Used(r', w, n)
  BY DEF RxUsed, Used
<1>3. /\ r' = IF r + 1 < n THEN r + 1 ELSE 0
      /\ r' \in 0 .. n - 1 /\ RxUsed' = RxUsed - 1 /\ RxUsed \in 1 .. n - 1
  BY <1>1, <1>2, UsedTake, UsedRange DEF NextRx
<1>4. /\ RxContents \in Seq(Nat) /\ Len(RxContents) = RxUsed
      /\ RxContents' \in Seq(Nat) /\ Len(RxContents') = RxUsed - 1
  BY <1>3, RxContentsSeq, RxContentsSeqNext
<1>5. RxContents[1] = rxBuffer[r]
  <2>1. r + 1 - 1 = r /\ r % n = r /\ 1 \in 1 .. RxUsed
    BY <1>1, <1>3, ModSmall
  <2> QED
    BY <2>1 DEF RxContents
<1>6. ASSUME NEW k \in 1 .. RxUsed - 1
      PROVE  RxContents'[k] = RxContents[k + 1]
  <2>1. k \in 1 .. n /\ k + 1 \in 1 .. n /\ k + 1 \in 1 .. RxUsed /\ k \in 1 .. RxUsed'
    BY <1>1, <1>3
  <2>2. (r' + k - 1) % n = IF r' + k - 1 < n THEN r' + k - 1 ELSE r' + k - 1 - n
    BY <1>1, <1>3, <2>1, PlaceMod
  <2>3. (r + (k + 1) - 1) % n =
           IF r + (k + 1) - 1 < n THEN r + (k + 1) - 1 ELSE r + (k + 1) - 1 - n
    BY <1>1, <2>1, PlaceMod
  <2>4. (r' + k - 1) % n = (r + (k + 1) - 1) % n
    BY <1>1, <1>3, <2>1, <2>2, <2>3
  <2>5. RxContents'[k] = rxBuffer[(r' + k - 1) % n]
    BY <2>1 DEF RxContents
  <2>6. RxContents[k + 1] = rxBuffer[(r + (k + 1) - 1) % n]
    BY <2>1 DEF RxContents
  <2> QED
    BY <2>4, <2>5, <2>6
<1> HIDE DEF n, r, w
<1>7. RxContents # <<>> /\ Head(RxContents) = RxContents[1]
  BY <1>3, <1>4
<1>8. /\ Tail(RxContents) \in Seq(Nat) /\ Len(Tail(RxContents)) = RxUsed - 1
      /\ \A k \in 1 .. RxUsed - 1 : Tail(RxContents)[k] = RxContents[k + 1]
  BY <1>3, <1>4, <1>7
<1> QED
  BY <1>4, <1>5, <1>6, <1>7, <1>8, SameSeq DEF r

LEMMA StepRefines ==
    ASSUME IInv, IInv', [Next]_vars, ~ raced'
    PROVE  [Queue!Next]_(Queue!qvars)
<1> USE DEF rx, tx, uart, hist
<1>1. TypeOK /\ TypeOK' /\ RxInv /\ th \in Thread /\ th' \in Thread
  BY Zenon DEF IInv, TypeOK
\* A step that leaves the ring, the line and the last character alone.
<1>2. ASSUME UNCHANGED <<rxLine, got>>, Contents' = Contents
      PROVE  [Queue!Next]_(Queue!qvars)
  BY <1>2 DEF Queue!qvars
<1>3. ASSUME UNCHANGED <<rxBuffer, rxReadIndex, rxWriteIndex>>,
             th'.pc = th.pc \/ (th.pc # "begin_rxw" /\ th'.pc # "begin_rxw")
      PROVE  Contents' = Contents
  BY <1>3 DEF Contents, RxContents, RxUsed, Used
<1>4. CASE Arrive
  <2>1. /\ UNCHANGED <<rxBuffer, rxReadIndex, rxWriteIndex, th, got>>
        /\ arrived < MaxRx
        /\ rxLine' = IF Len(rxLine) < RxFifo THEN Append(rxLine, arrived + 1) ELSE rxLine
    BY <1>4 DEF Arrive
  <2>2. Contents' = Contents
    BY <1>3, <2>1
  <2>3. /\ arrived + 1 \in 1 .. MaxRx /\ Len(rxLine) \in Nat
        /\ Len(rxLine) < RxFifo \/ Len(rxLine) = RxFifo
    BY SMTT(60), <1>1, <2>1, CharsAssumption, FifosAssumption DEF TypeOK
  <2>4. Queue!Arrive
    BY <2>1, <2>2, <2>3 DEF Queue!Arrive
  <2> QED
    BY <2>4 DEF Queue!Next
<1>5. CASE Shift \/ Hung \/ UNCHANGED vars
  BY <1>2, <1>3, <1>5 DEF Shift, Hung, vars
<1>6. ASSUME NEW t \in BOOLEAN, NEW r \in BOOLEAN, UARTIntHandler(t, r)
      PROVE  [Queue!Next]_(Queue!qvars)
  <2>1. th' = th /\ got' = got /\ ~ BeginHit(r)
    BY <1>6 DEF UARTIntHandler
  <2>2. CASE ~ r
    BY <1>2, <1>3, <1>6, <2>1, <2>2 DEF UARTIntHandler
  <2>3. CASE r
    <3>1. PICK m \in Nat :
              /\ m <= Len(rxLine) /\ m + RxUsed <= rxBufferSize - 1
              /\ RxUsed' = RxUsed + m
              /\ \A k \in 1 .. RxUsed : RxContents'[k] = RxContents[k]
              /\ \A k \in 1 .. m : RxContents'[RxUsed + k] = rxLine[k]
              /\ \/ m = Len(rxLine) /\ rxLine' = SubSeq(rxLine, m + 1, Len(rxLine))
                 \/ /\ m < Len(rxLine) /\ m + RxUsed = rxBufferSize - 1
                    /\ rxLine' = SubSeq(rxLine, m + 2, Len(rxLine))
      BY <1>1, <1>6, <2>3, ReceiveEffect DEF UARTIntHandler
    <3>2. CASE th.pc = "begin_rxw"
      <4>1. rxLine = <<>> /\ Contents' = Contents
        BY <2>1, <2>3, <3>2 DEF BeginHit, Contents
      <4>2. Len(rxLine) = 0 /\ m = 0
        BY <3>1, <4>1
      <4>3. rxLine' = rxLine
        BY <3>1, <4>1, <4>2
      <4> QED
        BY <1>2, <2>1, <4>1, <4>3
    <3>3. CASE th.pc # "begin_rxw"
      <4>1. Contents = RxContents /\ Contents' = RxContents'
        BY <2>1, <3>3 DEF Contents
      <4>2. RxContents' = RxContents \o SubSeq(rxLine, 1, m)
        BY <1>1, <3>1, ReceiveContents
      <4>3. Len(RxContents') = RxUsed + m /\ RxUsed \in Nat
        BY SMTT(60), <1>1, <3>1, RxContentsSeq, RxContentsSeqNext
      <4>4. m \in 0 .. Len(rxLine)
        BY SMTT(60), <1>1, <3>1 DEF TypeOK
      <4>5. /\ RxUsed + m <= rxBufferSize - 1
            /\ m + RxUsed = rxBufferSize - 1 => RxUsed + m = rxBufferSize - 1
        BY <3>1, <4>3, SizesAssumption
      <4>6. Queue!Receive
        BY Zenon, <2>1, <3>1, <4>1, <4>2, <4>3, <4>4, <4>5 DEF Queue!Receive
      <4> QED
        BY <4>6 DEF Queue!Next
    <3> QED
      BY <3>2, <3>3
  <2> QED
    BY <2>2, <2>3
<1>7. CASE begin
  <2>1. /\ rxLine' = <<>> /\ got' = got /\ th'.pc = "begin" /\ Contents' = Contents
    BY <1>1, <1>3, <1>7, GotoEffect DEF begin, PCs
  <2>2. Queue!Clear
    BY <2>1 DEF Queue!Clear
  <2> QED
    BY <2>2 DEF Queue!Next
<1>8. CASE beginFlushRead
  <2>1. rxLine' = rxLine /\ got' = got /\ th'.pc = "begin_rxw"
    BY <1>1, <1>8, GotoEffect DEF beginFlushRead, PCs
  <2>2. Contents' = <<>>
    BY <2>1 DEF Contents
  <2>3. Queue!Clear
    BY <2>1, <2>2 DEF Queue!Clear
  <2> QED
    BY <2>3 DEF Queue!Next
<1>9. CASE flushAll
  <2>1. /\ rxLine' = rxLine /\ got' = got /\ th'.pc = "ended"
        /\ rxReadIndex' = rxWriteIndex'
    BY <1>1, <1>9, GotoEffect DEF flushAll, PCs
  <2>2. Contents' = <<>>
    BY <1>1, <2>1, EmptyContentsNext DEF Contents
  <2>3. Queue!Clear
    BY <2>1, <2>2 DEF Queue!Clear
  <2> QED
    BY <2>3 DEF Queue!Next
<1>10. CASE beginFlushWrite
  <2>1. /\ rxLine' = rxLine /\ got' = got /\ th.pc = "begin_rxw" /\ th'.pc = "begin_int"
        /\ rxReadIndex' = rxReadIndex /\ rxWriteIndex' = 0
    BY <1>1, <1>10, GotoEffect DEF beginFlushWrite, PCs
  <2>2. rxReadIndex' = rxWriteIndex'
    BY <1>1, <2>1 DEF RxInv
  <2>3. Contents = <<>> /\ Contents' = <<>>
    BY <1>1, <2>1, <2>2, EmptyContentsNext DEF Contents
  <2> QED
    BY <1>2, <2>1, <2>3
<1>11. CASE beginEnable
  <2>1. /\ rxLine' = rxLine /\ got' = got /\ th.pc = "begin_int" /\ th'.pc = "idle"
        /\ UNCHANGED <<rxReadIndex, rxWriteIndex, raced>>
    BY <1>1, <1>11, GotoEffect DEF beginEnable, PCs
  <2>2. rxReadIndex = rxWriteIndex
    BY <1>1, <2>1 DEF RxInv
  <2>3. Contents = <<>> /\ Contents' = <<>>
    BY <1>1, <2>1, <2>2, EmptyContents, EmptyContentsNext DEF Contents
  <2> QED
    BY <1>2, <2>1, <2>3
<1>12. CASE readNext
  <2>1. /\ rxLine' = rxLine /\ got' = th.c /\ th.pc = "read_next" /\ th'.pc = "idle"
        /\ UNCHANGED <<rxBuffer, rxWriteIndex>> /\ rxReadIndex' = NextRx(rxReadIndex)
    BY <1>1, <1>12, ReadNextEffect DEF readNext
  <2>2. rxReadIndex # rxWriteIndex /\ th.c = rxBuffer[rxReadIndex]
    BY <1>1, <2>1 DEF RxInv, RX_BUFFER_EMPTY
  <2>3. Contents = RxContents /\ Contents' = RxContents'
    BY <2>1 DEF Contents
  <2>4. Queue!Take
    BY <1>1, <2>1, <2>2, <2>3, TakeContents DEF Queue!Take
  <2> QED
    BY <2>4 DEF Queue!Next
<1>13. CASE availableCompare \/ availableReturn \/ availableDone \/ readLoad \/ writeNext
  <2>1. /\ UNCHANGED <<rxBuffer, rxReadIndex, rxWriteIndex, rxLine, got>>
        /\ th.pc # "begin_rxw"
    BY <1>13 DEF availableCompare, availableReturn, availableDone, readLoad, writeNext
  <2>2. th'.pc # "begin_rxw"
    BY <1>1, <1>13, AvailableCompareEffect, AvailableReturnEffect, AvailableDoneEffect,
       ReadLoadEffect, WriteNextEffect
  <2> QED
    BY <1>2, <1>3, <2>1, <2>2
<1>14. CASE endCall \/ readCheck \/ writeCall \/ flushCall \/ endDisable \/ flush
  BY <1>1, <1>2, <1>3, <1>14, GotoEffect
     DEF endCall, readCheck, writeCall, flushCall, endDisable, flush, PCs
<1>15. CASE beginFlush \/ beginFlushTx \/ writeStore \/ writePrime \/ writeIntEnable
  BY <1>1, <1>2, <1>3, <1>15, GotoEffect
     DEF beginFlush, beginFlushTx, writeStore, writePrime, writeIntEnable, PCs
<1>16. CASE primeCheck \/ primeDisable \/ primePut \/ primeNext \/ primeEnable
  BY <1>1, <1>2, <1>3, <1>16, GotoEffect
     DEF primeCheck, primeDisable, primePut, primeNext, primeEnable, PCs
<1> QED
  BY <1>4, <1>5, <1>6, <1>7, <1>8, <1>9, <1>10, <1>11, <1>12, <1>13, <1>14, <1>15, <1>16
     DEF Next, Calls, CallSteps, Interrupt

\* The receive side implements RxQueue, for rings and FIFOs of any size: what
\* arrives comes out of read() once each and in order, with UARTIntHandler
\* interrupting read(), begin() and end() anywhere, until it hits a begin() on
\* a running port.
THEOREM SerialReceivesInOrder == Spec => ReceivesInOrder
<1>1. IInv /\ IInv' /\ [Next]_vars => [Queue!Next \/ raced']_(Queue!qvars)
  BY StepRefines
<1> QED
  BY <1>1, InitRefines, Inductive, PTL DEF Spec, ReceivesInOrder
=============================================================================
