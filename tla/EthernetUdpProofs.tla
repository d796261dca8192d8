------------------------- MODULE EthernetUdpProofs --------------------------
(***************************************************************************)
(* Proofs about EthernetUdp, for a ring and a pool of any size, datagrams  *)
(* in chains of any shape and any number of them.                          *)
(***************************************************************************)
EXTENDS EthernetUdp, Remainders, TLAPS

\* parsePacket between its check of count and the store: the count it has in
\* the register was there, and do_recv only adds to it.
RegInv == pc \in {"count", "store"} => 1 <= reg /\ reg <= count

\* Datagrams in the ring, stale slots included, have arrived.
PacketInv == \A i \in Slot : packets[i] # NULL => packets[i].d <= arrived

\* What is left of the chain being read is what is left of its pbufs.
ReadInv ==
    pc # "wild" /\ _p # NULL =>
        live[_p.d] = Len(_p.tot) /\ _p.d <= arrived

\* The ring holds whole chains, in order of arrival, behind the one being
\* read, and nobody else holds a pbuf.  While parsePacket has the front slot
\* but has not taken it off, that one is both.
RingInv ==
    lost = 0 =>
        /\ pc # "wild"
        /\ \A k \in 1 .. count :
              /\ Waiting[k] \in Pbuf
              /\ live[Waiting[k].d] = Len(Waiting[k].tot)
        /\ \A j, k \in 1 .. count : j < k => Waiting[j].d < Waiting[k].d
        /\ pc \in {"idle", "front"} /\ _p # NULL =>
              \A k \in 1 .. count : _p.d < Waiting[k].d
        /\ pc \in {"count", "store"} => _p = Waiting[1]
        /\ \A d \in Datagram : live[d] # 0 =>
              \/ _p # NULL /\ _p.d = d
              \/ \E k \in 1 .. count : Waiting[k].d = d

IInv == TypeOK /\ RearAhead /\ RegInv /\ PacketInv /\ ReadInv /\ RingInv

-----------------------------------------------------------------------------
(* Where the datagrams are in the ring.                                    *)

Pos(k) == (Oldest + k - 1) % UDP_RX_MAX_PACKETS

LEMMA AdvanceSlot ==
    ASSUME NEW i \in Slot
    PROVE  Advance(i) \in Slot
  BY RingAssumption DEF Advance, Slot

LEMMA AdvanceMod ==
    ASSUME NEW i \in Slot, NEW k \in Nat
    PROVE  (Advance(i) + k) % UDP_RX_MAX_PACKETS = (i + 1 + k) % UDP_RX_MAX_PACKETS
<1>1. CASE i + 1 = UDP_RX_MAX_PACKETS
  <2>1. Advance(i) + k = k /\ i + 1 + k = k + UDP_RX_MAX_PACKETS
    BY <1>1, RingAssumption DEF Advance, Slot
  <2>2. (k + UDP_RX_MAX_PACKETS) % UDP_RX_MAX_PACKETS = k % UDP_RX_MAX_PACKETS
    BY Zenon, RingAssumption, ModWrap
  <2> QED
    BY <2>1, <2>2
<1>2. CASE i + 1 # UDP_RX_MAX_PACKETS
  BY <1>2 DEF Advance
<1> QED
  BY <1>1, <1>2

\* Advance of a remainder.
LEMMA ModAdvance ==
    ASSUME NEW a \in Nat
    PROVE  (a + 1) % UDP_RX_MAX_PACKETS = Advance(a % UDP_RX_MAX_PACKETS)
  BY Zenon, RingAssumption, ModNext DEF Advance

LEMMA OldestSlot == TypeOK => Oldest \in Slot
  BY AdvanceSlot DEF TypeOK, Oldest

LEMMA PosSlot ==
    ASSUME TypeOK, NEW k \in Nat \ {0}
    PROVE  Pos(k) \in Slot
<1>1. Oldest + k - 1 \in Nat
  BY OldestSlot, RingAssumption DEF Slot
<1> QED
  BY <1>1, RingAssumption, Quotient DEF Pos, Slot

LEMMA PosDistinct ==
    ASSUME TypeOK, NEW j \in 1 .. UDP_RX_MAX_PACKETS, NEW k \in 1 .. UDP_RX_MAX_PACKETS,
           Pos(j) = Pos(k)
    PROVE  j = k
<1>1. Oldest \in Nat
  BY OldestSlot, RingAssumption DEF Slot
<1>2. PICK b \in Nat : b = Oldest + j - 1
  BY <1>1, RingAssumption
<1>3. PICK c \in Nat : c = Oldest + k - 1
  BY <1>1, RingAssumption
<1>4. b - c < UDP_RX_MAX_PACKETS /\ c - b < UDP_RX_MAX_PACKETS
  BY <1>1, <1>2, <1>3, RingAssumption
<1>5. b = c
  BY <1>2, <1>3, <1>4, ModDistinct, RingAssumption DEF Pos
<1> QED
  BY <1>1, <1>2, <1>3, <1>5

LEMMA WaitingAt ==
    /\ DOMAIN Waiting = 1 .. count
    /\ \A k \in 1 .. count : Waiting[k] = packets[Pos(k)]
  BY DEF Waiting, Pos

LEMMA WaitingAtPrimed ==
    /\ DOMAIN Waiting' = 1 .. count'
    /\ \A k \in 1 .. count' : Waiting'[k] = packets'[Pos(k)']
  BY DEF Waiting, Pos

\* A step that leaves the slots, the count and the place of the oldest alone.
LEMMA WaitingSame ==
    ASSUME UNCHANGED <<packets, count>>, Oldest' = Oldest
    PROVE  Waiting' = Waiting
  BY DEF Waiting

\* The ring after do_recv put a datagram in.
LEMMA WaitingAppend ==
    ASSUME TypeOK, RearAhead, pc # "wild", lost = 0, count < UDP_RX_MAX_PACKETS, NEW x,
           count' = count + 1, packets' = [packets EXCEPT ![rear] = x], Oldest' = Oldest
    PROVE  /\ \A k \in 1 .. count : Waiting'[k] = Waiting[k]
           /\ Waiting'[count + 1] = x
<1>1. count \in Nat /\ Oldest \in Nat /\ UDP_RX_MAX_PACKETS \in Nat
  BY OldestSlot, RingAssumption DEF TypeOK, Slot
<1>2. rear = Pos(count + 1)
  BY <1>1 DEF RearAhead, Pos
<1>3. \A k \in Nat : Pos(k)' = Pos(k)
  BY DEF Pos
<1>4. packets \in [Slot -> Pbuf \cup {NULL}] /\ rear \in Slot
  BY DEF TypeOK
<1>5. ASSUME NEW k \in 1 .. count
      PROVE  Waiting'[k] = Waiting[k]
  <2>1. Pos(k) # rear /\ Pos(k) \in Slot
    BY <1>1, <1>2, PosDistinct, PosSlot
  <2>2. packets'[Pos(k)] = packets[Pos(k)]
    BY <1>4, <2>1
  <2> QED
    BY <1>1, <1>3, <2>2, WaitingAt, WaitingAtPrimed
<1>6. Waiting'[count + 1] = x
  <2>1. packets'[rear] = x
    BY <1>4
  <2> QED
    BY <1>1, <1>2, <1>3, <2>1, WaitingAtPrimed
<1> QED
  BY <1>5, <1>6

\* The ring after parsePacket took the oldest off with its store to count.
LEMMA WaitingTail ==
    ASSUME TypeOK, pc = "store", pc' = "front", UNCHANGED <<packets, front>>,
           count' = count - 1
    PROVE  \A k \in 1 .. count' : Waiting'[k] = Waiting[k + 1]
<1>1. front \in Slot /\ front \in Nat /\ count \in Nat
  BY RingAssumption DEF TypeOK, Slot
<1>2. Oldest = front /\ Oldest' = Advance(front)
  BY DEF Oldest, Advance
<1> TAKE k \in 1 .. count'
<1>3. Advance(front) \in Nat
  BY <1>1, AdvanceSlot, RingAssumption DEF Slot
<1>4. PICK i \in Nat : i = k - 1
  BY <1>1
<1>5. Oldest' + k - 1 = Advance(front) + i /\ Oldest + (k + 1) - 1 = front + 1 + i
  BY <1>1, <1>2, <1>3, <1>4
<1>6. Pos(k)' = Pos(k + 1)
  BY <1>1, <1>5, AdvanceMod DEF Pos
<1> QED
  BY <1>1, <1>6, WaitingAt, WaitingAtPrimed

-----------------------------------------------------------------------------
(* The interrupt.                                                          *)

LEMMA RecvStep ==
    ASSUME IInv, NEW tot \in Shapes, do_recv(tot)
    PROVE  IInv'
<1> USE RingAssumption, ShapesAssumption
<1>1. TypeOK /\ RearAhead /\ RegInv /\ PacketInv /\ ReadInv /\ RingInv
  BY DEF IInv
<1>2. /\ pc # "wild" /\ arrived < MaxArrivals /\ arrived' = arrived + 1
      /\ UNCHANGED <<front, _p, _read, _pcb, _sendTop, pc, reg, lost>>
  BY DEF do_recv, rxq
<1>3. Oldest' = Oldest
  BY <1>2 DEF Oldest, Advance
<1>4. count \in 0 .. UDP_RX_MAX_PACKETS /\ count \in Nat /\ arrived \in Nat /\ lost \in Nat
      /\ Oldest \in Nat
  BY <1>1, OldestSlot DEF TypeOK, Slot
<1>5. CASE Full
  <2>1. UNCHANGED <<packets, rear, count, live>> /\ dropped' = dropped + 1
    BY <1>5 DEF do_recv, rxq
  <2>2. Waiting' = Waiting
    BY <1>3, <2>1, WaitingSame
  <2>3. TypeOK'
    BY <1>1, <1>2, <2>1 DEF TypeOK
  <2>4. RearAhead' /\ RegInv'
    BY <1>1, <1>2, <1>3, <2>1 DEF RearAhead, RegInv
  <2>5. PacketInv' /\ ReadInv'
    BY SMTT(60), <1>1, <1>2, <1>4, <2>1 DEF PacketInv, ReadInv, TypeOK, Pbuf, Datagram
  <2>6. RingInv'
    BY <1>1, <1>2, <2>1, <2>2 DEF RingInv
  <2> QED
    BY <2>3, <2>4, <2>5, <2>6 DEF IInv
<1>6. CASE ~ Full
  <2> DEFINE x == pbuf(arrived + 1, tot)
  <2>1. /\ count' = count + 1 /\ packets' = [packets EXCEPT ![rear] = x]
        /\ rear' = Advance(rear) /\ live' = [live EXCEPT ![arrived + 1] = Len(tot)]
        /\ dropped' = dropped
    BY <1>6 DEF do_recv
  <2>2. count < UDP_RX_MAX_PACKETS
    BY <1>4, <1>6 DEF Full
  <2>3. tot \in Seq(Nat) \ {<<>>} /\ arrived + 1 \in Datagram
    BY <1>2, <1>4 DEF Datagram
  <2>4. x \in Pbuf /\ x.d = arrived + 1 /\ x.tot = tot
    BY <2>3 DEF pbuf, Pbuf
  <2> HIDE DEF x
  <2>5. TypeOK'
    <3>1. packets' \in [Slot -> Pbuf \cup {NULL}]
      BY <1>1, <2>1, <2>4 DEF TypeOK
    <3>2. live' \in [Datagram -> Nat]
      BY <1>1, <2>1, <2>3 DEF TypeOK
    <3>3. rear' \in Slot
      BY <1>1, <2>1, AdvanceSlot DEF TypeOK
    <3> QED
      BY <1>1, <1>2, <1>4, <2>1, <2>2, <3>1, <3>2, <3>3 DEF TypeOK
  <2>6. RearAhead'
    <3>1. PICK a \in Nat : a = Oldest + count + lost
      BY <1>4
    <3>2. rear = a % UDP_RX_MAX_PACKETS
      BY <1>1, <1>2, <3>1 DEF RearAhead
    <3>3. Oldest' + count' + lost' = a + 1
      BY <1>2, <1>3, <1>4, <2>1, <3>1
    <3>4. rear' = (a + 1) % UDP_RX_MAX_PACKETS
      BY Zenon, <2>1, <3>2, ModAdvance
    <3> QED
      BY <3>3, <3>4 DEF RearAhead
  <2>7. RegInv'
    BY <1>1, <1>2, <1>4, <2>1 DEF RegInv, TypeOK
  <2>8. PacketInv'
    <3> SUFFICES ASSUME NEW i \in Slot, packets'[i] # NULL
                 PROVE  packets'[i].d <= arrived'
      BY DEF PacketInv
    <3>1. CASE i = rear
      BY <1>1, <1>2, <1>4, <2>1, <2>4, <3>1 DEF TypeOK
    <3>2. CASE i # rear
      <4>1. packets'[i] = packets[i] /\ packets[i] \in Pbuf
        BY <1>1, <2>1, <3>2 DEF TypeOK
      <4>2. packets[i].d <= arrived /\ packets[i].d \in Nat
        BY <1>1, <4>1 DEF PacketInv, Pbuf, Datagram
      <4> QED
        BY <1>2, <1>4, <4>1, <4>2
    <3> QED
      BY <3>1, <3>2
  \* What arrived before keeps its pbufs.
  <2>9. \A d \in Datagram : d <= arrived => live'[d] = live[d]
    BY <1>1, <1>4, <2>1, <2>3 DEF TypeOK, Datagram
  <2>10. ReadInv'
    <3>1. _p # NULL => _p.d \in Datagram
      BY <1>1 DEF TypeOK, Pbuf
    <3> QED
      BY <1>1, <1>2, <1>4, <2>9, <3>1 DEF ReadInv, Datagram
  <2>11. RingInv'
    <3> SUFFICES ASSUME lost = 0
                 PROVE  RingInv'
      BY <1>2 DEF RingInv
    <3>1. /\ \A k \in 1 .. count : Waiting'[k] = Waiting[k]
          /\ Waiting'[count'] = x
      BY Zenon, <1>1, <1>2, <1>3, <2>1, <2>2, WaitingAppend
    <3>2. \A k \in 1 .. count' : k \in 1 .. count \/ k = count'
      BY <1>4, <2>1
    <3>3. \A k \in 1 .. count : Waiting[k] \in Pbuf /\ Waiting[k].d \in Datagram
                               /\ Waiting[k].d <= arrived
      <4>1. \A k \in 1 .. count : Waiting[k] \in Pbuf /\ Waiting[k] = packets[Pos(k)]
        BY <1>1, WaitingAt DEF RingInv
      <4>2. \A k \in 1 .. count : Pos(k) \in Slot
        BY <1>1, <1>4, PosSlot
      <4> QED
        BY <1>1, <4>1, <4>2, NullAssumption DEF PacketInv, Pbuf
    <3>4. \A k \in 1 .. count' : Waiting'[k] \in Pbuf
                                /\ live'[Waiting'[k].d] = Len(Waiting'[k].tot)
      <4>1. ASSUME NEW k \in 1 .. count
            PROVE  live'[Waiting'[k].d] = Len(Waiting'[k].tot)
        BY <1>1, <2>9, <3>1, <3>3 DEF RingInv
      <4>2. live'[x.d] = Len(x.tot)
        BY <1>1, <2>1, <2>3, <2>4 DEF TypeOK
      <4> QED
        BY <2>4, <3>1, <3>2, <3>3, <4>1, <4>2
    <3>5. \A j, k \in 1 .. count' : j < k => Waiting'[j].d < Waiting'[k].d
      <4> SUFFICES ASSUME NEW j \in 1 .. count', NEW k \in 1 .. count', j < k
                   PROVE  Waiting'[j].d < Waiting'[k].d
        OBVIOUS
      <4>1. j \in 1 .. count
        BY <1>4, <2>1
      <4>2. CASE k \in 1 .. count
        BY <1>1, <3>1, <4>1, <4>2 DEF RingInv
      <4>3. CASE k = count'
        <5>1. Waiting'[k].d = arrived + 1 /\ Waiting'[j] = Waiting[j]
          BY <2>4, <3>1, <4>1, <4>3
        <5> QED
          BY <1>4, <3>3, <4>1, <5>1 DEF Datagram
      <4> QED
        BY <3>2, <4>2, <4>3
    <3>6. pc' \in {"idle", "front"} /\ _p' # NULL =>
             \A k \in 1 .. count' : _p'.d < Waiting'[k].d
      <4> SUFFICES ASSUME pc \in {"idle", "front"}, _p # NULL, NEW k \in 1 .. count'
                   PROVE  _p.d < Waiting'[k].d
        BY <1>2
      <4>1. _p.d <= arrived /\ _p.d \in Datagram
        BY <1>1, <1>2 DEF ReadInv, TypeOK, Pbuf
      <4>2. CASE k \in 1 .. count
        BY <1>1, <3>1, <4>2 DEF RingInv
      <4>3. CASE k = count'
        BY <1>4, <2>4, <3>1, <4>1, <4>3 DEF Datagram
      <4> QED
        BY <3>2, <4>2, <4>3
    <3>7. pc' \in {"count", "store"} => _p' = Waiting'[1]
      <4> SUFFICES ASSUME pc \in {"count", "store"}
                   PROVE  _p = Waiting'[1]
        BY <1>2
      <4>1. 1 \in 1 .. count
        BY <1>1, <1>4 DEF RegInv, TypeOK
      <4> QED
        BY <1>1, <3>1, <4>1 DEF RingInv
    <3>8. \A d \in Datagram : live'[d] # 0 =>
             \/ _p' # NULL /\ _p'.d = d
             \/ \E k \in 1 .. count' : Waiting'[k].d = d
      <4> SUFFICES ASSUME NEW d \in Datagram, live'[d] # 0, ~ (_p # NULL /\ _p.d = d)
                   PROVE  \E k \in 1 .. count' : Waiting'[k].d = d
        BY <1>2
      <4>1. CASE d = arrived + 1
        <5>1. count' \in 1 .. count'
          BY <1>4, <2>1
        <5> QED
          BY <2>4, <3>1, <4>1, <5>1
      <4>2. CASE d # arrived + 1
        <5>1. live[d] # 0
          BY <1>1, <2>1, <4>2 DEF TypeOK
        <5>2. PICK k \in 1 .. count : Waiting[k].d = d
          BY <1>1, <5>1 DEF RingInv
        <5>3. k \in 1 .. count'
          BY <1>4, <2>1
        <5> QED
          BY <3>1, <5>2, <5>3
      <4> QED
        BY <4>1, <4>2
    <3> QED
      BY <1>2, <3>4, <3>5, <3>6, <3>7, <3>8 DEF RingInv
  <2> QED
    BY <2>5, <2>6, <2>7, <2>8, <2>10, <2>11 DEF IInv
<1> QED
  BY <1>5, <1>6

-----------------------------------------------------------------------------
(* The sketch.                                                             *)

\* The calls that touch neither the ring nor the chain being read.
LEMMA AsideStep ==
    ASSUME IInv, begin \/ stop \/ flush \/ beginPacket \/ endPacket
    PROVE  IInv'
<1>1. TypeOK /\ RearAhead /\ RegInv /\ PacketInv /\ ReadInv /\ RingInv
  BY DEF IInv
<1>2. UNCHANGED <<packets, front, rear, count, _p, live, pc, reg, arrived, dropped, lost>>
  BY DEF begin, stop, flush, beginPacket, endPacket, rxq, hist
<1>3. _read' \in Nat
  <2>1. CASE flush
    <3>1. _p # NULL
      BY <2>1 DEF flush, available
    <3>2. _p.tot \in Seq(Nat) /\ _p.tot # <<>>
      BY <1>1, <3>1 DEF TypeOK, Pbuf
    <3> QED
      BY <2>1, <3>2 DEF flush, tot_len
  <2>2. CASE ~ flush
    BY <1>1, <2>2 DEF begin, stop, beginPacket, endPacket, TypeOK
  <2> QED
    BY <2>1, <2>2
<1>4. _pcb' \in {"none", "unbound", "bound"} /\ _sendTop' \in {0, TxPbufs}
  BY <1>1 DEF begin, stop, flush, beginPacket, endPacket, TypeOK
<1>5. TypeOK'
  BY <1>1, <1>2, <1>3, <1>4 DEF TypeOK
<1>6. Oldest' = Oldest
  BY <1>2 DEF Oldest, Advance
<1>7. Waiting' = Waiting
  BY <1>2, <1>6, WaitingSame
<1>8. RearAhead' /\ RegInv' /\ PacketInv' /\ ReadInv'
  BY <1>1, <1>2, <1>6 DEF RearAhead, RegInv, PacketInv, ReadInv
<1>9. RingInv'
  BY <1>1, <1>2, <1>7 DEF RingInv
<1> QED
  BY <1>5, <1>8, <1>9 DEF IInv

\* parsePacket frees what is left of the chain being read.
LEMMA FreedProperties ==
    ASSUME IInv, pc # "wild"
    PROVE  /\ Freed(_p) \in [Datagram -> Nat]
           /\ \A d \in Datagram :
                 Freed(_p)[d] = IF _p # NULL /\ _p.d = d THEN 0 ELSE live[d]
<1>1. live \in [Datagram -> Nat] /\ _p \in Pbuf \cup {NULL}
  BY DEF IInv, TypeOK
<1>2. CASE _p = NULL
  BY <1>1, <1>2 DEF Freed
<1>3. CASE _p # NULL
  <2>1. _p.d \in Datagram /\ live[_p.d] = Len(_p.tot) /\ live[_p.d] \in Nat
    BY <1>1, <1>3 DEF IInv, ReadInv, Pbuf
  <2>2. Freed(_p) = [live EXCEPT ![_p.d] = 0]
    BY <1>3, <2>1 DEF Freed
  <2> QED
    BY <1>1, <1>3, <2>1, <2>2
<1> QED
  BY <1>2, <1>3

LEMMA ParsePacketStep ==
    ASSUME IInv, parsePacket
    PROVE  IInv'
<1> USE RingAssumption
<1>1. TypeOK /\ RearAhead /\ RegInv /\ PacketInv /\ ReadInv /\ RingInv
  BY DEF IInv
<1>2. /\ pc = "idle" /\ _read' = 0 /\ live' = Freed(_p)
      /\ UNCHANGED <<packets, front, rear, count, _pcb, _sendTop, arrived, dropped, lost>>
  BY DEF parsePacket, rxq, hist
<1>3. /\ live' \in [Datagram -> Nat]
      /\ \A d \in Datagram : live'[d] = IF _p # NULL /\ _p.d = d THEN 0 ELSE live[d]
  BY <1>2, FreedProperties
<1>4. count \in Nat /\ front \in Slot /\ Oldest = front
  BY <1>1, <1>2 DEF TypeOK, Oldest
<1>5. CASE count = 0
  <2>1. _p' = NULL /\ UNCHANGED <<pc, reg>>
    BY <1>5 DEF parsePacket, NoMorePackets
  <2>2. Oldest' = Oldest
    BY <1>2, <2>1 DEF Oldest, Advance
  <2>3. TypeOK'
    BY <1>1, <1>2, <1>3, <2>1 DEF TypeOK
  <2>4. RearAhead' /\ RegInv' /\ PacketInv' /\ ReadInv'
    BY <1>1, <1>2, <2>1, <2>2 DEF RearAhead, RegInv, PacketInv, ReadInv
  <2>5. RingInv'
    BY <1>1, <1>2, <1>3, <1>5, <2>1 DEF RingInv
  <2> QED
    BY <2>3, <2>4, <2>5 DEF IInv
<1>6. CASE count # 0
  <2>1. /\ _p' = packets[front] /\ reg' = count
        /\ pc' = IF live'[_p'.d] = Len(_p'.tot) THEN "count" ELSE "wild"
    BY <1>6 DEF parsePacket, NoMorePackets
  <2>2. pc' \in {"count", "wild"} /\ Oldest' = Oldest
    BY <1>2, <2>1 DEF Oldest, Advance
  <2>3. packets[front] \in Pbuf \cup {NULL}
    BY <1>1, <1>4 DEF TypeOK
  <2>4. TypeOK'
    BY <1>1, <1>2, <1>3, <2>1, <2>2, <2>3 DEF TypeOK
  <2>5. RearAhead' /\ RegInv' /\ PacketInv'
    BY SMTT(60), <1>1, <1>2, <1>4, <1>6, <2>1, <2>2 DEF RearAhead, RegInv, PacketInv
  <2>6. ReadInv'
    BY <1>1, <1>2, <1>4, <2>1, <2>2, <2>3 DEF ReadInv, PacketInv
  <2>7. RingInv'
    <3> SUFFICES ASSUME lost = 0
                 PROVE  RingInv'
      BY <1>2 DEF RingInv
    <3>1. Waiting' = Waiting
      BY <1>2, <2>2, WaitingSame
    <3>2. 1 \in 1 .. count
      BY <1>4, <1>6
    \* The front slot is the oldest datagram.
    <3>3. packets[front] = Waiting[1]
      <4>1. Oldest + 1 - 1 = front /\ front % UDP_RX_MAX_PACKETS = front
        BY <1>4, ModSmall DEF Slot
      <4>2. Pos(1) = front
        BY <4>1 DEF Pos
      <4> QED
        BY <3>2, <4>2, WaitingAt
    <3>4. \A k \in 1 .. count : Waiting[k] \in Pbuf /\ Waiting[k].d \in Datagram
      BY <1>1 DEF RingInv, Pbuf
    \* Its pbufs and those behind it are not the ones freed.
    <3>5. \A k \in 1 .. count : live'[Waiting[k].d] = Len(Waiting[k].tot)
      <4> TAKE k \in 1 .. count
      <4>1. live[Waiting[k].d] = Len(Waiting[k].tot)
        BY <1>1 DEF RingInv
      <4>2. _p # NULL => _p.d \in Datagram /\ _p.d < Waiting[k].d
        BY <1>1, <1>2 DEF RingInv, TypeOK, Pbuf
      <4>3. ~ (_p # NULL /\ _p.d = Waiting[k].d)
        BY <3>4, <4>2 DEF Datagram
      <4> QED
        BY <1>3, <3>4, <4>1, <4>3
    <3>6. pc' = "count"
      BY <2>1, <3>2, <3>3, <3>5
    <3>7. \A d \in Datagram : live'[d] # 0 => \E k \in 1 .. count : Waiting[k].d = d
      BY <1>1, <1>3 DEF RingInv
    <3>8. \A j, k \in 1 .. count : j < k => Waiting[j].d < Waiting[k].d
      BY <1>1 DEF RingInv
    <3> QED
      BY <1>2, <2>1, <3>1, <3>3, <3>4, <3>5, <3>6, <3>7, <3>8 DEF RingInv
  <2> QED
    BY <2>4, <2>5, <2>6, <2>7 DEF IInv
<1> QED
  BY <1>5, <1>6

LEMMA ParseLoadStep ==
    ASSUME IInv, parseLoad
    PROVE  IInv'
<1>1. TypeOK /\ RearAhead /\ RegInv /\ PacketInv /\ ReadInv /\ RingInv
  BY DEF IInv
<1>2. /\ pc = "count" /\ pc' = "store" /\ reg' \in {reg, count}
      /\ UNCHANGED <<packets, front, rear, count, _p, _read, _pcb, _sendTop, live, arrived,
                     dropped, lost>>
  BY DEF parseLoad, rxq, hist
<1>3. Oldest' = Oldest
  BY <1>2 DEF Oldest, Advance
<1>4. Waiting' = Waiting
  BY <1>2, <1>3, WaitingSame
<1>5. TypeOK'
  BY <1>1, <1>2 DEF TypeOK
<1>6. RegInv'
  BY <1>1, <1>2 DEF RegInv, TypeOK
<1>7. RearAhead' /\ PacketInv' /\ ReadInv'
  BY <1>1, <1>2, <1>3 DEF RearAhead, PacketInv, ReadInv
<1>8. RingInv'
  BY <1>1, <1>2, <1>4 DEF RingInv
<1> QED
  BY <1>5, <1>6, <1>7, <1>8 DEF IInv

LEMMA ParseStoreStep ==
    ASSUME IInv, parseStore
    PROVE  IInv'
<1> USE RingAssumption
<1>1. TypeOK /\ RearAhead /\ RegInv /\ PacketInv /\ ReadInv /\ RingInv
  BY DEF IInv
<1>2. /\ pc = "store" /\ pc' = "front" /\ count' = reg - 1 /\ lost' = lost + (count - reg)
      /\ UNCHANGED <<packets, front, rear, _p, _read, _pcb, _sendTop, live, reg, arrived, dropped>>
  BY DEF parseStore
<1>3. /\ reg \in Nat /\ count \in Nat /\ lost \in Nat /\ 1 <= reg /\ reg <= count
      /\ count <= UDP_RX_MAX_PACKETS
  BY <1>1, <1>2 DEF RegInv, TypeOK
<1>4. TypeOK'
  BY <1>1, <1>2, <1>3 DEF TypeOK
<1>5. RearAhead'
  <2>1. front \in Slot /\ front \in Nat /\ Oldest = front /\ Oldest' = Advance(front)
    BY <1>1, <1>2 DEF TypeOK, Slot, Oldest, Advance
  <2>2. PICK k \in Nat : k = count - 1 + lost
    BY <1>3
  <2>3. Advance(front) \in Nat
    BY <2>1, AdvanceSlot DEF Slot
  <2>4. Oldest' + count' + lost' = Advance(front) + k
    BY <1>2, <1>3, <2>1, <2>2, <2>3
  <2>5. Oldest + count + lost = front + 1 + k
    BY <1>3, <2>1, <2>2
  <2> QED
    BY <1>1, <1>2, <2>1, <2>4, <2>5, AdvanceMod DEF RearAhead
<1>6. RegInv' /\ PacketInv' /\ ReadInv'
  BY <1>1, <1>2 DEF RegInv, PacketInv, ReadInv
<1>7. RingInv'
  <2> SUFFICES ASSUME lost' = 0
               PROVE  RingInv'
    BY DEF RingInv
  <2>1. lost = 0 /\ reg = count /\ count' = count - 1
    BY <1>2, <1>3
  <2>2. \A k \in 1 .. count' : Waiting'[k] = Waiting[k + 1] /\ k + 1 \in 1 .. count
    BY <1>1, <1>2, <1>3, <2>1, WaitingTail
  <2>3. _p = Waiting[1] /\ 1 \in 1 .. count
    BY <1>1, <1>2, <1>3, <2>1 DEF RingInv
  <2>4. \A k \in 1 .. count' : Waiting'[k] \in Pbuf /\ live'[Waiting'[k].d] = Len(Waiting'[k].tot)
    BY <1>1, <1>2, <2>1, <2>2 DEF RingInv
  <2>5. \A j, k \in 1 .. count' : j < k => Waiting'[j].d < Waiting'[k].d
    BY <1>1, <1>3, <2>1, <2>2 DEF RingInv
  <2>6. \A k \in 1 .. count' : _p.d < Waiting'[k].d
    BY <1>1, <1>3, <2>1, <2>2, <2>3 DEF RingInv
  <2>7. \A d \in Datagram : live[d] # 0 =>
           \/ _p # NULL /\ _p.d = d
           \/ \E k \in 1 .. count' : Waiting'[k].d = d
    <3> SUFFICES ASSUME NEW d \in Datagram, live[d] # 0, ~ (_p # NULL /\ _p.d = d)
                 PROVE  \E k \in 1 .. count' : Waiting'[k].d = d
      OBVIOUS
    <3>1. PICK j \in 1 .. count : Waiting[j].d = d
      BY <1>1, <2>1 DEF RingInv
    <3>2. _p # NULL
      BY <1>1, <2>1, <2>3, NullAssumption DEF RingInv
    <3>3. j # 1
      BY <2>3, <3>1, <3>2
    <3>4. j - 1 \in 1 .. count' /\ (j - 1) + 1 = j
      BY <1>3, <2>1, <3>3
    <3> QED
      BY <2>2, <3>1, <3>4
  <2> QED
    BY <1>2, <2>4, <2>5, <2>6, <2>7 DEF RingInv
<1> QED
  BY <1>4, <1>5, <1>6, <1>7 DEF IInv

LEMMA ParseFrontStep ==
    ASSUME IInv, parseFront
    PROVE  IInv'
<1> USE RingAssumption
<1>1. TypeOK /\ RearAhead /\ RegInv /\ PacketInv /\ ReadInv /\ RingInv
  BY DEF IInv
<1>2. /\ pc = "front" /\ pc' = "idle" /\ front' = Advance(front) /\ reg' = 0
      /\ UNCHANGED <<packets, rear, count, _p, _read, _pcb, _sendTop, live, arrived, dropped, lost>>
  BY DEF parseFront, hist
<1>3. Oldest' = Oldest
  BY <1>2 DEF Oldest
<1>4. Waiting' = Waiting
  BY <1>2, <1>3, WaitingSame
<1>5. front' \in Slot
  BY <1>1, <1>2, AdvanceSlot DEF TypeOK
<1>6. TypeOK'
  BY <1>1, <1>2, <1>5 DEF TypeOK
<1>7. RearAhead' /\ RegInv' /\ PacketInv' /\ ReadInv'
  BY <1>1, <1>2, <1>3 DEF RearAhead, RegInv, PacketInv, ReadInv
<1>8. RingInv'
  BY <1>1, <1>2, <1>4 DEF RingInv
<1> QED
  BY <1>6, <1>7, <1>8 DEF IInv

LEMMA ReadStep ==
    ASSUME IInv, read
    PROVE  IInv'
<1>1. TypeOK /\ RearAhead /\ RegInv /\ PacketInv /\ ReadInv /\ RingInv
  BY DEF IInv
<1>2. /\ pc = "idle"
      /\ UNCHANGED <<packets, front, rear, count, _pcb, _sendTop, pc, reg, arrived, dropped, lost>>
  BY DEF read, rxq, hist
<1>3. _p # NULL /\ _p \in Pbuf
  BY <1>1 DEF read, available, TypeOK
<1>4. /\ _p.d \in Datagram /\ _p.tot \in Seq(Nat) /\ _p.tot # <<>>
      /\ live[_p.d] = Len(_p.tot) /\ _p.d <= arrived
  BY <1>1, <1>2, <1>3 DEF Pbuf, ReadInv
<1>5. Oldest' = Oldest
  BY <1>2 DEF Oldest, Advance
<1>6. Waiting' = Waiting
  BY <1>2, <1>5, WaitingSame
<1>7. RearAhead' /\ RegInv' /\ PacketInv'
  BY <1>1, <1>2, <1>5 DEF RearAhead, RegInv, PacketInv
<1>8. CASE _read + 1 = len(_p)
  <2>1. /\ _read' = 0 /\ live' = [live EXCEPT ![_p.d] = @ - 1]
        /\ _p' = IF Len(_p.tot) > 1 THEN [_p EXCEPT !.tot = Tail(@)] ELSE NULL
    BY <1>8 DEF read, FirstFreed
  <2>2. Len(_p.tot) \in Nat \ {0} /\ live \in [Datagram -> Nat]
    BY <1>1, <1>4 DEF TypeOK
  <2>3. /\ live' \in [Datagram -> Nat]
        /\ live'[_p.d] = Len(_p.tot) - 1
        /\ \A d \in Datagram : d # _p.d => live'[d] = live[d]
    BY <1>4, <2>1, <2>2
  \* The chain after the pbuf read to its end.
  <2>4. \/ /\ _p' = NULL /\ live'[_p.d] = 0
        \/ /\ _p' \in Pbuf /\ _p'.d = _p.d /\ live'[_p.d] = Len(_p'.tot)
    <3>1. CASE Len(_p.tot) > 1
      <4> DEFINE t == Tail(_p.tot)
      <4>1. t \in Seq(Nat) /\ Len(t) = Len(_p.tot) - 1
        BY <1>4, <2>2, <3>1
      <4> HIDE DEF t
      <4>2. t # <<>>
        BY <2>2, <3>1, <4>1
      <4>3. _p' = [_p EXCEPT !.tot = t]
        BY <2>1, <3>1 DEF t
      <4> QED
        BY ZenonT(60), <1>3, <2>3, <4>1, <4>2, <4>3 DEF Pbuf
    <3>2. CASE ~ Len(_p.tot) > 1
      BY <2>1, <2>2, <2>3, <3>2
    <3> QED
      BY <3>1, <3>2
  <2>5. TypeOK'
    BY <1>1, <1>2, <2>1, <2>3, <2>4 DEF TypeOK
  <2>6. ReadInv'
    BY <1>2, <1>4, <2>4 DEF ReadInv
  <2>7. RingInv'
    <3> SUFFICES ASSUME lost = 0
                 PROVE  RingInv'
      BY <1>2 DEF RingInv
    <3>1. \A k \in 1 .. count : Waiting[k] \in Pbuf /\ Waiting[k].d \in Datagram
                               /\ _p.d < Waiting[k].d
      BY <1>1, <1>2, <1>3 DEF RingInv, Pbuf
    <3>2. \A k \in 1 .. count : Waiting[k].d # _p.d
      BY <1>4, <3>1 DEF Datagram
    <3>3. \A k \in 1 .. count : live'[Waiting[k].d] = Len(Waiting[k].tot)
      BY <1>1, <2>3, <3>1, <3>2 DEF RingInv
    <3>4. _p' # NULL => \A k \in 1 .. count : _p'.d < Waiting[k].d
      BY <2>4, <3>1
    <3>5. \A d \in Datagram : live'[d] # 0 =>
             \/ _p' # NULL /\ _p'.d = d
             \/ \E k \in 1 .. count : Waiting[k].d = d
      <4> SUFFICES ASSUME NEW d \in Datagram, live'[d] # 0
                   PROVE  \/ _p' # NULL /\ _p'.d = d
                          \/ \E k \in 1 .. count : Waiting[k].d = d
        OBVIOUS
      <4>1. CASE d = _p.d
        BY <2>4, <4>1, NullAssumption
      <4>2. CASE d # _p.d
        BY <1>1, <2>3, <4>2 DEF RingInv
      <4> QED
        BY <4>1, <4>2
    <3>6. \A j, k \in 1 .. count : j < k => Waiting[j].d < Waiting[k].d
      BY <1>1 DEF RingInv
    <3> QED
      BY <1>2, <1>6, <3>1, <3>3, <3>4, <3>5, <3>6 DEF RingInv
  <2> QED
    BY <1>7, <2>5, <2>6, <2>7 DEF IInv
<1>9. CASE _read + 1 # len(_p)
  <2>1. _read' = _read + 1 /\ UNCHANGED <<live, _p>>
    BY <1>9 DEF read
  <2>2. TypeOK'
    BY <1>1, <1>2, <2>1 DEF TypeOK
  <2>3. ReadInv' /\ RingInv'
    BY <1>1, <1>2, <1>6, <2>1 DEF ReadInv, RingInv
  <2> QED
    BY <1>7, <2>2, <2>3 DEF IInv
<1> QED
  BY <1>8, <1>9

-----------------------------------------------------------------------------
(* The theorems.                                                           *)

LEMMA InitIInv == Init => IInv
<1> SUFFICES ASSUME Init PROVE IInv
  OBVIOUS
<1> USE RingAssumption, ShapesAssumption DEF Init
<1>1. TypeOK
  BY DEF TypeOK, Slot
<1>2. RearAhead
  BY ModSmall DEF RearAhead, Oldest
<1>3. RegInv /\ PacketInv /\ ReadInv
  BY DEF RegInv, PacketInv, ReadInv
<1>4. RingInv
  BY DEF RingInv
<1> QED
  BY <1>1, <1>2, <1>3, <1>4 DEF IInv

LEMMA NextIInv == IInv /\ [Next]_vars => IInv'
<1> SUFFICES ASSUME IInv, [Next]_vars PROVE IInv'
  OBVIOUS
<1>1. CASE Next /\ ~ Halted
  BY <1>1, RecvStep, AsideStep, ParsePacketStep, ParseLoadStep, ParseStoreStep,
     ParseFrontStep, ReadStep DEF Next, Parsing
<1>2. CASE UNCHANGED vars
  <2>1. UNCHANGED <<packets, front, rear, count, _p, _read, _pcb, _sendTop, live, pc, reg,
                    arrived, dropped, lost>>
    BY <1>2 DEF vars, rxq, hist
  <2>2. Oldest' = Oldest
    BY <2>1 DEF Oldest, Advance
  <2>3. Waiting' = Waiting
    BY <2>1, <2>2, WaitingSame
  <2>4. TypeOK' /\ RegInv' /\ PacketInv' /\ ReadInv'
    BY <2>1 DEF IInv, TypeOK, RegInv, PacketInv, ReadInv
  <2>5. RearAhead'
    BY <2>1, <2>2 DEF IInv, RearAhead
  <2>6. RingInv'
    BY <2>1, <2>3 DEF IInv, RingInv
  <2> QED
    BY <2>4, <2>5, <2>6 DEF IInv
<1> QED
  BY <1>1, <1>2 DEF Halted

LEMMA Accounted == IInv => PbufsAccounted
<1> SUFFICES ASSUME IInv, lost = 0
             PROVE  PbufsAccounted
  BY DEF PbufsAccounted
<1>1. TypeOK /\ ReadInv /\ RingInv /\ live \in [Datagram -> Nat]
  BY DEF IInv, TypeOK
<1>2. Range(Waiting) = {Waiting[k] : k \in 1 .. count}
  BY WaitingAt DEF Range
<1>3. count \in Nat /\ \A k \in 1 .. count : Waiting[k] \in Pbuf /\ Waiting[k].d \in Nat
  BY <1>1 DEF TypeOK, RingInv, Pbuf, Datagram
\* No datagram waits twice.
<1>4. \A j, k \in 1 .. count : Waiting[j].d = Waiting[k].d => j = k
  <2>1. \A j, k \in 1 .. count : j < k => Waiting[j].d < Waiting[k].d
    BY <1>1 DEF RingInv
  <2> QED
    BY <1>3, <2>1
<1>5. ASSUME NEW d \in Datagram
      PROVE  live[d] = IF _p # NULL /\ _p.d = d THEN Len(_p.tot)
                       ELSE IF \E k \in 1 .. count : Waiting[k].d = d
                       THEN Len((CHOOSE w \in Range(Waiting) : w.d = d).tot) ELSE 0
  <2>1. CASE _p # NULL /\ _p.d = d
    BY <1>1, <2>1 DEF ReadInv, RingInv
  <2>2. CASE ~ (_p # NULL /\ _p.d = d) /\ \E k \in 1 .. count : Waiting[k].d = d
    <3>1. PICK k \in 1 .. count : Waiting[k].d = d
      BY <2>2
    <3>2. (CHOOSE w \in Range(Waiting) : w.d = d) = Waiting[k]
      BY <1>2, <1>4, <3>1
    <3>3. live[d] = Len(Waiting[k].tot)
      BY <1>1, <3>1 DEF RingInv
    <3> QED
      BY Zenon, <2>2, <3>2, <3>3
  <2>3. CASE ~ (_p # NULL /\ _p.d = d) /\ ~ \E k \in 1 .. count : Waiting[k].d = d
    BY <1>1, <2>3 DEF RingInv
  <2> QED
    BY <2>1, <2>2, <2>3
<1> QED
  BY <1>1, <1>5 DEF PbufsAccounted

\* The inductive invariant holds in every reachable state.
THEOREM Inductive == Spec => []IInv
  BY InitIInv, NextIInv, PTL DEF Spec

\* The ring's indices stay inside the array and count between 0 and its size,
\* with do_recv coming in anywhere in parsePacket, for a ring of any size; no
\* datagram's pbufs are freed more often than there are.
THEOREM UdpTypeOK == Spec => []TypeOK
<1>1. IInv => TypeOK
  BY DEF IInv
<1> QED
  BY <1>1, Inductive, PTL

\* rear is exactly as many slots ahead of front as count and the increments
\* lost in parsePacket's count-- say.
THEOREM UdpRearAhead == Spec => []RearAhead
<1>1. IInv => RearAhead
  BY DEF IInv
<1> QED
  BY <1>1, Inductive, PTL

\* Until an increment of count is lost, every pbuf out of the pool belongs to
\* the datagram being read or to exactly one that waits: none leaks, and none
\* is freed twice.
THEOREM UdpPbufsAccounted == Spec => []PbufsAccounted
  BY Accounted, Inductive, PTL

-----------------------------------------------------------------------------
(* The refinement.                                                         *)

\* The queue and the datagram being read, as DatagramQueue sees them.
AbsQueue == [k \in DOMAIN Waiting |-> Waiting[k].d]
AbsCurrent == IF Current = NULL THEN NULL ELSE Current.d

LEMMA AbsQueueAt ==
    ASSUME IInv, lost = 0
    PROVE  /\ AbsQueue \in Seq(Datagram) /\ Len(AbsQueue) = count
           /\ \A k \in 1 .. count : AbsQueue[k] = Waiting[k].d
<1>1. count \in Nat
  BY DEF IInv, TypeOK
<1>2. AbsQueue = [k \in 1 .. count |-> Waiting[k].d]
  BY WaitingAt DEF AbsQueue
<1>3. \A k \in 1 .. count : Waiting[k].d \in Datagram
  BY DEF IInv, RingInv, Pbuf
<1> QED
  BY <1>1, <1>2, <1>3

LEMMA AbsQueueAtPrimed ==
    ASSUME IInv', lost' = 0
    PROVE  /\ AbsQueue' \in Seq(Datagram) /\ Len(AbsQueue') = count'
           /\ \A k \in 1 .. count' : AbsQueue'[k] = Waiting'[k].d
<1>1. count' \in Nat
  BY DEF IInv, TypeOK
<1>2. AbsQueue' = [k \in 1 .. count' |-> Waiting'[k].d]
  BY WaitingAtPrimed DEF AbsQueue
<1>3. \A k \in 1 .. count' : Waiting'[k].d \in Datagram
  BY DEF IInv, RingInv, Pbuf, Datagram
<1> QED
  BY <1>1, <1>2, <1>3

LEMMA AbsQueueSame ==
    ASSUME UNCHANGED <<packets, count>>, Oldest' = Oldest
    PROVE  AbsQueue' = AbsQueue
  BY WaitingSame DEF AbsQueue

\* Sequences with the same length and elements are the same.
LEMMA SameSeq ==
    ASSUME NEW S, NEW s \in Seq(S), NEW t \in Seq(S), Len(s) = Len(t),
           \A k \in 1 .. Len(s) : s[k] = t[k]
    PROVE  s = t
  OBVIOUS

LEMMA AbsDeliver ==
    ASSUME IInv, IInv', lost = 0, lost' = 0, count' = count + 1, NEW d \in Datagram,
           \A k \in 1 .. count : Waiting'[k] = Waiting[k],
           Waiting'[count + 1].d = d
    PROVE  AbsQueue' = Append(AbsQueue, d)
<1>1. count \in Nat
  BY SMTT(60) DEF IInv, TypeOK
<1> DEFINE s == Append(AbsQueue, d)
<1>2. /\ s \in Seq(Datagram) /\ Len(s) = count + 1 /\ s[count + 1] = d
      /\ \A k \in 1 .. count : s[k] = AbsQueue[k]
  BY <1>1, AbsQueueAt
<1>3. \A k \in 1 .. count + 1 : AbsQueue'[k] = s[k]
  BY <1>1, <1>2, AbsQueueAt, AbsQueueAtPrimed
<1> HIDE DEF s
<1>4. AbsQueue' = s
  BY <1>2, <1>3, AbsQueueAtPrimed, SameSeq
<1> QED
  BY <1>4 DEF s

LEMMA AbsTake ==
    ASSUME IInv, IInv', lost = 0, lost' = 0, count' = count - 1, count # 0,
           \A k \in 1 .. count' : Waiting'[k] = Waiting[k + 1]
    PROVE  /\ AbsQueue # <<>> /\ Head(AbsQueue) = Waiting[1].d
           /\ AbsQueue' = Tail(AbsQueue)
<1>1. count \in Nat
  BY SMTT(60) DEF IInv, TypeOK
<1>2. AbsQueue # <<>> /\ Head(AbsQueue) = Waiting[1].d
  BY <1>1, AbsQueueAt
<1> DEFINE s == Tail(AbsQueue)
<1>3. /\ s \in Seq(Datagram) /\ Len(s) = count - 1
      /\ \A k \in 1 .. count - 1 : s[k] = AbsQueue[k + 1]
  BY <1>1, AbsQueueAt
<1>4. \A k \in 1 .. count - 1 : AbsQueue'[k] = s[k]
  BY <1>1, <1>3, AbsQueueAt, AbsQueueAtPrimed
<1> HIDE DEF s
<1>5. AbsQueue' = s
  BY <1>3, <1>4, AbsQueueAtPrimed, SameSeq
<1> QED
  BY <1>2, <1>5 DEF s

LEMMA InitRefines == Init => Queue!Init
  BY DEF Init, Queue!Init, Waiting, Current

LEMMA StepRefines ==
    ASSUME IInv, IInv', [Next]_vars, ~ lost' > 0
    PROVE  [Queue!Next]_(Queue!qvars)
<1>1. /\ lost \in Nat /\ lost' = 0 /\ count \in 0 .. UDP_RX_MAX_PACKETS /\ count \in Nat
      /\ arrived \in Nat
  BY DEF IInv, TypeOK
\* A step that leaves the ring alone, and keeps the chain being read or ends it.
<1>2. ASSUME UNCHANGED <<packets, count, dropped>>, Oldest' = Oldest,
             AbsCurrent' \in {AbsCurrent, NULL}
      PROVE  [Queue!Next]_(Queue!qvars)
  <2>1. AbsQueue' = AbsQueue
    BY <1>2, AbsQueueSame
  <2> QED
    BY <1>2, <2>1 DEF Queue!Next, Queue!Finish, Queue!qvars, AbsQueue, AbsCurrent
<1>3. ASSUME NEW tot \in Shapes, do_recv(tot)
      PROVE  [Queue!Next]_(Queue!qvars)
  <2>1. UNCHANGED <<front, _p, pc, lost>> /\ lost = 0 /\ pc # "wild" /\ arrived < MaxArrivals
    BY <1>1, <1>3 DEF do_recv, rxq
  <2>2. Oldest' = Oldest /\ AbsCurrent' = AbsCurrent
    BY <2>1 DEF Oldest, Advance, AbsCurrent, Current
  <2>3. CASE Full
    <3>1. UNCHANGED <<packets, count>> /\ dropped' = dropped + 1
      BY <1>3, <2>3 DEF do_recv, rxq
    <3>2. count = UDP_RX_MAX_PACKETS
      BY <1>1, <2>3, RingAssumption DEF Full
    <3>3. AbsQueue' = AbsQueue /\ Len(AbsQueue) = UDP_RX_MAX_PACKETS
      BY <2>1, <2>2, <3>1, <3>2, AbsQueueSame, AbsQueueAt
    <3> QED
      BY <2>2, <3>1, <3>3 DEF Queue!Next, Queue!Drop, AbsQueue, AbsCurrent
  <2>4. CASE ~ Full
    <3> DEFINE x == pbuf(arrived + 1, tot)
    <3>1. /\ count' = count + 1 /\ packets' = [packets EXCEPT ![rear] = x]
          /\ dropped' = dropped
      BY <1>3, <2>4 DEF do_recv
    <3>2. count < UDP_RX_MAX_PACKETS /\ arrived + 1 \in Datagram
      BY <1>1, <2>1, <2>4, RingAssumption, ShapesAssumption DEF Full, Datagram
    <3>3. x.d = arrived + 1
      BY DEF pbuf
    <3> HIDE DEF x
    <3>4. /\ \A k \in 1 .. count : Waiting'[k] = Waiting[k]
          /\ Waiting'[count + 1] = x
      BY Zenon, <2>1, <2>2, <3>1, <3>2, WaitingAppend DEF IInv
    <3>5. AbsQueue' = Append(AbsQueue, arrived + 1)
      BY <1>1, <2>1, <3>1, <3>2, <3>3, <3>4, AbsDeliver
    <3>6. Len(AbsQueue) < UDP_RX_MAX_PACKETS
      BY <2>1, <3>2, AbsQueueAt
    <3> QED
      BY Zenon, <2>2, <3>1, <3>2, <3>5, <3>6 DEF Queue!Next, Queue!Deliver, AbsQueue, AbsCurrent
  <2> QED
    BY <2>3, <2>4
<1>4. CASE begin \/ stop \/ flush \/ beginPacket \/ endPacket \/ UNCHANGED vars
  <2>1. UNCHANGED <<packets, front, count, _p, pc, dropped>>
    BY <1>4 DEF begin, stop, flush, beginPacket, endPacket, rxq, hist, vars
  <2>2. Oldest' = Oldest /\ AbsCurrent' = AbsCurrent
    BY <2>1 DEF Oldest, Advance, AbsCurrent, Current
  <2> QED
    BY <1>2, <2>1, <2>2
<1>5. CASE parsePacket
  <2>1. /\ UNCHANGED <<packets, front, count, dropped>> /\ pc = "idle"
        /\ pc' \in {"count", "wild"} \/ (pc' = pc /\ _p' = NULL)
    BY <1>5 DEF parsePacket, rxq, hist
  <2>2. Oldest' = Oldest /\ AbsCurrent' = NULL
    BY <2>1 DEF Oldest, Advance, AbsCurrent, Current
  <2> QED
    BY <1>2, <2>1, <2>2
<1>6. CASE parseLoad \/ parseFront
  <2>1. /\ UNCHANGED <<packets, count, _p, dropped>>
        /\ \/ pc = "count" /\ pc' = "store" /\ front' = front
           \/ pc = "front" /\ pc' = "idle" /\ front' = Advance(front)
    BY <1>6 DEF parseLoad, parseFront, rxq, hist
  <2>2. Oldest' = Oldest /\ AbsCurrent' = AbsCurrent
    BY <2>1 DEF Oldest, Advance, AbsCurrent, Current
  <2> QED
    BY <1>2, <2>1, <2>2
<1>7. CASE parseStore
  <2>1. /\ pc = "store" /\ pc' = "front" /\ count' = reg - 1 /\ lost' = lost + (count - reg)
        /\ UNCHANGED <<packets, front, _p, dropped>>
    BY <1>7 DEF parseStore
  <2>2. lost = 0 /\ reg = count /\ count # 0
    BY <1>1, <2>1 DEF IInv, RegInv, TypeOK
  <2>3. \A k \in 1 .. count' : Waiting'[k] = Waiting[k + 1]
    BY <2>1, <2>2, WaitingTail DEF IInv
  <2>4. /\ AbsQueue # <<>> /\ Head(AbsQueue) = Waiting[1].d
        /\ AbsQueue' = Tail(AbsQueue)
    BY <1>1, <2>1, <2>2, <2>3, AbsTake
  <2>5. _p = Waiting[1] /\ _p # NULL
    <3>1. 1 \in 1 .. count
      BY <1>1, <2>2
    <3> QED
      BY SMTT(60), <2>1, <2>2, <3>1, NullAssumption DEF IInv, RingInv
  <2>6. AbsCurrent = NULL /\ AbsCurrent' = Waiting[1].d
    BY <2>1, <2>5 DEF AbsCurrent, Current
  <2> QED
    BY ZenonT(60), <2>1, <2>4, <2>6 DEF Queue!Next, Queue!Take, AbsQueue, AbsCurrent
<1>8. CASE read
  <2>1. /\ UNCHANGED <<packets, front, count, pc, dropped>> /\ pc = "idle"
        /\ _p # NULL
    BY <1>8 DEF read, available, rxq, hist
  <2>2. _p' = _p \/ _p' = NULL \/ _p'.d = _p.d
    <3>1. _p \in Pbuf
      BY <2>1 DEF IInv, TypeOK
    <3> QED
      BY <1>8, <3>1 DEF read, Pbuf
  <2>3. Oldest' = Oldest /\ AbsCurrent' \in {AbsCurrent, NULL}
    BY <2>1, <2>2 DEF Oldest, Advance, AbsCurrent, Current
  <2> QED
    BY <1>2, <2>1, <2>3
<1> QED
  BY <1>3, <1>4, <1>5, <1>6, <1>7, <1>8 DEF Next, Parsing, Halted

\* The receive side of EthernetUDP implements DatagramQueue until an increment
\* of count is lost, for a ring of any size, with do_recv interrupting
\* parsePacket anywhere.
THEOREM UdpRefinesDatagramQueue == Spec => RefinesDatagramQueue
<1>1. IInv /\ IInv' /\ [Next]_vars => [Queue!Next \/ lost' > 0]_(Queue!qvars)
  BY StepRefines
<1> QED
  BY <1>1, InitRefines, Inductive, PTL DEF Spec, RefinesDatagramQueue
=============================================================================
