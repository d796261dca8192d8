---------------------------- MODULE EthernetUdp -----------------------------
(***************************************************************************)
(* EthernetUDP: the ring of received datagrams do_recv fills in the        *)
(* interrupt and parsePacket empties in the sketch, with nothing masked,   *)
(* and the pbufs of the pool they and the packet being sent are made of.   *)
(*                                                                         *)
(* A datagram is its number and its chain of pbufs, given by the tot_len   *)
(* field of each; the addresses that travel with it are not told apart.    *)
(***************************************************************************)
EXTENDS Integers, Sequences, Functions

CONSTANTS
    UDP_RX_MAX_PACKETS,  \* slots of the ring (32)
    PBUF_POOL_SIZE,      \* pbufs of the pool (48)
    TxPbufs,             \* pbufs in UDP_TX_PACKET_MAX_SIZE bytes (5)
    Shapes,              \* bound: the chains datagrams arrive in
    MaxArrivals,         \* bound: datagrams that arrive
    NULL

ASSUME RingAssumption == UDP_RX_MAX_PACKETS \in Nat \ {0}
ASSUME PoolAssumption == PBUF_POOL_SIZE \in Nat /\ TxPbufs \in Nat \ {0}
ASSUME ShapesAssumption == Shapes \subseteq Seq(Nat) \ {<<>>} /\ MaxArrivals \in Nat

Datagram == 1 .. MaxArrivals
Pbuf == [d : Datagram, tot : Seq(Nat) \ {<<>>}]

ASSUME NullAssumption == NULL \notin Pbuf

VARIABLES
    packets, front, rear, count,
    _p,        \* the datagram being read, what is left of its chain
    _read,
    _pcb,      \* "none", "unbound" or "bound"
    _sendTop,  \* pbufs of the packet being written
    live,      \* for each datagram, how many of its pbufs are not yet freed
    pc,        \* where the sketch is in parsePacket; "wild" after it took a freed chain
    reg,       \* the register parsePacket has count in
    arrived,   \* history: datagrams so far
    dropped,   \* history: those do_recv threw away
    lost       \* history: increments of count that parsePacket undid

rxq == <<packets, front, rear, count>>
hist == <<arrived, dropped, lost>>
vars == <<rxq, _p, _read, _pcb, _sendTop, live, pc, reg, hist>>

Slot == 0 .. UDP_RX_MAX_PACKETS - 1

\* The object is static: what the constructor leaves out (rear) is zero.
Init ==
    /\ packets = [i \in Slot |-> NULL]
    /\ front = 0
    /\ rear = 0
    /\ count = 0
    /\ _p = NULL
    /\ _read = 0
    /\ _pcb = "none"
    /\ _sendTop = 0
    /\ live = [d \in Datagram |-> 0]
    /\ pc = "idle"
    /\ reg = 0
    /\ arrived = 0
    /\ dropped = 0
    /\ lost = 0

-----------------------------------------------------------------------------
\* Mutant of Advance: no wrap at the end of the array.
Advance_late(i) == IF i = UDP_RX_MAX_PACKETS THEN 0 ELSE i + 1

Advance(i) == IF i + 1 = UDP_RX_MAX_PACKETS THEN 0 ELSE i + 1

pbuf(d, tot) == [d |-> d, tot |-> tot]

\* tot_len of a pbuf counts it and those behind it, len only itself.
tot_len(p) == Head(p.tot)
len(p) == IF Len(p.tot) > 1 THEN p.tot[1] - p.tot[2] ELSE p.tot[1]

\* pbuf_free of a whole chain.
Freed(p) == IF p = NULL THEN live ELSE [live EXCEPT ![p.d] = @ - Len(p.tot)]

\* pbufs out of the pool.
PoolUsed == SumFunction(live) + _sendTop

-----------------------------------------------------------------------------
(* The interrupt.                                                          *)

\* Mutant of Full: the last slot stays empty.
Full_early == count + 1 >= UDP_RX_MAX_PACKETS

Full == count >= UDP_RX_MAX_PACKETS

\* A datagram in a chain of the given shape comes in, if the driver finds
\* the pbufs.  The ring keeps it, or the chain is freed at once.
do_recv(tot) ==
    /\ _pcb = "bound"
    /\ pc # "wild"
    /\ arrived < MaxArrivals
    /\ PoolUsed + Len(tot) <= PBUF_POOL_SIZE
    /\ arrived' = arrived + 1
    /\ IF Full
       THEN /\ dropped' = dropped + 1
            /\ UNCHANGED <<rxq, live>>
       ELSE /\ count' = count + 1
            /\ packets' = [packets EXCEPT ![rear] = pbuf(arrived + 1, tot)]
            /\ rear' = Advance(rear)
            /\ live' = [live EXCEPT ![arrived + 1] = Len(tot)]
            /\ UNCHANGED <<front, dropped>>
    /\ UNCHANGED <<_p, _read, _pcb, _sendTop, pc, reg, lost>>

-----------------------------------------------------------------------------
(* The sketch: begin and stop in turn, and beginPacket before endPacket.   *)

\* udp_bind may find the port taken; the pcb stays all the same.
begin ==
    /\ pc = "idle"
    /\ _pcb = "none"
    /\ _pcb' \in {"bound", "unbound"}
    /\ UNCHANGED <<rxq, _p, _read, _sendTop, live, pc, reg, hist>>

\* udp_remove: the ring keeps its datagrams.
stop ==
    /\ pc = "idle"
    /\ _pcb # "none"
    /\ _pcb' = "none"
    /\ UNCHANGED <<rxq, _p, _read, _sendTop, live, pc, reg, hist>>

\* Mutant of NoMorePackets: the last one is not seen.
NoMorePackets_last == count <= 1

NoMorePackets == count = 0

\* parsePacket up to the copy of the front slot: 0 when count is.  The check
\* leaves count in a register.
parsePacket ==
    /\ pc = "idle"
    /\ _read' = 0
    /\ live' = Freed(_p)
    /\ IF NoMorePackets
       THEN _p' = NULL /\ UNCHANGED <<pc, reg>>
       ELSE /\ _p' = packets[front]
            /\ reg' = count
            /\ pc' = IF live'[_p'.d] = Len(_p'.tot) THEN "count" ELSE "wild"
    /\ UNCHANGED <<rxq, _pcb, _sendTop, hist>>

\* count-- is a load and a store.  count is not volatile: the load may be the
\* one of the check.
parseLoad ==
    /\ pc = "count"
    /\ reg' \in {reg, count}
    /\ pc' = "store"
    /\ UNCHANGED <<rxq, _p, _read, _pcb, _sendTop, live, hist>>

\* Mutant of parseStore: the datagram is not taken off.
parseStore_same ==
    /\ pc = "store"
    /\ count' = reg
    /\ lost' = lost + (count - reg)
    /\ pc' = "front"
    /\ UNCHANGED <<packets, front, rear, _p, _read, _pcb, _sendTop, live, reg, arrived, dropped>>

\* The store undoes every increment since the load.
parseStore ==
    /\ pc = "store"
    /\ count' = reg - 1
    /\ lost' = lost + (count - reg)
    /\ pc' = "front"
    /\ UNCHANGED <<packets, front, rear, _p, _read, _pcb, _sendTop, live, reg, arrived, dropped>>

parseFront ==
    /\ pc = "front"
    /\ front' = Advance(front)
    /\ pc' = "idle"
    /\ reg' = 0
    /\ UNCHANGED <<packets, rear, count, _p, _read, _pcb, _sendTop, live, hist>>

available == IF _p = NULL THEN 0 ELSE tot_len(_p) - _read

\* Mutant of FirstFreed: pbuf_free without the pbuf_ref before it.
FirstFreed_unref == Freed(_p)

\* pbuf_ref on the second pbuf, pbuf_free on the first: one goes.
FirstFreed == [live EXCEPT ![_p.d] = @ - 1]

\* One byte; -1 when nothing is available.
read ==
    /\ pc = "idle"
    /\ available # 0
    /\ IF _read + 1 = len(_p)
       THEN /\ _read' = 0
            /\ live' = FirstFreed
            /\ _p' = IF Len(_p.tot) > 1 THEN [_p EXCEPT !.tot = Tail(@)] ELSE NULL
       ELSE /\ _read' = _read + 1
            /\ UNCHANGED <<live, _p>>
    /\ UNCHANGED <<rxq, _pcb, _sendTop, pc, reg, hist>>

flush ==
    /\ pc = "idle"
    /\ available # 0
    /\ _read' = tot_len(_p)
    /\ UNCHANGED <<rxq, _p, _pcb, _sendTop, live, pc, reg, hist>>

\* pbuf_alloc takes all the pbufs or none, and then beginPacket fails.
beginPacket ==
    /\ pc = "idle"
    /\ _sendTop = 0
    /\ PoolUsed + TxPbufs <= PBUF_POOL_SIZE
    /\ _sendTop' = TxPbufs
    /\ UNCHANGED <<rxq, _p, _read, _pcb, live, pc, reg, hist>>

\* pbuf_realloc frees what was not written to, and endPacket the rest.
endPacket ==
    /\ pc = "idle"
    /\ _pcb # "none"
    /\ _sendTop # 0
    /\ _sendTop' = 0
    /\ UNCHANGED <<rxq, _p, _read, _pcb, live, pc, reg, hist>>

\* After reading through a freed chain anything may happen.
Halted == pc = "wild" /\ UNCHANGED vars

Parsing == parsePacket \/ parseLoad \/ parseStore \/ parseFront

Next ==
    \/ \E tot \in Shapes : do_recv(tot)
    \/ begin \/ stop
    \/ Parsing
    \/ read \/ flush
    \/ beginPacket \/ endPacket
    \/ Halted

\* The sketch's loop calls parsePacket again and again.
Spec == Init /\ [][Next]_vars /\ WF_vars(Parsing)

-----------------------------------------------------------------------------
TypeOK ==
    /\ packets \in [Slot -> Pbuf \cup {NULL}]
    /\ front \in Slot
    /\ rear \in Slot
    /\ count \in 0 .. UDP_RX_MAX_PACKETS
    /\ _p \in Pbuf \cup {NULL}
    /\ _read \in Nat
    /\ _pcb \in {"none", "unbound", "bound"}
    /\ _sendTop \in {0, TxPbufs}
    /\ live \in [Datagram -> Nat]
    /\ pc \in {"idle", "count", "store", "front", "wild"}
    /\ reg \in 0 .. UDP_RX_MAX_PACKETS
    /\ arrived \in 0 .. MaxArrivals
    /\ dropped \in Nat
    /\ lost \in Nat

\* Where the oldest datagram is that parsePacket has not taken: between the
\* store of count and the one of front, one slot on.
Oldest == IF pc = "front" THEN Advance(front) ELSE front

Waiting == [k \in 1 .. count |-> packets[(Oldest + k - 1) % UDP_RX_MAX_PACKETS]]

\* parsePacket takes a datagram with the store of count.
Current == IF pc \in {"idle", "front"} THEN _p ELSE NULL

Queue == INSTANCE DatagramQueue WITH
    Cap <- UDP_RX_MAX_PACKETS, None <- NULL,
    q <- [k \in DOMAIN Waiting |-> Waiting[k].d],
    cur <- IF Current = NULL THEN NULL ELSE Current.d

\* As long as no increment of count was lost, the ring, its two indices and
\* the count, changed by do_recv in the interrupt and step by step by
\* parsePacket, are DatagramQueue: datagrams come out once each, in order of
\* arrival, and one is dropped only when UDP_RX_MAX_PACKETS are waiting.
RefinesDatagramQueue == Queue!Init /\ [][Queue!Next \/ lost' > 0]_(Queue!qvars)

\* count-- of parsePacket is not atomic and count++ of do_recv can come in
\* between.  Each increment lost that way stays lost: from then on rear runs
\* that many slots ahead of what front and count say, and as many datagrams
\* wait in the ring that parsePacket does not see.
RearAhead == pc # "wild" => rear = (Oldest + count + lost) % UDP_RX_MAX_PACKETS

\* Until then, the pbufs out of the pool are those of the datagrams waiting,
\* what is left of the one being read, and the packet being written: neither
\* read(), parsePacket nor the drop in do_recv leaks one or frees it twice.
PbufsAccounted ==
    lost = 0 =>
        live = [d \in Datagram |->
                 IF _p # NULL /\ _p.d = d THEN Len(_p.tot)
                 ELSE IF \E k \in 1 .. count : Waiting[k].d = d
                 THEN Len((CHOOSE w \in Range(Waiting) : w.d = d).tot) ELSE 0]

\* A datagram the ring took is handed to the sketch, whatever arrives behind
\* it, and also after stop(), unless an increment of count is lost.
DatagramHandedOut ==
    \A d \in Datagram :
        (\E k \in 1 .. count : Waiting[k].d = d)
            ~> (lost > 0 \/ (Current # NULL /\ Current.d = d))
=============================================================================
