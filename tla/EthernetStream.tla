--------------------------- MODULE EthernetStream ---------------------------
(***************************************************************************)
(* The receive side of one accepted connection: the pbuf chain do_recv     *)
(* builds on the slot, the read position in it, and lwIP's receive window. *)
(* read(), flush() and stop() mask the interrupt and the callbacks run in  *)
(* it, so each of them is one step.                                        *)
(*                                                                         *)
(* A byte is its position in what the peer sent on the connection.         *)
(***************************************************************************)
EXTENDS Integers, Sequences, FiniteSetsExt

CONSTANTS
    TCP_WND,    \* the receive window (11680 in lwipopts.h)
    MaxSeg,     \* bound: bytes in one segment
    MaxEmpty,   \* bound: empty pbufs at the head of one segment
    MaxBytes,   \* bound: bytes the peer sends on one connection
    MaxConns    \* bound: connections the slot is used for

ASSUME WindowAssumption == TCP_WND \in Nat \ {0} /\ MaxSeg \in Nat \ {0}
ASSUME LimitsAssumption == MaxEmpty \in Nat /\ MaxBytes \in Nat /\ MaxConns \in Nat

VARIABLES
    cpcb,      \* struct client: whether cpcb is set
    p,         \* the chain: each pbuf has its payload, tot_len and reference count
    read,      \* how far the first pbuf has been read
    rcv_wnd,   \* struct tcp_pcb
    state,     \* what became of the tcp_pcb: ESTABLISHED, CLOSING or RESET
    pool,      \* pbufs taken from the pool and not given back
    sent,      \* history: bytes the peer has sent on this connection
    got,       \* history: what read() returned on this connection
    flushed,   \* history: flush() discarded bytes of this connection
    conns      \* history: connections so far

vars == <<cpcb, p, read, rcv_wnd, state, pool, sent, got, flushed, conns>>

Garbage == 0  \* what lies past the payload of a pbuf

Init ==
    /\ cpcb = FALSE
    /\ p = <<>>
    /\ read = 0
    /\ rcv_wnd = TCP_WND
    /\ state = "CLOSING"
    /\ pool = 0
    /\ sent = 0
    /\ got = <<>>
    /\ flushed = FALSE
    /\ conns = 0

-----------------------------------------------------------------------------
\* tot_len counts the bytes of a pbuf and of those behind it.
pbuf(data, tot) == [data |-> data, tot_len |-> tot, ref |-> 1]
tot_len(c) == c[1].tot_len

\* pbuf_cat hands the reference on t to the chain.
pbuf_cat(c, t) ==
    [k \in DOMAIN c |-> [c[k] EXCEPT !.tot_len = @ + tot_len(t)]] \o t

\* Mutant of pbuf_ref: the reference is not taken.
pbuf_ref_none(c) == c

pbuf_ref(c) == [c EXCEPT ![1].ref = @ + 1]

\* pbuf_free drops a reference on the head of chain c; each pbuf that has none
\* left goes back to the pool and takes the reference on the next with it.
FreedCount(c) == Max({k \in 0 .. Len(c) : \A j \in 1 .. k : c[j].ref = 1})

pbuf_free(c) ==
    [k \in DOMAIN c |-> [c[k] EXCEPT !.ref = IF k <= FreedCount(c) + 1 THEN @ - 1 ELSE @]]

\* Mutant of tcp_recved: no clamp.
tcp_recved_open(n) == rcv_wnd + n

\* tcp_recved opens the window by n, and never beyond TCP_WND.
tcp_recved(n) == Min({rcv_wnd + n, TCP_WND})

-----------------------------------------------------------------------------
\* Mutant of do_accept: the read position of the last connection stays.
do_accept_kept ==
    /\ ~ cpcb
    /\ conns < MaxConns
    /\ cpcb' = TRUE
    /\ p' = <<>>
    /\ rcv_wnd' = TCP_WND
    /\ state' = "ESTABLISHED"
    /\ sent' = 0
    /\ got' = <<>>
    /\ flushed' = FALSE
    /\ conns' = conns + 1
    /\ UNCHANGED <<read, pool>>

\* do_accept clears the slot and puts the connection there.
do_accept ==
    /\ ~ cpcb
    /\ conns < MaxConns
    /\ cpcb' = TRUE
    /\ p' = <<>>
    /\ read' = 0
    /\ rcv_wnd' = TCP_WND
    /\ state' = "ESTABLISHED"
    /\ sent' = 0
    /\ got' = <<>>
    /\ flushed' = FALSE
    /\ conns' = conns + 1
    /\ UNCHANGED pool

\* The next n bytes, in one pbuf or a chain of two (longer chains are made of
\* these by pbuf_cat).
Fresh(n, m) ==
    IF m = n
    THEN <<pbuf([k \in 1 .. n |-> sent + k], n)>>
    ELSE <<pbuf([k \in 1 .. m |-> sent + k], n),
           pbuf([k \in 1 .. n - m |-> sent + m + k], n - m)>>

\* What tcp_receive passes on of a segment whose first bytes have been received
\* before: the e pbufs that held nothing else stay at its head with len 0.
Segment(e, n, m) == [k \in 1 .. e |-> pbuf(<<>>, n)] \o Fresh(n, m)

\* A segment with n new bytes reaches do_recv.  lwIP trims what the window has
\* no room for.
do_recv(e, n, m) ==
    /\ cpcb
    /\ e <= sent
    /\ n <= rcv_wnd
    /\ sent + n <= MaxBytes
    /\ p' = IF p # <<>> THEN pbuf_cat(p, Segment(e, n, m)) ELSE Segment(e, n, m)
    /\ pool' = pool + Len(Segment(e, n, m))
    /\ rcv_wnd' = rcv_wnd - n
    /\ sent' = sent + n
    /\ UNCHANGED <<cpcb, read, state, got, flushed, conns>>

available == IF p = <<>> THEN 0 ELSE tot_len(p) - read

\* The byte read() and peek() take: indexing the payload of the first pbuf.
NextByte == IF read < Len(p[1].data) THEN p[1].data[read + 1] ELSE Garbage

\* Mutant of Credit: the read position before it moves.
Credit_before == read

\* What read() tells tcp_recved: the read position, once it has moved.
Credit == read + 1

\* read(): one byte.
readLocked ==
    /\ available # 0
    /\ got' = Append(got, NextByte)
    /\ rcv_wnd' = IF cpcb THEN tcp_recved(Credit) ELSE rcv_wnd
    /\ IF read + 1 # Len(p[1].data)
       THEN /\ read' = read + 1
            /\ UNCHANGED <<p, pool>>
       ELSE LET c == IF Len(p) > 1 THEN <<p[1]>> \o pbuf_ref(Tail(p)) ELSE p IN
            /\ read' = 0
            /\ p' = Tail(pbuf_free(c))
            /\ pool' = pool - FreedCount(c)
    /\ UNCHANGED <<cpcb, state, sent, flushed, conns>>

\* flush(): move the read position to the end of the chain.
flush ==
    /\ available # 0
    /\ read' = tot_len(p)
    /\ rcv_wnd' = tcp_recved(0)
    /\ flushed' = TRUE
    /\ UNCHANGED <<cpcb, p, state, pool, sent, got, conns>>

\* tcp_close with window w: data the application has not taken means a reset.
tcp_close(w) == IF w # TCP_WND THEN "RESET" ELSE "CLOSING"

\* Mutant of CreditRest: unread bytes are not credited.
CreditRest_none == rcv_wnd

CreditRest == IF p # <<>> THEN tcp_recved(tot_len(p)) ELSE rcv_wnd

\* What do_close (the peer's FIN) and stop() do to the chain: the rest of it
\* is credited and freed, and the connection closed.
CloseSlot ==
    /\ cpcb
    /\ cpcb' = FALSE
    /\ rcv_wnd' = CreditRest
    /\ state' = tcp_close(rcv_wnd')
    /\ p' = <<>>
    /\ pool' = pool - FreedCount(p)
    /\ UNCHANGED <<sent, got, flushed, conns>>

do_close == CloseSlot /\ read' = 0

stop == CloseSlot /\ UNCHANGED read

\* A RST: lwIP frees the block, do_err the chain.
do_err ==
    /\ cpcb
    /\ cpcb' = FALSE
    /\ state' = "CLOSING"
    /\ p' = <<>>
    /\ pool' = pool - FreedCount(p)
    /\ read' = 0
    /\ UNCHANGED <<rcv_wnd, sent, got, flushed, conns>>

Next ==
    \/ do_accept
    \/ \E e \in 0 .. MaxEmpty, n \in 1 .. MaxSeg : \E m \in 1 .. n : do_recv(e, n, m)
    \/ readLocked
    \/ flush
    \/ do_close
    \/ stop
    \/ do_err

Spec == Init /\ [][Next]_vars

\* The sketch reads what is available.
FairSpec == Spec /\ WF_vars(readLocked)

-----------------------------------------------------------------------------
\* Byte i of what a chain holds: in the pbuf that ends there or behind, with
\* what the pbufs before it hold taken off.
Before(c, k) == tot_len(c) - c[k].tot_len
ByteAt(c, i) ==
    LET k == Min({j \in DOMAIN c : i <= Before(c, j) + Len(c[j].data)})
    IN c[k].data[i - Before(c, k)]

Unread == [i \in 1 .. available |-> ByteAt(p, read + i)]

Pbuf == [data : Seq(1 .. MaxBytes), tot_len : 0 .. MaxBytes, ref : Nat]

TypeOK ==
    /\ cpcb \in BOOLEAN
    /\ p \in Seq(Pbuf)
    /\ read \in 0 .. MaxBytes
    /\ rcv_wnd \in 0 .. TCP_WND
    /\ state \in {"ESTABLISHED", "CLOSING", "RESET"}
    /\ pool \in Nat
    /\ sent \in 0 .. MaxBytes
    /\ got \in Seq(0 .. MaxBytes)
    /\ flushed \in BOOLEAN
    /\ conns \in 0 .. MaxConns

\* The promise of ByteStream, which the chain, the read position and the
\* reference counts implement: no byte is lost, repeated or reordered where
\* one pbuf ends and the next begins, or when the slot gets a new connection.
\* Two kinds of read() break it, because they index the payload of the first
\* pbuf past its end.  flush() leaves the read position there; and when the
\* first pbuf is an empty one the position never reaches its length, so read()
\* goes on in that pbuf until the connection ends.  They count as a read() of
\* the next byte, but the byte they return is what lies there.
Promise == INSTANCE ByteStream WITH
    Byte <- 1 .. MaxBytes, open <- cpcb, pending <- Unread,
    last <- [n |-> Len(got), byte |-> IF got = <<>> THEN 0 ELSE got[Len(got)]]

PastPayload ==
    /\ flushed \/ p[1].data = <<>>
    /\ readLocked
    /\ Unread' = Tail(Unread)

RefinesByteStream ==
    Promise!Init /\ [][Promise!Next \/ PastPayload]_(Promise!svars)

\* What the slot lets go of is given back.  The pbuf_ref and pbuf_free of
\* readLocked and the pbuf_free of the close paths leave out of the pool the
\* chain, with each pbuf of it referenced once; and however reads are credited,
\* a connection whose data has all been read offers the whole window again.
BuffersReturned ==
    /\ pool = Len(p)
    /\ \A k \in DOMAIN p : p[k].ref = 1
    /\ cpcb /\ p = <<>> => rcv_wnd = TCP_WND

\* do_close and stop() credit what is unread before they call tcp_close, so
\* it never takes the branch that resets the connection, and frees the block
\* under the caller when the peer has closed.
CloseIsClean == state # "RESET"

\* A peer held off by a closed window can go on: the window opens again, or
\* the connection ends.  Only flush() can leave it closed, when all the bytes
\* that fill it are discarded: it credits none of them.
WindowNeverStuck == (cpcb /\ rcv_wnd = 0) ~> (rcv_wnd > 0 \/ ~ cpcb \/ flushed)
=============================================================================
