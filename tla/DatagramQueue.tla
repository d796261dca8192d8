--------------------------- MODULE DatagramQueue ----------------------------
(***************************************************************************)
(* What EthernetUDP promises of its receive side: a bounded queue of       *)
(* datagrams, and one datagram that is being read.                         *)
(***************************************************************************)
EXTENDS Naturals, Sequences

CONSTANTS Datagram, Cap, None

VARIABLES
    q,        \* datagrams waiting for parsePacket
    cur,      \* the one being read
    dropped   \* how many were thrown away

Init ==
    /\ q = <<>>
    /\ cur = None
    /\ dropped = 0

Deliver ==
    /\ Len(q) < Cap
    /\ \E d \in Datagram : q' = Append(q, d)
    /\ UNCHANGED <<cur, dropped>>

Drop ==
    /\ Len(q) = Cap
    /\ dropped' = dropped + 1
    /\ UNCHANGED <<q, cur>>

\* The one being read was read to its end, or is given up for the next.
Finish ==
    /\ cur' = None
    /\ UNCHANGED <<q, dropped>>

Take ==
    /\ q # <<>>
    /\ cur = None
    /\ cur' = Head(q)
    /\ q' = Tail(q)
    /\ UNCHANGED dropped

Next == Deliver \/ Drop \/ Finish \/ Take

qvars == <<q, cur, dropped>>
=============================================================================
