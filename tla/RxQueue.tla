------------------------------ MODULE RxQueue -------------------------------
(***************************************************************************)
(* What HardwareSerial promises of its receive side: a bounded queue.      *)
(* Characters wait on the line (the UART's own FIFO), enter the queue in   *)
(* order, and are only thrown away when the queue, or the line, is full.   *)
(***************************************************************************)
EXTENDS Naturals, Sequences

CONSTANTS Char, Cap, LineCap

VARIABLES
    line, q, out,
    clearing   \* begin() or end() is emptying the port

Init ==
    /\ line = <<>>
    /\ q = <<>>
    /\ out = 0

Arrive ==
    /\ \/ /\ Len(line) < LineCap
          /\ \E c \in Char : line' = Append(line, c)
       \/ /\ Len(line) = LineCap
          /\ UNCHANGED line
    /\ UNCHANGED <<q, out>>

\* m characters enter the queue; if that fills it one more may be lost.
Receive ==
    \E m \in 0 .. Len(line) :
        /\ q' = q \o SubSeq(line, 1, m)
        /\ Len(q') <= Cap
        /\ \/ line' = SubSeq(line, m + 1, Len(line))
           \/ Len(q') = Cap /\ m < Len(line) /\ line' = SubSeq(line, m + 2, Len(line))
        /\ UNCHANGED out

Take ==
    /\ q # <<>>
    /\ out' = Head(q)
    /\ q' = Tail(q)
    /\ UNCHANGED line

\* begin() empties the line, and begin() and end() the queue.
Clear ==
    /\ clearing'
    /\ \/ line' = <<>> /\ UNCHANGED q
       \/ q' = <<>> /\ UNCHANGED line
    /\ UNCHANGED out

Next == Arrive \/ Receive \/ Take \/ Clear

qvars == <<line, q, out>>
=============================================================================
