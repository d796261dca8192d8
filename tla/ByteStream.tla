----------------------------- MODULE ByteStream -----------------------------
(***************************************************************************)
(* What the sketch is promised about the receive side of one connection:   *)
(* the bytes the peer sent, in order, each delivered at most once, until   *)
(* they are discarded or the connection goes away and takes them with it.  *)
(***************************************************************************)
EXTENDS Naturals, Sequences

CONSTANT Byte

VARIABLES
    open,     \* the connection is there
    pending,  \* bytes received and not yet read
    last      \* the byte the last read returned, and how many were returned

Init ==
    /\ open = FALSE
    /\ pending = <<>>
    /\ last = [n |-> 0, byte |-> 0]

Open ==
    /\ ~ open
    /\ open' = TRUE
    /\ pending' = <<>>
    /\ last' = [n |-> 0, byte |-> 0]

Arrive ==
    /\ open
    /\ Len(pending') > Len(pending)
    /\ SubSeq(pending', 1, Len(pending)) = pending
    /\ UNCHANGED <<open, last>>

Take ==
    /\ pending # <<>>
    /\ last' = [n |-> last.n + 1, byte |-> Head(pending)]
    /\ pending' = Tail(pending)
    /\ UNCHANGED open

\* flush(): what is pending is thrown away.
Discard ==
    /\ pending' = <<>>
    /\ UNCHANGED <<open, last>>

Close ==
    /\ open
    /\ open' = FALSE
    /\ pending' = <<>>
    /\ UNCHANGED last

Next == Open \/ Arrive \/ Take \/ Discard \/ Close

svars == <<open, pending, last>>
=============================================================================
