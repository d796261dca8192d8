--------------------------- MODULE EthernetServer ---------------------------
(***************************************************************************)
(* The slot table of EthernetServer and the EthernetClient handles onto    *)
(* it (libraries/Ethernet/EthernetServer.cpp, EthernetClient.cpp).         *)
(*                                                                         *)
(* Two contexts share the table.  The Ethernet interrupt runs lwIP and its *)
(* callbacks do_accept, do_recv, do_close, do_err and do_poll; it runs to  *)
(* completion, so every callback is one step.  The sketch runs accept(),   *)
(* available(), write(), read() and stop(); read() and stop() mask the     *)
(* interrupt and are one step, the others are preempted between any two    *)
(* accesses to shared memory, so each access that matters is a step.       *)
(*                                                                         *)
(* A queued pbuf is abstracted to the connection it arrived on (one byte   *)
(* per pbuf); EthernetStream models the pbuf chain and the window.         *)
(***************************************************************************)
EXTENDS Naturals, Sequences

CONSTANTS
    MAX_CLIENTS,  \* slots of one server (8 in the code)
    Pcbs,         \* addresses of lwIP's tcp_pcb pool; a freed one is reused
    Ports,        \* remote ports; two peers may pick the same one
    Handles,      \* EthernetClient objects of the sketch
    NULL,
    GenMax,       \* largest value of the 16-bit generation (65535)
    MaxAccepts,   \* bound: connections accepted in a behaviour
    MaxQueue      \* bound: pbufs queued on one slot

ASSUME ClientsAssumption == MAX_CLIENTS \in Nat \ {0}
ASSUME GenAssumption == GenMax \in Nat \ {0}
ASSUME NullAssumption == NULL \notin Pcbs /\ NULL \notin Nat
ASSUME PortsAssumption == Ports \subseteq Nat \ {0}
ASSUME BoundsAssumption == MaxAccepts \in Nat /\ MaxQueue \in Nat

VARIABLES
    \* struct tcp_pcb
    state,         \* TCP state, "FREE" when the block is back in the pool
    remote_port,
    callback_arg,  \* the slot, while the server's callbacks are installed
    poll,          \* the close-retry callback is installed
    serial,        \* history: the number of the connection, 0 before accept
    \* struct client clients[MAX_CLIENTS]
    port, cpcb, p, generation, claimed,
    conn,          \* history: the number of the connection last put there
    \* the rest of EthernetServer
    serverGeneration, lastClient,
    accepts,       \* history: connections accepted so far
    \* the sketch
    handle,        \* slot (NULL: self-owned, never connected) and generation
    th,            \* where the sketch is inside a server or client call
    handed         \* history: the connections accept() returned, each with
                   \* whether it is the one whose slot was marked claimed

lwip == <<state, remote_port, callback_arg, poll, serial>>
slots == <<port, cpcb, p, generation, claimed, conn>>
server == <<serverGeneration, lastClient, accepts>>
sketch == <<handle, th, handed>>
vars == <<lwip, slots, server, sketch>>

Slots == 0 .. MAX_CLIENTS - 1
States == {"FREE", "SYN_RCVD", "ESTABLISHED", "CLOSE_WAIT", "CLOSING"}
    \* CLOSING: FIN_WAIT_1/2, LAST_ACK or TIME_WAIT, left to lwIP's timers

NoClient == [slot |-> NULL, gen |-> 0, conn |-> 0]
Idle == [pc |-> "idle", op |-> "none", h |-> NULL, n |-> 0, i |-> 0,
         c |-> NULL, w |-> NoClient]

Init ==
    /\ state = [a \in Pcbs |-> "FREE"]
    /\ remote_port = [a \in Pcbs |-> 0]
    /\ callback_arg = [a \in Pcbs |-> NULL]
    /\ poll = [a \in Pcbs |-> FALSE]
    /\ serial = [a \in Pcbs |-> 0]
    /\ port = [s \in Slots |-> 0]
    /\ cpcb = [s \in Slots |-> NULL]
    /\ p = [s \in Slots |-> <<>>]
    /\ generation = [s \in Slots |-> 0]
    /\ claimed = [s \in Slots |-> FALSE]
    /\ conn = [s \in Slots |-> 0]
    /\ serverGeneration = 0
    /\ lastClient = 0
    /\ accepts = 0
    /\ handle = [h \in Handles |-> NoClient]
    /\ th = Idle
    /\ handed = {}

-----------------------------------------------------------------------------
(* lwIP and the callbacks: the Ethernet interrupt.                         *)

\* memp_free: what a freed block still holds is nobody's to use.
FreePcb(a) ==
    /\ state' = [state EXCEPT ![a] = "FREE"]
    /\ remote_port' = [remote_port EXCEPT ![a] = 0]
    /\ callback_arg' = [callback_arg EXCEPT ![a] = NULL]
    /\ poll' = [poll EXCEPT ![a] = FALSE]
    /\ serial' = [serial EXCEPT ![a] = 0]

\* Mutants of tcp_close: the callbacks stay installed; no retry is arranged.
tcp_close_attached(a, st) ==
    \E r \in {"CLOSING", st} :
        /\ state' = [state EXCEPT ![a] = r]
        /\ poll' = [poll EXCEPT ![a] = (r = st)]
        /\ UNCHANGED <<remote_port, callback_arg, serial>>

tcp_close_once(a, st) ==
    \E r \in {"CLOSING", st} :
        /\ state' = [state EXCEPT ![a] = r]
        /\ callback_arg' = [callback_arg EXCEPT ![a] = NULL]
        /\ UNCHANGED <<remote_port, poll, serial>>

\* tcp_close on a block in state st whose callbacks are being detached, or
\* already are.  The FIN may find no memory: the state stays and the poll
\* callback will try again.  (The window is fully open by then, which
\* EthernetStream checks, so tcp_close does not reset and free the block.)
tcp_close(a, st) ==
    \E r \in {"CLOSING", st} :
        /\ state' = [state EXCEPT ![a] = r]
        /\ callback_arg' = [callback_arg EXCEPT ![a] = NULL]
        /\ poll' = [poll EXCEPT ![a] = (r = st)]
        /\ UNCHANGED <<remote_port, serial>>

\* The slot is free again: port, cpcb and the queue are cleared; generation
\* and claimed stay until do_accept recycles the slot.
ReleaseSlot(s) ==
    /\ port' = [port EXCEPT ![s] = 0]
    /\ cpcb' = [cpcb EXCEPT ![s] = NULL]
    /\ p' = [p EXCEPT ![s] = <<>>]
    /\ UNCHANGED <<generation, claimed, conn>>

\* do_close for block a, in CLOSE_WAIT, whose callback argument is slot s.
do_close(a, s) ==
    IF cpcb[s] = a
    THEN tcp_close(a, "CLOSE_WAIT") /\ ReleaseSlot(s)
    ELSE /\ state' = [state EXCEPT ![a] = "CLOSE_WAIT"]
         /\ callback_arg' = [callback_arg EXCEPT ![a] = NULL]
         /\ poll' = [poll EXCEPT ![a] = FALSE]
         /\ UNCHANGED <<remote_port, serial, slots>>

\* A SYN on the listening port takes a block from the pool.
tcp_listen_input(a, q) ==
    /\ state[a] = "FREE"
    /\ state' = [state EXCEPT ![a] = "SYN_RCVD"]
    /\ remote_port' = [remote_port EXCEPT ![a] = q]
    /\ UNCHANGED <<callback_arg, poll, serial, slots, server, sketch>>

\* Mutants of NextGeneration: no wrap; no increment.
NextGeneration_wide == serverGeneration + 1

NextGeneration_same == serverGeneration

\* ++_generation is 16 bits wide and skips 0.
NextGeneration == IF serverGeneration = GenMax THEN 1 ELSE serverGeneration + 1

\* The handshake completes and do_accept puts the connection in the first
\* slot whose port is 0.
do_accept(a) ==
    /\ state[a] = "SYN_RCVD"
    /\ accepts < MaxAccepts
    /\ \E s \in Slots :
        /\ port[s] = 0
        /\ \A t \in Slots : t < s => port[t] # 0
        /\ callback_arg' = [callback_arg EXCEPT ![a] = s]
        /\ generation' = [generation EXCEPT ![s] = NextGeneration]
        /\ cpcb' = [cpcb EXCEPT ![s] = a]
        /\ port' = [port EXCEPT ![s] = remote_port[a]]
        /\ p' = [p EXCEPT ![s] = <<>>]
        /\ claimed' = [claimed EXCEPT ![s] = FALSE]
        /\ conn' = [conn EXCEPT ![s] = accepts + 1]
    /\ state' = [state EXCEPT ![a] = "ESTABLISHED"]
    /\ serial' = [serial EXCEPT ![a] = accepts + 1]
    /\ serverGeneration' = NextGeneration
    /\ accepts' = accepts + 1
    /\ UNCHANGED <<remote_port, poll, lastClient, sketch>>

\* do_accept finds no free slot: ERR_MEM, and lwIP aborts the connection.
do_accept_full(a) ==
    /\ state[a] = "SYN_RCVD"
    /\ \A s \in Slots : port[s] # 0
    /\ FreePcb(a)
    /\ UNCHANGED <<slots, server, sketch>>

\* Mutant of do_recv: the slot is looked up by remote port, as it once was.
do_recv_by_port(a) ==
    /\ state[a] = "ESTABLISHED"
    /\ callback_arg[a] # NULL
    /\ \E s \in Slots :
        /\ port[s] = remote_port[a]
        /\ Len(p[s]) < MaxQueue
        /\ p' = [p EXCEPT ![s] = Append(@, serial[a])]
    /\ UNCHANGED <<lwip, port, cpcb, generation, claimed, conn, server, sketch>>

\* Data for block a.  do_recv queues it on the slot, or refuses it when the
\* slot belongs to another block; on a block the application has closed the
\* callback is gone and lwIP aborts the connection.
do_recv(a) ==
    /\ state[a] = "ESTABLISHED"
    /\ IF callback_arg[a] = NULL
       THEN FreePcb(a) /\ UNCHANGED slots
       ELSE LET s == callback_arg[a] IN
            /\ cpcb[s] = a => Len(p[s]) < MaxQueue
            /\ p' = IF cpcb[s] = a THEN [p EXCEPT ![s] = Append(@, serial[a])] ELSE p
            /\ UNCHANGED <<lwip, port, cpcb, generation, claimed, conn>>
    /\ UNCHANGED <<server, sketch>>

\* The peer's FIN: lwIP enters CLOSE_WAIT and calls do_recv without a pbuf,
\* which closes; with the callback gone only the state changes.
do_recv_fin(a) ==
    /\ state[a] = "ESTABLISHED"
    /\ IF callback_arg[a] = NULL
       THEN /\ state' = [state EXCEPT ![a] = "CLOSE_WAIT"]
            /\ UNCHANGED <<remote_port, callback_arg, poll, serial, slots>>
       ELSE do_close(a, callback_arg[a])
    /\ UNCHANGED <<server, sketch>>

\* Mutant of do_err: no error callback, as it once was.
do_err_missing(a) ==
    /\ state[a] # "FREE"
    /\ FreePcb(a)
    /\ UNCHANGED <<slots, server, sketch>>

\* A RST, or lwIP giving the connection up: the block is freed.  do_err, when
\* it is installed, clears the slot it was given without asking whose it is.
do_err(a) ==
    /\ state[a] # "FREE"
    /\ FreePcb(a)
    /\ IF callback_arg[a] = NULL
       THEN UNCHANGED slots
       ELSE ReleaseSlot(callback_arg[a])
    /\ UNCHANGED <<server, sketch>>

\* do_poll and close_retry_poll: try again a close that failed.
do_poll(a) ==
    /\ poll[a]
    /\ state[a] \in {"ESTABLISHED", "CLOSE_WAIT"}
    /\ tcp_close(a, state[a])
    /\ UNCHANGED <<slots, server, sketch>>

\* The slow timer, or the peer's last ACK, frees a block that was closed.
tcp_slowtmr(a) ==
    /\ state[a] = "CLOSING"
    /\ FreePcb(a)
    /\ UNCHANGED <<slots, server, sketch>>

Interrupt ==
    \E a \in Pcbs :
        \/ \E q \in Ports : tcp_listen_input(a, q)
        \/ do_accept(a)
        \/ do_accept_full(a)
        \/ do_recv(a)
        \/ do_recv_fin(a)
        \/ do_err(a)
        \/ do_poll(a)
        \/ tcp_slowtmr(a)

-----------------------------------------------------------------------------
(* The sketch: accept(), available() and write() of the server, which walk *)
(* the slots, and the operations of a handle.                              *)

\* A call of one of the three; h is the EthernetClient its result goes to.
Call(op, h) ==
    /\ th.pc = "idle"
    /\ th' = [Idle EXCEPT !.pc = "probe", !.op = op, !.h = h]
    /\ UNCHANGED <<lwip, slots, server, handle, handed>>

NextSlot(t) == [t EXCEPT !.pc = "probe", !.n = @ + 1, !.i = 0, !.c = NULL,
                         !.w = NoClient]

\* Mutant of Cursor: the cursor is not advanced.
Cursor_still == lastClient

\* available() starts after the slot it returned last; the others at 0.
Cursor == IF lastClient + 1 >= MAX_CLIENTS THEN 0 ELSE lastClient + 1

\* One turn of the loop up to the snapshot of cpcb.  The tests before the
\* snapshot only skip a slot, which a snapshot taken after the same interrupt
\* would skip too, so they are one step with it.
Probe ==
    /\ th.pc = "probe"
    /\ th.n < MAX_CLIENTS
    /\ LET s == IF th.op = "available" THEN Cursor ELSE th.n IN
       /\ lastClient' = IF th.op = "available" THEN s ELSE lastClient
       /\ th' = IF \/ port[s] = 0
                   \/ th.op = "accept" /\ claimed[s]
                   \/ cpcb[s] = NULL
                THEN NextSlot(th)
                ELSE [th EXCEPT !.pc = "state", !.i = s, !.c = cpcb[s]]
    /\ UNCHANGED <<lwip, slots, serverGeneration, accepts, handle, handed>>

\* The loop ends: accept() and available() return EthernetClient(NULL).
LoopEnd ==
    /\ th.pc = "probe"
    /\ th.n >= MAX_CLIENTS
    /\ th' = Idle
    /\ handle' = IF th.op = "write" THEN handle
                 ELSE [handle EXCEPT ![th.h] = NoClient]
    /\ UNCHANGED <<lwip, slots, server, handed>>

\* cpcb->state is read through the snapshot.  The interrupt may have freed
\* the block in between; then the value read is whatever the memory holds.
ReadState ==
    /\ th.pc = "state"
    /\ \E established \in BOOLEAN :
        /\ state[th.c] # "FREE" => established = (state[th.c] = "ESTABLISHED")
        /\ th' = IF ~ established THEN NextSlot(th)
                 ELSE [th EXCEPT !.pc = CASE th.op = "accept" -> "claim"
                                          [] th.op = "available" -> "data"
                                          [] OTHER -> "capture"]
    /\ UNCHANGED <<lwip, slots, server, handle, handed>>

\* available() only returns a client with unread data.
CheckData ==
    /\ th.pc = "data"
    /\ th' = IF p[th.i] # <<>> THEN [th EXCEPT !.pc = "capture"] ELSE NextSlot(th)
    /\ UNCHANGED <<lwip, slots, server, handle, handed>>

\* Mutant of Claim: the slot is not marked.
Claim_unmarked ==
    /\ th.pc = "claim"
    /\ th' = [th EXCEPT !.pc = "capture", !.w.conn = conn[th.i]]
    /\ UNCHANGED <<lwip, slots, server, handle, handed>>

\* accept() marks the slot; w.conn records which connection that was.
Claim ==
    /\ th.pc = "claim"
    /\ claimed' = [claimed EXCEPT ![th.i] = TRUE]
    /\ th' = [th EXCEPT !.pc = "capture", !.w.conn = conn[th.i]]
    /\ UNCHANGED <<lwip, port, cpcb, p, generation, conn, server, handle, handed>>

ClientOf(s) == [slot |-> s, gen |-> generation[s], conn |-> conn[s]]

\* EthernetClient(&clients[i]): the constructor captures the generation the
\* slot has now.  write() of the server goes on with the temporary client.
Capture ==
    /\ th.pc = "capture"
    /\ IF th.op = "write"
       THEN /\ th' = [th EXCEPT !.pc = "stale", !.w = ClientOf(th.i)]
            /\ UNCHANGED <<handle, handed>>
       ELSE /\ th' = Idle
            /\ handle' = [handle EXCEPT ![th.h] = ClientOf(th.i)]
            /\ handed' = IF th.op = "accept"
                         THEN handed \cup {<<conn[th.i], th.w.conn = conn[th.i]>>}
                         ELSE handed
    /\ UNCHANGED <<lwip, slots, server>>

\* A handle is stale once its slot was recycled.
stale(e) == generation[e.slot] # e.gen

\* write() of a client onto a slot.
CallWrite(h) ==
    /\ th.pc = "idle"
    /\ handle[h].slot # NULL
    /\ th' = [Idle EXCEPT !.pc = "stale", !.op = "client", !.w = handle[h]]
    /\ UNCHANGED <<lwip, slots, server, handle, handed>>

\* The client's write() returns, to the sketch or to write() of the server.
WriteReturns == th' = IF th.op = "write" THEN NextSlot(th) ELSE Idle

CheckStale ==
    /\ th.pc = "stale"
    /\ IF stale(th.w) THEN WriteReturns ELSE th' = [th EXCEPT !.pc = "cpcb"]
    /\ UNCHANGED <<lwip, slots, server, handle, handed>>

SnapshotCpcb ==
    /\ th.pc = "cpcb"
    /\ IF cpcb[th.w.slot] = NULL
       THEN WriteReturns
       ELSE th' = [th EXCEPT !.pc = "tcp_write", !.c = cpcb[th.w.slot]]
    /\ UNCHANGED <<lwip, slots, server, handle, handed>>

\* The turn of write()'s loop that queues the last chunk, or has it refused.
\* Earlier chunks, and turns that wait in delay(1) on ERR_MEM, leave control
\* and everything modelled here as it is.
WriteChunk ==
    /\ th.pc = "tcp_write"
    /\ WriteReturns
    /\ UNCHANGED <<lwip, slots, server, handle, handed>>

\* read(): one byte, under the interrupt lock.
read(h) ==
    /\ th.pc = "idle"
    /\ handle[h].slot # NULL
    /\ ~ stale(handle[h])
    /\ p[handle[h].slot] # <<>>
    /\ p' = [p EXCEPT ![handle[h].slot] = Tail(@)]
    /\ UNCHANGED <<lwip, port, cpcb, generation, claimed, conn, server, sketch>>

\* Mutant of stop: a stale handle is not recognised.
stop_unchecked(h) ==
    /\ th.pc = "idle"
    /\ handle[h].slot # NULL
    /\ IF cpcb[handle[h].slot] = NULL
       THEN UNCHANGED lwip
       ELSE tcp_close(cpcb[handle[h].slot], state[cpcb[handle[h].slot]])
    /\ ReleaseSlot(handle[h].slot)
    /\ UNCHANGED <<server, sketch>>

\* stop(): under the interrupt lock, close the connection of the slot; on a
\* stale handle it only forgets.
stop(h) ==
    /\ th.pc = "idle"
    /\ handle[h].slot # NULL
    /\ ~ stale(handle[h])
    /\ IF cpcb[handle[h].slot] = NULL
       THEN UNCHANGED lwip
       ELSE tcp_close(cpcb[handle[h].slot], state[cpcb[handle[h].slot]])
    /\ ReleaseSlot(handle[h].slot)
    /\ UNCHANGED <<server, sketch>>

\* Copying an EthernetClient copies the slot pointer and the generation.
copyFrom(h, other) ==
    /\ th.pc = "idle"
    /\ handle' = [handle EXCEPT ![h] = handle[other]]
    /\ UNCHANGED <<lwip, slots, server, th, handed>>

Sketch ==
    \/ \E h \in Handles :
        \/ \E op \in {"accept", "available", "write"} : Call(op, h)
        \/ CallWrite(h)
        \/ read(h)
        \/ stop(h)
        \/ \E other \in Handles : copyFrom(h, other)
    \/ Probe
    \/ LoopEnd
    \/ ReadState
    \/ CheckData
    \/ Claim
    \/ Capture
    \/ CheckStale
    \/ SnapshotCpcb
    \/ WriteChunk

Next == Interrupt \/ Sketch

Spec == Init /\ [][Next]_vars

-----------------------------------------------------------------------------
Clients == [slot : Slots \cup {NULL}, gen : 0 .. GenMax, conn : Nat]

Threads == [pc : {"idle", "probe", "state", "data", "claim", "capture", "stale",
                  "cpcb", "tcp_write"},
            op : {"none", "accept", "available", "write", "client"},
            h : Handles \cup {NULL}, n : 0 .. MAX_CLIENTS, i : Slots,
            c : Pcbs \cup {NULL}, w : Clients]

LwipTypeOK ==
    /\ state \in [Pcbs -> States]
    /\ remote_port \in [Pcbs -> Ports \cup {0}]
    /\ callback_arg \in [Pcbs -> Slots \cup {NULL}]
    /\ poll \in [Pcbs -> BOOLEAN]
    /\ serial \in [Pcbs -> Nat]

SlotsTypeOK ==
    /\ port \in [Slots -> Ports \cup {0}]
    /\ cpcb \in [Slots -> Pcbs \cup {NULL}]
    /\ p \in [Slots -> Seq(Nat)]
    /\ generation \in [Slots -> 0 .. GenMax]
    /\ claimed \in [Slots -> BOOLEAN]
    /\ conn \in [Slots -> Nat]

ServerTypeOK ==
    /\ serverGeneration \in 0 .. GenMax
    /\ lastClient \in Slots
    /\ accepts \in Nat

SketchTypeOK ==
    /\ handle \in [Handles -> Clients]
    /\ th \in Threads
    /\ handed \subseteq Nat \X BOOLEAN

\* Every variable has its C type: the 16-bit generation never leaves
\* 0 .. GenMax and the round-robin cursor stays on the table.
TypeOK ==
    /\ LwipTypeOK
    /\ SlotsTypeOK
    /\ ServerTypeOK
    /\ SketchTypeOK

\* do_accept installs a slot as the argument of every callback, and do_recv,
\* do_close and do_err act on that slot.  While they are installed the slot
\* points back at the same block, which is open and carries the connection
\* the slot was given: no callback ever reaches another connection's slot.
CallbackOwnsSlot ==
    \A a \in Pcbs : callback_arg[a] # NULL =>
        /\ cpcb[callback_arg[a]] = a
        /\ state[a] = "ESTABLISHED"
        /\ serial[a] = conn[callback_arg[a]]

\* A slot never points at a block lwIP has freed or that the server no
\* longer hears from, which is the use-after-free do_err was added for; and
\* the port, which marks the slot live, is set exactly while it points at one.
SlotNeverDangles ==
    \A s \in Slots :
        /\ cpcb[s] # NULL => callback_arg[cpcb[s]] = s
        /\ port[s] # 0 <=> cpcb[s] # NULL

\* What is queued on a slot arrived on the connection the slot is for, and
\* nothing is queued on a free slot, where stop() would drop it unfreed.
QueueIsolated ==
    \A s \in Slots :
        /\ \A k \in 1 .. Len(p[s]) : p[s][k] = conn[s]
        /\ cpcb[s] = NULL => p[s] = <<>>

\* The generation is 16 bits and wraps.  Until GenMax further connections
\* have been accepted a handle whose slot still has its generation refers to
\* the connection it was made for: stale() catches every recycled slot.
Fresh(e) == accepts - e.conn < GenMax

HandleIdentity ==
    \A h \in Handles :
        LET e == handle[h] IN
        e.slot # NULL /\ ~ stale(e) /\ Fresh(e) => conn[e.slot] = e.conn

\* stop() on a handle closes the connection the handle was made for and no
\* other, whatever the interrupt did to the slot since.
StopClosesOwn ==
    [][\A h \in Handles : stop(h) /\ Fresh(handle[h]) =>
        \A a \in Pcbs : state'[a] # state[a] => serial[a] = handle[h].conn]_vars

\* A connection that accept() returned after marking its slot claimed is not
\* returned by it again.
ClaimedOnce ==
    [][th.pc = "capture" /\ th.op = "accept" /\ th'.pc = "idle" =>
        <<conn[th.i], TRUE>> \notin handed]_vars

\* EthernetServer.h on accept(): "Hand over each connection exactly ONCE".
AcceptOnce ==
    [][th.pc = "capture" /\ th.op = "accept" /\ th'.pc = "idle" =>
        \A clean \in BOOLEAN : <<conn[th.i], clean>> \notin handed]_vars

-----------------------------------------------------------------------------
(* Fairness.  main() calls loop() forever, and the sketch polls available()*)
(* in it; a call under way goes on between interrupts, and lwIP's timers   *)
(* keep running.  The turn of write() that ends it is fair too: the peer   *)
(* acknowledges, or lwIP gives the connection up.  A retried close finds   *)
(* memory for its FIN if it is retried for ever.                           *)

CallStep == Probe \/ LoopEnd \/ ReadState \/ CheckData \/ Claim \/ Capture
            \/ CheckStale \/ SnapshotCpcb \/ WriteChunk

PollCloses(a) == do_poll(a) /\ state'[a] # state[a]

Fairness ==
    /\ WF_vars(CallStep)
    /\ SF_vars(\E h \in Handles : Call("available", h))
    /\ \A a \in Pcbs : SF_vars(PollCloses(a)) /\ WF_vars(tcp_slowtmr(a))

FairSpec == Spec /\ Fairness

\* available() goes round the slots: a client with unread data is returned
\* by some call, however much data the other slots keep having.
AvailableReachesAll ==
    \A s \in Slots :
        p[s] # <<>> ~> \/ p[s] = <<>>
                       \/ th.pc = "capture" /\ th.op = "available" /\ th.i = s

\* A connection the server has let go of does not keep its block: a close
\* that could not send its FIN is retried until the block is free again.
ClosedPcbFreed ==
    \A a \in Pcbs :
        state[a] \in {"ESTABLISHED", "CLOSE_WAIT", "CLOSING"} /\ callback_arg[a] = NULL
            ~> state[a] = "FREE"
=============================================================================
