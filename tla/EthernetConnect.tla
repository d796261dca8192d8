--------------------------- MODULE EthernetConnect --------------------------
(***************************************************************************)
(* An outbound EthernetClient: connect() to an address, its callbacks, the *)
(* poll that notices a peer that is gone, and stop(), with lwIP reduced to *)
(* the life of a tcp_pcb.  Callbacks run in the Ethernet interrupt, each   *)
(* as one step; stop() masks it; connect() is cut where the interrupt      *)
(* matters.  Module Dns has the lookup that connect() to a host does first.*)
(***************************************************************************)
EXTENDS Integers

CONSTANTS
    Pcbs,        \* blocks of the pool MEMP_TCP_PCB
    KeepLimit,   \* do_poll: keep_cnt_sent++ > 4
    NULL

ASSUME ConnectAssumption ==
    /\ NULL \notin Pcbs
    /\ NULL \notin {"current", "old", "server", "do_poll", "close_retry_poll",
                    "tcp_close", "tcp_poll"}
    /\ KeepLimit \in Nat

VARIABLES
    pc,          \* where the sketch is
    pcb,         \* the blocks
    cpcb,        \* cs->cpcb
    p,           \* whose data cs->p holds
    _connected,
    late,        \* the time since the call is over timeout
    now,         \* local variable of connect(): late when the clock was read
    held,        \* connect() returned true, and stop() was not called since
    errSeen,     \* history: lwIP freed the block of the last connect()
    orphan,      \* history: a block was given up with its callbacks installed
    wild         \* history: what was done to a block of someone else, if anything

vars == <<pc, pcb, cpcb, p, _connected, late, now, held, errSeen, orphan, wild>>

\* st: the tcp_state; FIN_WAIT and LAST_ACK each stand for two.
\* mine: whose connection: of the last connect(), an earlier one, the server.
\* arg: callback_arg, recv and errf are set.   shut: TF_RXCLOSED.
\* open: rcv_wnd = TCP_WND.   dead: the peer is gone for good.
FreeBlock ==
    [st |-> "FREE", mine |-> NULL, arg |-> FALSE, poll |-> NULL, shut |-> FALSE,
     open |-> TRUE, keep |-> 0, dead |-> FALSE]

Init ==
    /\ pc = "idle"
    /\ pcb = [b \in Pcbs |-> FreeBlock]
    /\ cpcb = NULL
    /\ p = {}
    /\ _connected = FALSE
    /\ late = FALSE
    /\ now = FALSE
    /\ held = FALSE
    /\ errSeen = FALSE
    /\ orphan = FALSE
    /\ wild = NULL

-----------------------------------------------------------------------------
\* tcp_close: what can become of a block.  Without memory for a FIN it fails
\* and leaves the state as it is.
tcp_close(x) ==
    LET y == [x EXCEPT !.shut = TRUE] IN
    CASE x.st \in {"CLOSED", "SYN_SENT"}      -> {FreeBlock}
      [] x.st = "ESTABLISHED" /\ ~ x.open     -> {[y EXCEPT !.st = "TIME_WAIT"]}
      [] x.st = "CLOSE_WAIT" /\ ~ x.open      -> {FreeBlock}
      [] x.st = "ESTABLISHED" /\ x.open       -> {[y EXCEPT !.st = "FIN_WAIT"], y}
      [] x.st = "CLOSE_WAIT" /\ x.open        -> {[y EXCEPT !.st = "LAST_ACK"], y}
      [] OTHER                                -> {y}

\* The result err of tcp_close for block x is an error.
Failed(x, y) == y.st = x.st /\ x.st \in {"ESTABLISHED", "CLOSE_WAIT"}

\* The block is on tcp_active_pcbs.
Active(x) == x.st \notin {"FREE", "CLOSED", "TIME_WAIT"}

\* lwIP will call the client for it.
Reports(x) == Active(x) /\ x.arg

\* Mutant of Client: the callbacks are called for connections of the server.
Client_any(b) == Active(pcb[b])

Client(b) == pcb[b].mine \in {"current", "old"} /\ Active(pcb[b])

\* do_err is a toggle: connect() waits for _connected, whatever ended the wait.
do_err(b) ==
    /\ _connected' = (_connected # Reports(pcb[b]))
    /\ errSeen' = (errSeen \/ pcb[b].mine = "current")

InInterrupt == UNCHANGED <<pc, late, now, held>>

\* SYN and ACK from the peer.
do_connected(b) ==
    /\ Client(b) /\ pcb[b].st = "SYN_SENT"
    /\ pcb' = [pcb EXCEPT ![b].st = "ESTABLISHED"]
    /\ _connected' = TRUE
    /\ InInterrupt /\ UNCHANGED <<cpcb, p, errSeen, orphan, wild>>

\* A segment that only shows that the peer is alive.
tcp_process(b) ==
    /\ Client(b) /\ ~ pcb[b].dead /\ pcb[b].keep > 0
    /\ pcb' = [pcb EXCEPT ![b].keep = 0]
    /\ InInterrupt /\ UNCHANGED <<cpcb, p, _connected, errSeen, orphan, wild>>

\* Data for the client, or for one that has closed: then lwIP aborts.
do_recv(b) ==
    /\ Client(b) /\ ~ pcb[b].dead
    /\ pcb[b].st \in {"ESTABLISHED", "FIN_WAIT"}
    /\ IF pcb[b].shut
       THEN /\ pcb' = [pcb EXCEPT ![b] = FreeBlock]
            /\ do_err(b)
            /\ UNCHANGED p
       ELSE /\ pcb' = [pcb EXCEPT ![b] = [@ EXCEPT !.keep = 0, !.open = FALSE]]
            /\ p' = p \cup {pcb[b].mine}
            /\ UNCHANGED <<_connected, errSeen>>
    /\ InInterrupt /\ UNCHANGED <<cpcb, orphan, wild>>

\* The peer's FIN.
do_recv_fin(b) ==
    /\ Client(b) /\ ~ pcb[b].dead
    /\ \E next \in CASE pcb[b].st = "ESTABLISHED" -> {"CLOSE_WAIT"}
                     [] pcb[b].st = "FIN_WAIT"    -> {"LAST_ACK", "TIME_WAIT"}
                     [] OTHER                     -> {} :
          pcb' = [pcb EXCEPT ![b] = [@ EXCEPT !.st = next, !.keep = 0]]
    /\ _connected' = (_connected /\ ~ pcb[b].arg)
    /\ InInterrupt /\ UNCHANGED <<cpcb, p, errSeen, orphan, wild>>

\* A RST, too many retransmissions, or the block is needed for another.
tcp_abandon(b) ==
    /\ Client(b)
    /\ pcb' = [pcb EXCEPT ![b] = FreeBlock]
    /\ do_err(b)
    /\ InInterrupt /\ UNCHANGED <<cpcb, p, orphan, wild>>

\* A connection closed on both sides goes without a callback.
tcp_closed(b) ==
    /\ pcb[b].mine \in {"current", "old"} /\ pcb[b].st \in {"LAST_ACK", "TIME_WAIT"}
    /\ pcb' = [pcb EXCEPT ![b] = FreeBlock]
    /\ InInterrupt /\ UNCHANGED <<cpcb, p, _connected, errSeen, orphan, wild>>

\* Mutant of pollAlive: a probe without an answer is not counted.
pollAlive_uncounted(b) == _connected /\ UNCHANGED <<pcb, cpcb, _connected, errSeen, orphan, wild>>

KeepOver(b) == pcb[b].keep > KeepLimit

\* do_poll on a connection that is up: a probe, or the end of it.
pollAlive(b) ==
    /\ _connected
    /\ IF KeepOver(b)
       THEN /\ pcb' = [pcb EXCEPT ![b] = FreeBlock]
            /\ do_err(b)
            /\ cpcb' = IF cpcb = b THEN NULL ELSE cpcb
       ELSE /\ pcb' = [pcb EXCEPT ![b].keep = @ + 1]
            /\ UNCHANGED <<cpcb, _connected, errSeen>>
    /\ UNCHANGED <<orphan, wild>>

\* Mutant of pollClose: the handle stays.
pollClose_keeps(b) ==
    /\ ~ _connected
    /\ \E y \in tcp_close(pcb[b]) :
          /\ pcb' = [pcb EXCEPT ![b] = y]
          /\ orphan' = (orphan \/ Reports(y))
    /\ UNCHANGED <<cpcb, _connected, errSeen, wild>>

\* do_poll on one that is not: the callbacks stay.
pollClose(b) ==
    /\ ~ _connected
    /\ \E y \in tcp_close(pcb[b]) :
          /\ pcb' = [pcb EXCEPT ![b] = y]
          /\ orphan' = (orphan \/ Reports(y))
    /\ cpcb' = IF cpcb = b THEN NULL ELSE cpcb
    /\ UNCHANGED <<_connected, errSeen, wild>>

\* Without arg: client is a null pointer.
pollNull == wild' = "do_poll" /\ UNCHANGED <<pcb, cpcb, _connected, errSeen, orphan>>

do_poll(b) ==
    /\ Client(b) /\ pcb[b].poll = "do_poll"
    /\ IF pcb[b].arg THEN pollAlive(b) \/ pollClose(b) ELSE pollNull
    /\ InInterrupt /\ UNCHANGED p

close_retry_poll(b) ==
    /\ Client(b) /\ pcb[b].poll = "close_retry_poll"
    /\ \E y \in tcp_close(pcb[b]) : pcb' = [pcb EXCEPT ![b] = y]
    /\ InInterrupt /\ UNCHANGED <<cpcb, p, _connected, errSeen, orphan, wild>>

\* The peer disappears for good.
PeerDies(b) ==
    /\ Client(b) /\ pcb[b].st = "ESTABLISHED" /\ ~ pcb[b].dead
    /\ pcb' = [pcb EXCEPT ![b].dead = TRUE]
    /\ InInterrupt /\ UNCHANGED <<cpcb, p, _connected, errSeen, orphan, wild>>

\* A connection of the server takes a free block, or gives its block back.
Server(b) ==
    /\ pcb[b].mine \in {NULL, "server"}
    /\ pcb' = [pcb EXCEPT ![b] = IF @.st # "FREE" THEN FreeBlock
                  ELSE [FreeBlock EXCEPT !.st = "ESTABLISHED", !.mine = "server"]]
    /\ InInterrupt /\ UNCHANGED <<cpcb, p, _connected, errSeen, orphan, wild>>

-----------------------------------------------------------------------------
\* The blocks tcp_alloc may return: a free one, or the one of a connection in
\* TIME_WAIT, or else of any connection, which is aborted.
tcp_alloc ==
    LET In(S) == {b \in Pcbs : pcb[b].st \in S} IN
    IF In({"FREE"}) # {} THEN In({"FREE"})
    ELSE IF In({"TIME_WAIT"}) # {} THEN In({"TIME_WAIT"})
    ELSE {b \in Pcbs : Active(pcb[b])}

\* tcp_close on the block the handle points at, whoever has it by now, made y.
CloseHandle(x, y) ==
    /\ pcb' = [pcb EXCEPT ![cpcb] = y]
    /\ cpcb' = NULL
    /\ wild' = IF x.mine = "current" THEN wild ELSE "tcp_close"

Leave ==
    /\ pc' = "idle"
    /\ late' = FALSE
    /\ now' = FALSE

\* connect() up to the wait.  _connected is as the last connection left it.  A
\* sketch that has a connection calls stop() before it makes another.
connect ==
    /\ pc = "idle" /\ ~ held
    /\ p' = {}
    /\ errSeen' = FALSE
    /\ LET old == [b \in Pcbs |->
               [pcb[b] EXCEPT !.mine = IF @ = "current" THEN "old" ELSE @]]
       IN \/ /\ tcp_alloc = {}
             /\ cpcb' = NULL
             /\ pcb' = old
             /\ pc' = "idle"
             /\ UNCHANGED _connected
          \/ \E b \in tcp_alloc : \E ok \in BOOLEAN :
             /\ cpcb' = b
             /\ pcb' = [old EXCEPT ![b] = [FreeBlock EXCEPT !.mine = "current",
                           !.arg = TRUE, !.st = IF ok THEN "SYN_SENT" ELSE "CLOSED"]]
             /\ pc' = IF ok THEN "wait" ELSE "idle"
             /\ _connected' = (_connected # Reports(pcb[b]))
    /\ UNCHANGED <<late, now, held, orphan, wild>>

\* while (!_connected), and now = millis().
waitLoop ==
    /\ pc = "wait"
    /\ pc' = IF _connected THEN "check" ELSE "delay"
    /\ now' = late
    /\ UNCHANGED <<pcb, cpcb, p, _connected, late, held, errSeen, orphan, wild>>

\* Mutant of waitTimeout: the time is not looked at.
waitTimeout_never ==
    /\ pc = "delay"
    /\ pc' = "wait"
    /\ UNCHANGED <<pcb, cpcb, p, _connected, late, now, held, errSeen, orphan, wild>>

\* After delay(10).
waitTimeout ==
    /\ pc = "delay"
    /\ IF now
       THEN \E y \in tcp_close(pcb[cpcb]) :
               /\ CloseHandle(pcb[cpcb], y)
               /\ orphan' = (orphan \/ Reports(y))
               /\ Leave
       ELSE /\ pc' = "wait"
            /\ UNCHANGED <<pcb, cpcb, late, now, orphan, wild>>
    /\ UNCHANGED <<p, _connected, held, errSeen>>

\* What cs->cpcb->state reads: a block that was given back may still show the
\* state it had.
StateSeen(x) == IF x.st = "FREE" THEN {"CLOSED", "ESTABLISHED"} ELSE {x.st}

checkState ==
    /\ pc = "check"
    /\ \E s \in StateSeen(pcb[cpcb]) :
         IF s # "ESTABLISHED"
         THEN \E y \in tcp_close(pcb[cpcb]) :
                 /\ _connected' = FALSE
                 /\ CloseHandle(pcb[cpcb], y)
                 /\ orphan' = (orphan \/ Reports(y))
                 /\ Leave
         ELSE /\ pc' = "poll"
              /\ UNCHANGED <<pcb, cpcb, _connected, late, now, orphan, wild>>
    /\ UNCHANGED <<p, held, errSeen>>

\* tcp_poll writes to the block; then return _connected.
setPoll ==
    /\ pc = "poll"
    /\ pcb' = IF pcb[cpcb].mine = "current"
              THEN [pcb EXCEPT ![cpcb].poll = "do_poll"] ELSE pcb
    /\ wild' = IF pcb[cpcb].mine = "server" THEN "tcp_poll" ELSE wild
    /\ orphan' = (orphan \/ (~ _connected /\ Reports(pcb[cpcb])))
    /\ held' = _connected
    /\ Leave
    /\ UNCHANGED <<cpcb, p, _connected, errSeen>>

Elapse ==
    /\ pc \in {"wait", "delay"} /\ ~ late
    /\ late' = TRUE
    /\ UNCHANGED <<pc, pcb, cpcb, p, _connected, now, held, errSeen, orphan, wild>>

\* Mutant of Detached: tcp_err keeps do_err.
Detached_not(x) == [x EXCEPT !.open = TRUE]

\* The callbacks but poll are taken off, and the unread data is credited.
Detached(x) == [x EXCEPT !.arg = FALSE, !.open = TRUE]

stop ==
    /\ pc = "idle"
    /\ p' = {}
    /\ _connected' = FALSE
    /\ held' = FALSE
    /\ IF cpcb = NULL THEN UNCHANGED <<pcb, cpcb, wild>>
       ELSE LET x == Detached(pcb[cpcb]) IN
            \E y \in tcp_close(x) :
              CloseHandle(x, IF Failed(x, y) THEN [y EXCEPT !.poll = "close_retry_poll"] ELSE y)
    /\ UNCHANGED <<pc, late, now, errSeen, orphan>>

\* Calls of read() until there is nothing left.
read ==
    /\ pc = "idle" /\ p # {}
    /\ p' = {}
    /\ pcb' = IF cpcb # NULL /\ pcb[cpcb].mine = "current"
              THEN [pcb EXCEPT ![cpcb].open = TRUE] ELSE pcb
    /\ UNCHANGED <<pc, cpcb, _connected, late, now, held, errSeen, orphan, wild>>

Lwip(b) ==
    \/ do_connected(b) \/ tcp_process(b) \/ do_recv(b) \/ do_recv_fin(b)
    \/ tcp_abandon(b) \/ tcp_closed(b) \/ do_poll(b) \/ close_retry_poll(b)
    \/ PeerDies(b) \/ Server(b)

\* The rest of a call of connect().
Connecting == waitLoop \/ waitTimeout \/ checkState \/ setPoll

\* Once a block of someone else was written, nothing is said of what follows.
Next ==
    \/ /\ wild = NULL
       /\ connect \/ Connecting \/ Elapse \/ stop \/ read \/ \E b \in Pcbs : Lwip(b)
    \/ wild # NULL /\ UNCHANGED vars

Spec == Init /\ [][Next]_vars

\* The sketch goes on with its call, time passes, and lwIP's timers run.
Fairness ==
    /\ WF_vars(wild = NULL /\ Connecting)
    /\ WF_vars(wild = NULL /\ Elapse)
    /\ \A b \in Pcbs : WF_vars(wild = NULL /\ do_poll(b))

FairSpec == Spec /\ Fairness

-----------------------------------------------------------------------------
Block ==
    [st : {"FREE", "CLOSED", "SYN_SENT", "ESTABLISHED", "CLOSE_WAIT", "FIN_WAIT",
           "LAST_ACK", "TIME_WAIT"},
     mine : {NULL, "current", "old", "server"}, arg : BOOLEAN,
     poll : {NULL, "do_poll", "close_retry_poll"}, shut : BOOLEAN, open : BOOLEAN,
     keep : 0 .. KeepLimit + 1, dead : BOOLEAN]

TypeOK ==
    /\ pc \in {"idle", "wait", "delay", "check", "poll"}
    /\ pcb \in [Pcbs -> Block]
    /\ cpcb \in Pcbs \cup {NULL}
    /\ p \subseteq {"current", "old"}
    /\ {_connected, late, now, held, errSeen, orphan} \subseteq BOOLEAN
    /\ wild \in {NULL, "tcp_close", "tcp_poll", "do_poll"}

\* The handle is on a block of the client's own until lwIP reports the end of
\* the connection: a block that lwIP frees by itself, after a close that do_poll,
\* a timeout or stop() began, is not pointed at any more.  do_err does not take
\* the handle away; up to then connect() and stop() close nobody else's
\* connection and free no block twice.
HandleValid ==
    ~ errSeen => /\ cpcb # NULL => pcb[cpcb].mine = "current"
                 /\ wild \notin {"tcp_close", "tcp_poll"}

\* The callbacks of an earlier connection do not touch the client: what read()
\* finds is data of this one, and _connected is true while this one is up.  The
\* cases in which connect() or do_poll leave a connection without stop() break
\* this, because they leave its callbacks installed.
OldConnectionSilent ==
    ~ orphan /\ wild = NULL =>
        /\ "old" \notin p
        /\ held /\ cpcb # NULL /\ pcb[cpcb].mine = "current"
             /\ pcb[cpcb].st = "ESTABLISHED" => _connected

\* tcp.c on a second tcp_close of a block: "this should never happen as the pcb
\* has in those cases been freed, and so any remaining handles are bogus".
NoStrayClose == wild # "tcp_close"

\* EthernetClient.cpp in stop(): "Detach every callback before closing: ... a
\* late callback carrying the old arg must not run".
NoLatePoll == wild # "do_poll"

\* connect() returns, whether the peer answers, refuses or is silent.
ConnectReturns == (pc = "wait") ~> (pc = "idle" \/ wild # NULL)

\* A peer that is gone without a word is noticed: do_poll gives the connection
\* up after KeepLimit + 1 probes without an answer.
DeadPeerDropped ==
    \A b \in Pcbs :
        (held /\ cpcb = b /\ pcb[b].mine = "current" /\ pcb[b].dead)
            ~> (cpcb # b \/ pcb[b].mine # "current" \/ wild # NULL)
=============================================================================
