----------------------- MODULE EthernetConnectProofs -----------------------
EXTENDS EthernetConnect, TLAPS

\* While connect() is under way the handle is on some block, which no poll
\* callback closes.  Until lwIP reports the end of the connection it is a
\* block of this connection that is not being closed yet.
HandleInv ==
    /\ pc # "idle" => cpcb # NULL /\ pcb[cpcb].poll = NULL
    /\ ~ errSeen => /\ wild \notin {"tcp_close", "tcp_poll"}
                    /\ cpcb # NULL =>
                         /\ pcb[cpcb].mine = "current"
                         /\ pcb[cpcb].st \in {"CLOSED", "SYN_SENT", "ESTABLISHED", "CLOSE_WAIT"}
                         /\ pcb[cpcb].poll # "close_retry_poll"

\* Whatever is given up was detached by stop(), which also shut it.
SilentInv ==
    /\ held => pc = "idle"
    /\ cpcb # NULL => pcb[cpcb].mine # "old"
    /\ \A b \in Pcbs : Client(b) /\ ~ pcb[b].arg => pcb[b].shut
    /\ ~ orphan /\ wild = NULL =>
         /\ "old" \notin p
         /\ \A b \in Pcbs : Client(b) /\ pcb[b].arg => b = cpcb
         /\ pc = "idle" /\ ~ held /\ cpcb # NULL => ~ (Client(cpcb) /\ pcb[cpcb].arg)
         /\ held /\ cpcb # NULL /\ pcb[cpcb].mine = "current"
              /\ pcb[cpcb].st = "ESTABLISHED" => _connected

IInv == TypeOK /\ HandleInv /\ SilentInv

\* A block in the pool is a block.
LEMMA FreeBlockType == FreeBlock \in Block
BY ConnectAssumption DEF FreeBlock, Block

\* tcp_close frees a block or shuts it, and touches no callback.
LEMMA CloseResult ==
    ASSUME NEW x \in Block, NEW y \in tcp_close(x)
    PROVE  /\ y \in Block
           /\ y = FreeBlock \/ (/\ y.shut /\ y.mine = x.mine /\ y.arg = x.arg
                                /\ y.poll = x.poll
                                /\ y.st = "ESTABLISHED" => x.st = "ESTABLISHED")
<1> DEFINE z == [x EXCEPT !.shut = TRUE]
<1>1. \/ y = FreeBlock
      \/ y = z
      \/ \E s \in {"TIME_WAIT", "FIN_WAIT", "LAST_ACK"} : y = [z EXCEPT !.st = s]
  BY DEF tcp_close
<1>2. /\ z \in Block
      /\ z.shut /\ z.mine = x.mine /\ z.arg = x.arg /\ z.poll = x.poll /\ z.st = x.st
  BY Zenon DEF Block
<1>3. ASSUME NEW s \in {"TIME_WAIT", "FIN_WAIT", "LAST_ACK"}, y = [z EXCEPT !.st = s]
      PROVE  y \in Block /\ y.shut = z.shut /\ y.mine = z.mine /\ y.arg = z.arg
             /\ y.poll = z.poll /\ y.st = s
  <2> HIDE DEF z
  <2> QED BY Zenon, <1>2, <1>3 DEF Block
<1> HIDE DEF z
<1> QED
  BY Zenon, <1>1, <1>2, <1>3, FreeBlockType

\* What no segment changes.
Kept(x, y) == y.mine = x.mine /\ y.arg = x.arg /\ y.poll = x.poll /\ y.shut = x.shut

\* Of the blocks, only b may have changed.
OnlyBlock(b) ==
    /\ pcb' \in [Pcbs -> Block]
    /\ \A c \in Pcbs : c # b => pcb'[c] = pcb[c]

\* A block in the pool is nobody's.
LEMMA FreeFields ==
    /\ FreeBlock.mine = NULL /\ FreeBlock.st = "FREE" /\ FreeBlock.poll = NULL
    /\ FreeBlock.arg = FALSE /\ FreeBlock.shut = FALSE
BY DEF FreeBlock

\* Writes of one field of a block.
LEMMA StateBlock ==
    ASSUME NEW x \in Block, NEW s \in {"ESTABLISHED", "CLOSE_WAIT", "LAST_ACK", "TIME_WAIT"}
    PROVE  /\ [x EXCEPT !.st = s] \in Block
           /\ Kept(x, [x EXCEPT !.st = s])
           /\ [x EXCEPT !.st = s].st = s
BY DEF Block, Kept

\* keep_cnt_sent.
LEMMA KeepBlock ==
    ASSUME NEW x \in Block, NEW k \in 0 .. KeepLimit + 1
    PROVE  /\ [x EXCEPT !.keep = k] \in Block
           /\ Kept(x, [x EXCEPT !.keep = k])
           /\ [x EXCEPT !.keep = k].st = x.st
BY DEF Block, Kept

\* rcv_wnd.
LEMMA OpenBlock ==
    ASSUME NEW x \in Block, NEW v \in BOOLEAN
    PROVE  /\ [x EXCEPT !.open = v] \in Block
           /\ Kept(x, [x EXCEPT !.open = v])
           /\ [x EXCEPT !.open = v].st = x.st
BY DEF Block, Kept

\* The peer.
LEMMA DeadBlock ==
    ASSUME NEW x \in Block
    PROVE  /\ [x EXCEPT !.dead = TRUE] \in Block
           /\ Kept(x, [x EXCEPT !.dead = TRUE])
           /\ [x EXCEPT !.dead = TRUE].st = x.st
BY Zenon DEF Block, Kept

\* tcp_poll.
LEMMA PollBlock ==
    ASSUME NEW x \in Block, NEW f \in {"do_poll", "close_retry_poll"}
    PROVE  /\ [x EXCEPT !.poll = f] \in Block
           /\ LET y == [x EXCEPT !.poll = f] IN
                y.mine = x.mine /\ y.arg = x.arg /\ y.shut = x.shut /\ y.st = x.st /\ y.poll = f
BY DEF Block

\* tcp_arg and tcp_recved, as stop() calls them.
LEMMA DetachedBlock ==
    ASSUME NEW x \in Block
    PROVE  Detached(x) \in Block /\ Detached(x).mine = x.mine /\ ~ Detached(x).arg
<1> DEFINE d == [x EXCEPT !.arg = FALSE]
<1>1. d \in Block /\ d.mine = x.mine /\ ~ d.arg
  BY Zenon DEF Block
<1> DEFINE o == [d EXCEPT !.open = TRUE]
<1>2. Detached(x) = o
  BY DEF Detached
<1>3. o \in Block /\ Kept(d, o)
  <2> HIDE DEF d
  <2> QED BY Zenon, <1>1, OpenBlock
<1> HIDE DEF d, o
<1> QED
  BY <1>1, <1>2, <1>3 DEF Kept

\* The block of a new connection, and the others at that time.
LEMMA NewBlock ==
    ASSUME NEW s \in {"SYN_SENT", "CLOSED"}
    PROVE  LET n == [FreeBlock EXCEPT !.mine = "current", !.arg = TRUE, !.st = s] IN
           n \in Block /\ n.mine = "current" /\ n.arg /\ n.st = s /\ n.poll = NULL
BY Zenon, FreeBlockType DEF Block, FreeBlock

\* A block of the last connection, once there is a newer one.
LEMMA OldBlock ==
    ASSUME NEW x \in Block
    PROVE  LET o == [x EXCEPT !.mine = IF @ = "current" THEN "old" ELSE @] IN
           /\ o \in Block /\ o.arg = x.arg /\ o.shut = x.shut /\ o.st = x.st
           /\ o.mine \in {"current", "old"} => x.mine \in {"current", "old"}
BY DEF Block

\* A write of one block leaves the others.
LEMMA BlockUpdate ==
    ASSUME TypeOK, NEW b \in Pcbs, NEW y \in Block, pcb' = [pcb EXCEPT ![b] = y]
    PROVE  OnlyBlock(b) /\ pcb'[b] = y
BY DEF TypeOK, OnlyBlock

\* do_connected leaves the callbacks and establishes the connection.
LEMMA ConnectedEffect ==
    ASSUME TypeOK, NEW b \in Pcbs, do_connected(b)
    PROVE  OnlyBlock(b) /\ Kept(pcb[b], pcb'[b]) /\ pcb'[b].st = "ESTABLISHED"
<1> DEFINE t == [pcb[b] EXCEPT !.st = "ESTABLISHED"]
<1>1. t \in Block /\ Kept(pcb[b], t) /\ t.st = "ESTABLISHED"
  BY Zenon, StateBlock DEF TypeOK
<1>2. pcb' = [pcb EXCEPT ![b] = t]
  BY DEF do_connected
<1> HIDE DEF t
<1> QED
  BY Zenon, <1>1, <1>2, BlockUpdate

\* A segment with or without data leaves callbacks and state.
LEMMA SegmentEffect ==
    ASSUME TypeOK, NEW b \in Pcbs,
           tcp_process(b) \/ PeerDies(b) \/ (do_recv(b) /\ ~ pcb[b].shut)
    PROVE  OnlyBlock(b) /\ Kept(pcb[b], pcb'[b]) /\ pcb'[b].st = pcb[b].st
<1> DEFINE k == [pcb[b] EXCEPT !.keep = 0]
<1>1. pcb[b] \in Block /\ 0 \in 0 .. KeepLimit + 1
  BY ConnectAssumption DEF TypeOK
<1>2. k \in Block /\ Kept(pcb[b], k) /\ k.st = pcb[b].st
  BY <1>1, KeepBlock
<1>3. CASE tcp_process(b)
  BY Zenon, <1>2, <1>3, BlockUpdate DEF tcp_process
<1>4. CASE PeerDies(b)
  BY ZenonT(60), <1>1, <1>4, DeadBlock, BlockUpdate DEF PeerDies
<1>5. CASE do_recv(b) /\ ~ pcb[b].shut
  <2> DEFINE o == [k EXCEPT !.open = FALSE]
  <2>1. o \in Block /\ Kept(k, o) /\ o.st = k.st
    <3> HIDE DEF k
    <3> QED BY Zenon, <1>2, OpenBlock
  <2>2. pcb' = [pcb EXCEPT ![b] = o]
    BY <1>5 DEF do_recv
  <2>3. OnlyBlock(b) /\ pcb'[b] = o
    <3> HIDE DEF o
    <3> QED BY Zenon, <2>1, <2>2, BlockUpdate
  <2> HIDE DEF k, o
  <2> QED BY <1>2, <2>1, <2>3 DEF Kept
<1> QED
  BY <1>3, <1>4, <1>5

\* A FIN leaves the callbacks; the connection is half closed or more.
LEMMA FinEffect ==
    ASSUME TypeOK, NEW b \in Pcbs, do_recv_fin(b)
    PROVE  /\ OnlyBlock(b) /\ Kept(pcb[b], pcb'[b])
           /\ pcb[b].st \in {"ESTABLISHED", "FIN_WAIT"}
           /\ pcb'[b].st \in {"CLOSE_WAIT", "LAST_ACK", "TIME_WAIT"}
           /\ pcb[b].st = "ESTABLISHED" => pcb'[b].st = "CLOSE_WAIT"
<1>1. PICK s \in {"CLOSE_WAIT", "LAST_ACK", "TIME_WAIT"} :
        /\ pcb' = [pcb EXCEPT ![b] = [@ EXCEPT !.st = s, !.keep = 0]]
        /\ pcb[b].st \in {"ESTABLISHED", "FIN_WAIT"}
        /\ pcb[b].st = "ESTABLISHED" => s = "CLOSE_WAIT"
  BY Zenon DEF do_recv_fin
<1> DEFINE t == [pcb[b] EXCEPT !.st = s]
           k == [t EXCEPT !.keep = 0]
<1>2. pcb[b] \in Block /\ 0 \in 0 .. KeepLimit + 1
  BY ConnectAssumption DEF TypeOK
<1>3. t \in Block /\ Kept(pcb[b], t) /\ t.st = s
  BY ZenonT(60), <1>2, StateBlock
<1>4. k \in Block /\ Kept(t, k) /\ k.st = t.st
  <2> HIDE DEF t
  <2> QED BY Zenon, <1>2, <1>3, KeepBlock
<1>5. pcb' = [pcb EXCEPT ![b] = k]
  BY <1>1
<1>6. OnlyBlock(b) /\ pcb'[b] = k
  <2> HIDE DEF k
  <2> QED BY Zenon, <1>4, <1>5, BlockUpdate
<1> HIDE DEF k, t
<1> QED
  BY <1>1, <1>3, <1>4, <1>6 DEF Kept

\* The ways a block is freed by lwIP.
LEMMA FreeEffect ==
    ASSUME TypeOK, NEW b \in Pcbs,
           \/ tcp_abandon(b) \/ tcp_closed(b) \/ (do_recv(b) /\ pcb[b].shut)
           \/ (pollAlive(b) /\ KeepOver(b))
    PROVE  OnlyBlock(b) /\ pcb'[b] = FreeBlock
BY FreeBlockType, BlockUpdate DEF tcp_abandon, tcp_closed, do_recv, pollAlive

\* A probe is only counted.
LEMMA ProbeEffect ==
    ASSUME TypeOK, NEW b \in Pcbs, pollAlive(b), ~ KeepOver(b)
    PROVE  OnlyBlock(b) /\ Kept(pcb[b], pcb'[b]) /\ pcb'[b].st = pcb[b].st
<1>1. pcb[b] \in Block /\ pcb[b].keep + 1 \in 0 .. KeepLimit + 1
  BY ConnectAssumption DEF TypeOK, Block, KeepOver
<1> DEFINE k == [pcb[b] EXCEPT !.keep = @ + 1]
<1>2. k \in Block /\ Kept(pcb[b], k) /\ k.st = pcb[b].st
  BY <1>1, KeepBlock
<1>3. pcb' = [pcb EXCEPT ![b] = k]
  BY DEF pollAlive
<1> HIDE DEF k
<1> QED
  BY Zenon, <1>2, <1>3, BlockUpdate

\* tcp_close of block b, by a callback: the block is freed, or shut.
LEMMA CloseEffect ==
    ASSUME TypeOK, NEW b \in Pcbs, pollClose(b) \/ close_retry_poll(b)
    PROVE  /\ OnlyBlock(b)
           /\ pcb'[b] \in tcp_close(pcb[b])
           /\ \/ pcb'[b] = FreeBlock
              \/ /\ pcb'[b].shut /\ pcb'[b].mine = pcb[b].mine
                 /\ pcb'[b].arg = pcb[b].arg /\ pcb'[b].poll = pcb[b].poll
                 /\ pcb'[b].st = "ESTABLISHED" => pcb[b].st = "ESTABLISHED"
<1>1. pcb[b] \in Block
  BY DEF TypeOK
<1>2. PICK y \in tcp_close(pcb[b]) : pcb' = [pcb EXCEPT ![b] = y]
  BY DEF pollClose, close_retry_poll
<1>3. y \in Block
  BY <1>1, CloseResult
<1>4. OnlyBlock(b) /\ pcb'[b] = y
  BY Zenon, <1>2, <1>3, BlockUpdate
<1> QED
  BY <1>1, <1>4, CloseResult

\* The server takes and gives back blocks the client does not have.
LEMMA ServerEffect ==
    ASSUME TypeOK, NEW b \in Pcbs, Server(b)
    PROVE  /\ OnlyBlock(b)
           /\ pcb[b].mine \in {NULL, "server"} /\ pcb'[b].mine \in {NULL, "server"}
           /\ pcb'[b].poll = NULL
<1> DEFINE e == [FreeBlock EXCEPT !.st = "ESTABLISHED", !.mine = "server"]
<1>1. e \in Block /\ e.mine = "server" /\ e.poll = NULL
  BY Zenon, FreeBlockType DEF Block, FreeBlock
<1>2. pcb' = [pcb EXCEPT ![b] = FreeBlock] \/ pcb' = [pcb EXCEPT ![b] = e]
  BY Zenon DEF Server
<1> HIDE DEF e
<1>3. OnlyBlock(b) /\ (pcb'[b] = FreeBlock \/ pcb'[b] = e)
  BY <1>1, <1>2, FreeBlockType, BlockUpdate
<1> QED
  BY <1>1, <1>3, FreeFields DEF Server

-----------------------------------------------------------------------------
(* The interrupt.                                                          *)

\* A callback leaves the types.
LEMMA LwipType ==
    ASSUME TypeOK, NEW b \in Pcbs, Lwip(b)
    PROVE  TypeOK'
<1>1. CASE do_connected(b)
  BY Zenon, <1>1, ConnectedEffect DEF TypeOK, OnlyBlock, do_connected, InInterrupt
<1>2. CASE tcp_process(b) \/ PeerDies(b)
  BY <1>2, SegmentEffect DEF TypeOK, OnlyBlock, tcp_process, PeerDies, InInterrupt
<1>3. CASE do_recv(b)
  <2>1. OnlyBlock(b)
    BY <1>3, SegmentEffect, FreeEffect
  <2>2. pcb[b].mine \in {"current", "old"}
    BY <1>3 DEF do_recv, Client
  <2> QED
    BY Zenon, <1>3, <2>1, <2>2 DEF TypeOK, OnlyBlock, do_recv, do_err, InInterrupt
<1>4. CASE do_recv_fin(b)
  BY Zenon, <1>4, FinEffect DEF TypeOK, OnlyBlock, do_recv_fin, InInterrupt
<1>5. CASE tcp_abandon(b) \/ tcp_closed(b)
  BY Zenon, <1>5, FreeEffect DEF TypeOK, OnlyBlock, tcp_abandon, tcp_closed, do_err, InInterrupt
<1>6. CASE do_poll(b)
  <2>1. CASE pollAlive(b)
    <3>1. OnlyBlock(b)
      BY <2>1, FreeEffect, ProbeEffect
    <3> QED
      BY Zenon, <1>6, <2>1, <3>1 DEF TypeOK, OnlyBlock, do_poll, pollAlive, do_err, InInterrupt
  <2>2. CASE pollClose(b)
    BY Zenon, <1>6, <2>2, CloseEffect DEF TypeOK, OnlyBlock, do_poll, pollClose, InInterrupt
  <2>3. CASE pollNull
    BY <1>6, <2>3 DEF TypeOK, do_poll, pollNull, InInterrupt
  <2> QED
    BY <1>6, <2>1, <2>2, <2>3 DEF do_poll
<1>7. CASE close_retry_poll(b)
  BY Zenon, <1>7, CloseEffect DEF TypeOK, OnlyBlock, close_retry_poll, InInterrupt
<1>8. CASE Server(b)
  BY Zenon, <1>8, ServerEffect DEF TypeOK, OnlyBlock, Server, InInterrupt
<1> QED
  BY <1>1, <1>2, <1>3, <1>4, <1>5, <1>6, <1>7, <1>8 DEF Lwip

\* A callback leaves the handle on a block of the client, or takes it away.
LEMMA LwipHandle ==
    ASSUME TypeOK, HandleInv, wild = NULL, NEW b \in Pcbs, Lwip(b)
    PROVE  HandleInv'
<1> USE ConnectAssumption, FreeFields
<1>1. CASE do_connected(b)
  BY <1>1, ConnectedEffect DEF TypeOK, HandleInv, OnlyBlock, Kept, do_connected, InInterrupt
<1>2. CASE tcp_process(b) \/ PeerDies(b)
  BY <1>2, SegmentEffect DEF TypeOK, HandleInv, OnlyBlock, Kept, tcp_process, PeerDies,
     InInterrupt
<1>3. CASE do_recv(b)
  <2>1. CASE pcb[b].shut
    <3>1. OnlyBlock(b) /\ pcb'[b] = FreeBlock
      BY <1>3, <2>1, FreeEffect
    <3> QED
      BY ZenonT(60), <1>3, <2>1, <3>1 DEF TypeOK, HandleInv, OnlyBlock, do_recv, do_err, InInterrupt
  <2>2. CASE ~ pcb[b].shut
    <3>1. UNCHANGED <<pc, cpcb, errSeen, wild>>
      BY <1>3, <2>2 DEF do_recv, InInterrupt
    <3>2. OnlyBlock(b) /\ Kept(pcb[b], pcb'[b]) /\ pcb'[b].st = pcb[b].st
      BY <1>3, <2>2, SegmentEffect
    <3> QED
      BY <3>1, <3>2 DEF TypeOK, HandleInv, OnlyBlock, Kept
  <2> QED
    BY <2>1, <2>2
<1>4. CASE do_recv_fin(b)
  BY ZenonT(60), <1>4, FinEffect DEF TypeOK, HandleInv, OnlyBlock, Kept, do_recv_fin, InInterrupt
<1>5. CASE tcp_abandon(b)
  BY Zenon, <1>5, FreeEffect DEF TypeOK, HandleInv, OnlyBlock, tcp_abandon, do_err, InInterrupt
<1>6. CASE tcp_closed(b)
  BY <1>6, FreeEffect DEF TypeOK, HandleInv, OnlyBlock, tcp_closed, InInterrupt
<1>7. CASE do_poll(b)
  <2>1. CASE pollAlive(b) /\ KeepOver(b)
    BY <1>7, <2>1, FreeEffect DEF TypeOK, HandleInv, OnlyBlock, do_poll, pollAlive, do_err,
       InInterrupt
  <2>2. CASE pollAlive(b) /\ ~ KeepOver(b)
    BY <1>7, <2>2, ProbeEffect DEF TypeOK, HandleInv, OnlyBlock, Kept, do_poll, pollAlive,
       InInterrupt
  <2>3. CASE pollClose(b)
    BY <1>7, <2>3, CloseEffect DEF TypeOK, HandleInv, OnlyBlock, do_poll, pollClose,
       InInterrupt
  <2>4. CASE pollNull
    BY <1>7, <2>4 DEF TypeOK, HandleInv, do_poll, pollNull, InInterrupt
  <2> QED
    BY <1>7, <2>1, <2>2, <2>3, <2>4 DEF do_poll
<1>8. CASE close_retry_poll(b)
  BY <1>8, CloseEffect DEF TypeOK, HandleInv, OnlyBlock, close_retry_poll, InInterrupt
<1>9. CASE Server(b)
  BY <1>9, ServerEffect DEF TypeOK, HandleInv, OnlyBlock, Server, InInterrupt
<1> QED
  BY <1>1, <1>2, <1>3, <1>4, <1>5, <1>6, <1>7, <1>8, <1>9 DEF Lwip

\* A callback touches the client's own connection only, as long as no other has
\* the client for its argument.
LEMMA LwipSilent ==
    ASSUME TypeOK, SilentInv, wild = NULL, NEW b \in Pcbs, Lwip(b)
    PROVE  SilentInv'
<1> USE ConnectAssumption, FreeFields
<1>1. CASE do_connected(b)
  <2>1. UNCHANGED <<pc, cpcb, p, held, orphan, wild>> /\ _connected' /\ Client(b)
    BY <1>1 DEF do_connected, InInterrupt
  <2>2. OnlyBlock(b) /\ Kept(pcb[b], pcb'[b]) /\ pcb'[b].st = "ESTABLISHED"
    BY <1>1, ConnectedEffect
  <2> QED
    BY <2>1, <2>2 DEF TypeOK, SilentInv, Client, Active, OnlyBlock, Kept
<1>2. CASE tcp_process(b) \/ PeerDies(b)
  <2>1. UNCHANGED <<pc, cpcb, p, held, orphan, wild, _connected>>
    BY <1>2 DEF tcp_process, PeerDies, InInterrupt
  <2>2. OnlyBlock(b) /\ Kept(pcb[b], pcb'[b]) /\ pcb'[b].st = pcb[b].st
    BY <1>2, SegmentEffect
  <2> QED
    BY <2>1, <2>2 DEF TypeOK, SilentInv, Client, Active, OnlyBlock, Kept
<1>3. CASE do_recv(b) /\ ~ pcb[b].shut
  <2>1. UNCHANGED <<pc, cpcb, held, orphan, wild, _connected>> /\ Client(b)
        /\ p' = p \cup {pcb[b].mine}
    BY <1>3 DEF do_recv, InInterrupt
  <2>2. OnlyBlock(b) /\ Kept(pcb[b], pcb'[b]) /\ pcb'[b].st = pcb[b].st
    BY <1>3, SegmentEffect
  <2>3. ~ orphan => b = cpcb /\ pcb[b].mine # "old"
    BY <1>3, <2>1 DEF SilentInv, TypeOK
  <2> QED
    BY <2>1, <2>2, <2>3 DEF TypeOK, SilentInv, Client, Active, OnlyBlock, Kept
<1>4. ASSUME OnlyBlock(b), pcb'[b] = FreeBlock, Client(b), do_err(b),
             UNCHANGED <<pc, p, held, orphan, wild>>,
             cpcb' = cpcb \/ (cpcb = b /\ cpcb' = NULL)
      PROVE  SilentInv'
  <2>1. ~ orphan => b = cpcb \/ _connected' = _connected
    BY <1>4 DEF SilentInv, do_err, Reports, TypeOK
  <2> QED
    BY <1>4, <2>1 DEF TypeOK, SilentInv, Client, Active, OnlyBlock
<1>5. CASE do_recv(b) /\ pcb[b].shut
  <2>1. UNCHANGED <<pc, cpcb, p, held, orphan, wild>> /\ Client(b) /\ do_err(b)
    BY <1>5 DEF do_recv, InInterrupt
  <2> QED
    BY <1>4, <1>5, <2>1, FreeEffect
<1>6. CASE tcp_abandon(b)
  BY Zenon, <1>4, <1>6, FreeEffect DEF tcp_abandon, InInterrupt
<1>7. CASE tcp_closed(b)
  <2>1. UNCHANGED <<pc, cpcb, p, held, orphan, wild, _connected>>
    BY <1>7 DEF tcp_closed, InInterrupt
  <2>2. OnlyBlock(b) /\ pcb'[b] = FreeBlock
    BY <1>7, FreeEffect
  <2> QED
    BY <2>1, <2>2 DEF TypeOK, SilentInv, Client, Active, OnlyBlock
<1>8. CASE do_recv_fin(b)
  <2>1. UNCHANGED <<pc, cpcb, p, held, orphan, wild>> /\ Client(b)
        /\ _connected' = (_connected /\ ~ pcb[b].arg)
    BY <1>8 DEF do_recv_fin, InInterrupt
  <2>2. /\ OnlyBlock(b) /\ Kept(pcb[b], pcb'[b])
        /\ pcb[b].st \in {"ESTABLISHED", "FIN_WAIT"}
        /\ pcb'[b].st \in {"CLOSE_WAIT", "LAST_ACK", "TIME_WAIT"}
    BY <1>8, FinEffect
  <2> QED
    BY <2>1, <2>2 DEF TypeOK, SilentInv, Client, Active, OnlyBlock, Kept
<1>9. ASSUME OnlyBlock(b), Client(b),
             \/ pcb'[b] = FreeBlock
             \/ /\ pcb'[b].shut /\ pcb'[b].mine = pcb[b].mine
                /\ pcb'[b].arg = pcb[b].arg /\ pcb'[b].poll = pcb[b].poll
                /\ pcb'[b].st = "ESTABLISHED" => pcb[b].st = "ESTABLISHED",
             UNCHANGED <<pc, p, held, wild, _connected>>,
             \/ cpcb' = cpcb /\ orphan' = orphan
             \/ /\ cpcb' = IF cpcb = b THEN NULL ELSE cpcb
                /\ orphan' = (orphan \/ Reports(pcb'[b]))
      PROVE  SilentInv'
  <2>1. \A c \in Pcbs : /\ Client(c)' => Client(c)
                        /\ Client(c)' => pcb'[c].mine = pcb[c].mine /\ pcb'[c].arg = pcb[c].arg
                        /\ Client(c)' /\ pcb[c].shut => pcb'[c].shut
                        /\ pcb'[c].mine # "old" \/ pcb'[c].mine = pcb[c].mine
                        /\ Client(c)' /\ pcb'[c].st = "ESTABLISHED" => pcb[c].st = "ESTABLISHED"
    BY <1>9 DEF Client, Active, OnlyBlock
  <2>2. orphan' \/ (~ orphan /\ (cpcb' = cpcb \/ (cpcb' = NULL /\ cpcb = b /\ ~ Reports(pcb'[b]))))
    BY Zenon, <1>9
  <2>3. Client(b)' /\ pcb'[b].arg => Reports(pcb'[b])
    BY DEF Client, Reports
  <2>4. cpcb' = cpcb \/ cpcb' = NULL
    BY <1>9
  <2>5. pcb' \in [Pcbs -> Block] /\ UNCHANGED <<pc, p, held, wild, _connected>>
    BY <1>9 DEF OnlyBlock
  <2>6. held' => pc' = "idle"
    BY <2>5 DEF SilentInv
  <2>7. ASSUME cpcb' # NULL PROVE pcb'[cpcb'].mine # "old"
    BY <2>1, <2>4, <2>7 DEF SilentInv, TypeOK
  <2>8. ASSUME NEW c \in Pcbs, Client(c)', ~ pcb'[c].arg PROVE pcb'[c].shut
    BY <2>1, <2>8 DEF SilentInv
  <2>9. ASSUME ~ orphan', wild' = NULL
        PROVE  ~ orphan /\ wild = NULL /\ "old" \notin p' /\ (cpcb' = cpcb \/ (cpcb' = NULL /\ cpcb = b /\ ~ Reports(pcb'[b])))
    BY <2>2, <2>5, <2>9 DEF SilentInv
  <2>10. ASSUME ~ orphan', wild' = NULL, NEW c \in Pcbs, Client(c)', pcb'[c].arg
         PROVE c = cpcb'
    BY <2>1, <2>3, <2>9, <2>10 DEF SilentInv
  <2>11. ASSUME ~ orphan', wild' = NULL, pc' = "idle", ~ held', cpcb' # NULL
         PROVE ~ (Client(cpcb)' /\ pcb'[cpcb'].arg)
    BY <2>1, <2>5, <2>9, <2>11 DEF SilentInv, TypeOK
  <2>12. ASSUME ~ orphan', wild' = NULL, held', cpcb' # NULL, pcb'[cpcb'].mine = "current",
               pcb'[cpcb'].st = "ESTABLISHED"
        PROVE  _connected'
    BY <2>1, <2>5, <2>9, <2>12 DEF SilentInv, TypeOK, Client, Active
  <2> QED
    BY <2>6, <2>7, <2>8, <2>9, <2>10, <2>11, <2>12 DEF SilentInv, Client
<1>10. CASE do_poll(b)
  <2>1. UNCHANGED <<pc, p, held>> /\ Client(b)
    BY <1>10 DEF do_poll, InInterrupt
  <2>2. CASE pollAlive(b) /\ KeepOver(b)
    <3>1. do_err(b) /\ cpcb' = (IF cpcb = b THEN NULL ELSE cpcb) /\ UNCHANGED <<orphan, wild>>
      BY <2>2 DEF pollAlive
    <3> QED
      BY <1>4, <2>1, <2>2, <3>1, FreeEffect
  <2>3. CASE pollAlive(b) /\ ~ KeepOver(b)
    <3>1. UNCHANGED <<cpcb, _connected, orphan, wild>>
      BY <2>3 DEF pollAlive
    <3>2. OnlyBlock(b) /\ Kept(pcb[b], pcb'[b]) /\ pcb'[b].st = pcb[b].st
      BY <2>3, ProbeEffect
    <3> QED
      BY <2>1, <3>1, <3>2 DEF TypeOK, SilentInv, Client, Active, OnlyBlock, Kept
  <2>4. CASE pollClose(b)
    <3>1. PICK y \in tcp_close(pcb[b]) : /\ pcb' = [pcb EXCEPT ![b] = y]
                                        /\ orphan' = (orphan \/ Reports(y))
      BY Zenon, <2>4 DEF pollClose
    <3>2. y = pcb'[b]
      BY <3>1 DEF TypeOK
    <3>3. cpcb' = (IF cpcb = b THEN NULL ELSE cpcb) /\ UNCHANGED <<_connected, wild>>
      BY <2>4 DEF pollClose
    <3> QED
      BY <1>9, <2>1, <2>4, <3>1, <3>2, <3>3, CloseEffect
  <2>5. CASE pollNull
    <3>1. UNCHANGED <<pcb, cpcb, _connected, orphan>> /\ wild' # NULL
      BY <2>5 DEF pollNull
    <3> QED
      BY <2>1, <3>1 DEF SilentInv, Client, Active
  <2> QED
    BY <1>10, <2>2, <2>3, <2>4, <2>5 DEF do_poll
<1>11. CASE close_retry_poll(b)
  <2>1. UNCHANGED <<pc, cpcb, p, held, orphan, wild, _connected>> /\ Client(b)
    BY <1>11 DEF close_retry_poll, InInterrupt
  <2> QED
    BY <1>9, <1>11, <2>1, CloseEffect
<1>12. CASE Server(b)
  <2>1. UNCHANGED <<pc, cpcb, p, held, orphan, wild, _connected>>
    BY <1>12 DEF Server, InInterrupt
  <2> QED
    BY <1>12, <2>1, ServerEffect DEF TypeOK, SilentInv, Client, Active, OnlyBlock
<1> QED
  BY <1>1, <1>2, <1>3, <1>5, <1>6, <1>7, <1>8, <1>10, <1>11, <1>12 DEF Lwip

-----------------------------------------------------------------------------
(* The sketch.                                                             *)

\* connect() has a new block or none; the others only grow old.
LEMMA ConnectEffect ==
    ASSUME TypeOK, connect
    PROVE  /\ pcb' \in [Pcbs -> Block] /\ cpcb' \in Pcbs \cup {NULL}
           /\ \A c \in Pcbs : c # cpcb' =>
                 /\ pcb'[c].arg = pcb[c].arg /\ pcb'[c].shut = pcb[c].shut
                 /\ pcb'[c].st = pcb[c].st
                 /\ pcb'[c].mine \in {"current", "old"} => pcb[c].mine \in {"current", "old"}
           /\ cpcb' = NULL => pc' = "idle" /\ _connected' = _connected
           /\ cpcb' # NULL =>
                 /\ pcb'[cpcb'].mine = "current" /\ pcb'[cpcb'].arg
                 /\ pcb'[cpcb'].poll = NULL
                 /\ \/ pc' = "wait" /\ pcb'[cpcb'].st = "SYN_SENT"
                    \/ pc' = "idle" /\ pcb'[cpcb'].st = "CLOSED"
                 /\ _connected' \in BOOLEAN
<1> USE ConnectAssumption
<1> DEFINE old == [b \in Pcbs |->
               [pcb[b] EXCEPT !.mine = IF @ = "current" THEN "old" ELSE @]]
           new(s) == [FreeBlock EXCEPT !.mine = "current", !.arg = TRUE, !.st = s]
<1>1. old \in [Pcbs -> Block]
      /\ \A c \in Pcbs :
           /\ old[c].arg = pcb[c].arg /\ old[c].shut = pcb[c].shut /\ old[c].st = pcb[c].st
           /\ old[c].mine \in {"current", "old"} => pcb[c].mine \in {"current", "old"}
  BY Zenon, OldBlock DEF TypeOK
<1>2. CASE cpcb' = NULL /\ pcb' = old /\ pc' = "idle" /\ UNCHANGED _connected
  <2> HIDE DEF old
  <2> QED BY <1>1, <1>2
<1>3. ASSUME NEW b \in tcp_alloc, NEW ok \in BOOLEAN, cpcb' = b,
             pcb' = [old EXCEPT ![b] = new(IF ok THEN "SYN_SENT" ELSE "CLOSED")],
             pc' = (IF ok THEN "wait" ELSE "idle"),
             _connected' = (_connected # Reports(pcb[b]))
      PROVE  /\ b \in Pcbs /\ pcb' \in [Pcbs -> Block]
             /\ \A c \in Pcbs : c # b => pcb'[c] = old[c]
             /\ pcb'[b].mine = "current" /\ pcb'[b].arg /\ pcb'[b].poll = NULL
             /\ \/ pc' = "wait" /\ pcb'[b].st = "SYN_SENT"
                \/ pc' = "idle" /\ pcb'[b].st = "CLOSED"
             /\ _connected' \in BOOLEAN
  <2>1. b \in Pcbs
    BY DEF tcp_alloc
  <2>2. PICK s \in {"SYN_SENT", "CLOSED"} :
          /\ pcb' = [old EXCEPT ![b] = new(s)]
          /\ pc' = IF s = "SYN_SENT" THEN "wait" ELSE "idle"
    BY Zenon, <1>3
  <2> DEFINE n == new(s)
  <2>3. n \in Block /\ n.mine = "current" /\ n.arg /\ n.st = s /\ n.poll = NULL
    BY Zenon, NewBlock
  <2>4. pcb' = [old EXCEPT ![b] = n]
    BY <2>2
  <2>5. _connected' \in BOOLEAN
    BY <1>3
  <2> HIDE DEF n, old
  <2> QED
    <3>1. pcb' \in [Pcbs -> Block] /\ pcb'[b] = n /\ \A c \in Pcbs : c # b => pcb'[c] = old[c]
      BY <1>1, <2>1, <2>3, <2>4
    <3>2. \/ pc' = "wait" /\ s = "SYN_SENT"
          \/ pc' = "idle" /\ s = "CLOSED"
      BY <2>2
    <3> QED
      BY <2>1, <2>3, <2>5, <3>1, <3>2
<1>4. \/ cpcb' = NULL /\ pcb' = old /\ pc' = "idle" /\ UNCHANGED _connected
      \/ \E b \in tcp_alloc : \E ok \in BOOLEAN :
             /\ cpcb' = b
             /\ pcb' = [old EXCEPT ![b] = new(IF ok THEN "SYN_SENT" ELSE "CLOSED")]
             /\ pc' = IF ok THEN "wait" ELSE "idle"
             /\ _connected' = (_connected # Reports(pcb[b]))
  BY Zenon DEF connect
<1>5. CASE \E b \in tcp_alloc : \E ok \in BOOLEAN :
             /\ cpcb' = b
             /\ pcb' = [old EXCEPT ![b] = new(IF ok THEN "SYN_SENT" ELSE "CLOSED")]
             /\ pc' = IF ok THEN "wait" ELSE "idle"
             /\ _connected' = (_connected # Reports(pcb[b]))
  <2>1. PICK b \in tcp_alloc, ok \in BOOLEAN :
             /\ cpcb' = b
             /\ pcb' = [old EXCEPT ![b] = new(IF ok THEN "SYN_SENT" ELSE "CLOSED")]
             /\ pc' = IF ok THEN "wait" ELSE "idle"
             /\ _connected' = (_connected # Reports(pcb[b]))
    BY Zenon, <1>5
  <2>2. /\ b \in Pcbs /\ pcb' \in [Pcbs -> Block]
        /\ \A c \in Pcbs : c # b => pcb'[c] = old[c]
        /\ pcb'[b].mine = "current" /\ pcb'[b].arg /\ pcb'[b].poll = NULL
        /\ \/ pc' = "wait" /\ pcb'[b].st = "SYN_SENT"
           \/ pc' = "idle" /\ pcb'[b].st = "CLOSED"
        /\ _connected' \in BOOLEAN
    <3> HIDE DEF old, new
    <3> QED BY Zenon, <1>3, <2>1
  <2>3. cpcb' = b
    BY <2>1
  <2> HIDE DEF old, new
  <2> QED
    BY <1>1, <2>2, <2>3
<1> QED
  BY Zenon, <1>2, <1>4, <1>5

\* connect() up to the wait.
LEMMA ConnectStep ==
    ASSUME IInv, wild = NULL, connect
    PROVE  IInv'
<1> USE ConnectAssumption
<1>1. /\ pc = "idle" /\ ~ held /\ p' = {} /\ errSeen' = FALSE
      /\ UNCHANGED <<late, now, held, orphan, wild>>
  BY Zenon DEF connect
<1>2. TypeOK /\ HandleInv /\ SilentInv
  BY DEF IInv
<1>3. TypeOK'
  BY Zenon, <1>1, <1>2, ConnectEffect DEF TypeOK
<1>4. HandleInv'
  BY <1>1, <1>2, ConnectEffect DEF HandleInv, TypeOK
<1>5. \A c \in Pcbs : c # cpcb' /\ Client(c)' => Client(c) /\ pcb'[c].arg = pcb[c].arg
                                              /\ pcb'[c].shut = pcb[c].shut
  BY <1>2, ConnectEffect DEF Client, Active
<1>6. cpcb' # NULL => /\ pcb'[cpcb'].mine = "current" /\ pcb'[cpcb'].arg
                      /\ pc' = "idle" => pcb'[cpcb'].st = "CLOSED"
  BY <1>2, ConnectEffect
<1>7. cpcb' \in Pcbs \cup {NULL}
  BY <1>3 DEF TypeOK
<1>8. ~ orphan => \A c \in Pcbs : ~ (Client(c) /\ pcb[c].arg)
  BY <1>1, <1>2 DEF SilentInv
<1>9. SilentInv'
  BY <1>1, <1>2, <1>5, <1>6, <1>7, <1>8 DEF SilentInv, Client, Active
<1> QED
  BY <1>3, <1>4, <1>9 DEF IInv

\* The close of the block at the handle, after which the handle is gone.
LEMMA HandleClosed ==
    ASSUME TypeOK, HandleInv, SilentInv, wild = NULL, cpcb # NULL,
           NEW x \in Block, NEW y \in Block, x.mine = pcb[cpcb].mine,
           pcb' = [pcb EXCEPT ![cpcb] = y], cpcb' = NULL,
           wild' = (IF x.mine = "current" THEN wild ELSE "tcp_close"),
           y = FreeBlock \/ (y.shut /\ y.mine = x.mine),
           pc' = "idle", held' = FALSE, errSeen' = errSeen,
           p' = p \/ p' = {}, _connected' \in BOOLEAN, late' \in BOOLEAN, now' \in BOOLEAN,
           orphan' \in BOOLEAN, orphan' \/ (~ orphan /\ ~ Reports(y))
    PROVE  IInv'
<1> USE ConnectAssumption, FreeFields
<1>1. cpcb \in Pcbs /\ pcb' = [pcb EXCEPT ![cpcb] = y] /\ cpcb' = NULL
      /\ wild' = IF x.mine = "current" THEN wild ELSE "tcp_close"
  BY DEF TypeOK
<1>2. OnlyBlock(cpcb) /\ pcb'[cpcb] = y
  BY ZenonT(60), <1>1, BlockUpdate
<1>3. TypeOK'
  BY Zenon, <1>1, <1>2 DEF TypeOK, OnlyBlock
<1>4. HandleInv'
  BY <1>1 DEF HandleInv
<1>5. \A c \in Pcbs : Client(c)' => c = cpcb \/ (Client(c) /\ pcb'[c] = pcb[c])
  BY <1>2 DEF Client, OnlyBlock
<1>7. \A c \in Pcbs : Client(c)' /\ ~ pcb'[c].arg => pcb'[c].shut
  BY <1>2, <1>5 DEF SilentInv, Client, Active
<1>8. ~ orphan' => \A c \in Pcbs : ~ (Client(c)' /\ pcb'[c].arg)
  BY <1>2, <1>5 DEF SilentInv, Client, Reports
<1>9. SilentInv'
  BY <1>1, <1>7, <1>8 DEF SilentInv
<1> QED
  BY <1>3, <1>4, <1>9 DEF IInv

\* connect() gives up: after the timeout, or in another state.
LEMMA GiveUpStep ==
    ASSUME IInv, wild = NULL, pc # "idle", NEW y \in tcp_close(pcb[cpcb]),
           CloseHandle(pcb[cpcb], y), orphan' = (orphan \/ Reports(y)), Leave,
           _connected' \in BOOLEAN, UNCHANGED <<p, held, errSeen>>
    PROVE  IInv'
<1>1. TypeOK /\ HandleInv /\ SilentInv
  BY DEF IInv
<1>2. cpcb # NULL /\ ~ held
  BY <1>1 DEF HandleInv, SilentInv
<1>3. pcb[cpcb] \in Block /\ held' = FALSE
  BY <1>1, <1>2 DEF TypeOK
<1>4. y \in Block /\ (y = FreeBlock \/ (y.shut /\ y.mine = pcb[cpcb].mine))
  BY <1>3, CloseResult
<1>5. /\ pcb' = [pcb EXCEPT ![cpcb] = y] /\ cpcb' = NULL
      /\ wild' = (IF pcb[cpcb].mine = "current" THEN wild ELSE "tcp_close")
      /\ pc' = "idle" /\ late' \in BOOLEAN /\ now' \in BOOLEAN
  BY Zenon DEF CloseHandle, Leave
<1>6. orphan' \in BOOLEAN /\ (orphan' \/ (~ orphan /\ ~ Reports(y)))
  BY Zenon DEF Reports
<1> QED
  BY Zenon, <1>1, <1>2, <1>3, <1>4, <1>5, <1>6, HandleClosed

\* stop(), whose tcp_close may fail.
LEMMA StopStep ==
    ASSUME IInv, wild = NULL, stop
    PROVE  IInv'
<1> USE ConnectAssumption, FreeFields
<1>1. TypeOK /\ HandleInv /\ SilentInv
  BY DEF IInv
<1>2. /\ pc = "idle" /\ p' = {} /\ _connected' = FALSE /\ held' = FALSE
      /\ UNCHANGED <<pc, late, now, errSeen, orphan>>
  BY DEF stop
<1>3. CASE cpcb = NULL
  <2>1. UNCHANGED <<pcb, cpcb, wild>>
    BY <1>3 DEF stop
  <2> QED
    BY Zenon, <1>1, <1>2, <1>3, <2>1 DEF IInv, TypeOK, HandleInv, SilentInv, Client
<1>4. CASE cpcb # NULL
  <2> DEFINE x == Detached(pcb[cpcb])
  <2>1. x \in Block /\ x.mine = pcb[cpcb].mine /\ ~ x.arg
    BY <1>1, <1>4, DetachedBlock DEF TypeOK
  <2>2. PICK y \in tcp_close(x) :
          CloseHandle(x, IF Failed(x, y) THEN [y EXCEPT !.poll = "close_retry_poll"] ELSE y)
    BY <1>4 DEF stop
  <2> DEFINE z == IF Failed(x, y) THEN [y EXCEPT !.poll = "close_retry_poll"] ELSE y
  <2> HIDE DEF x
  <2>3. y \in Block /\ ~ y.arg /\ (y = FreeBlock \/ (y.shut /\ y.mine = x.mine))
    BY <2>1, CloseResult
  <2>4. ~ Failed(x, FreeBlock)
    BY DEF Failed
  <2>5. z \in Block /\ ~ z.arg /\ (z = FreeBlock \/ (z.shut /\ z.mine = x.mine))
    BY ZenonT(60), <2>3, <2>4, PollBlock
  <2>6. CloseHandle(x, z)
    BY <2>2
  <2> HIDE DEF z
  <2>7. /\ pcb' = [pcb EXCEPT ![cpcb] = z] /\ cpcb' = NULL
        /\ wild' = (IF x.mine = "current" THEN wild ELSE "tcp_close")
    BY <2>6 DEF CloseHandle
  <2>8. late' \in BOOLEAN /\ now' \in BOOLEAN /\ orphan' \in BOOLEAN
        /\ _connected' \in BOOLEAN
    BY Zenon, <1>1, <1>2 DEF TypeOK
  <2>9. orphan' \/ (~ orphan /\ ~ Reports(z))
    BY <1>2, <2>5 DEF Reports
  <2> QED
    BY Zenon, <1>1, <1>2, <1>4, <2>1, <2>5, <2>7, <2>8, <2>9, HandleClosed
<1> QED
  BY <1>3, <1>4

\* connect() returns with the connection.
LEMMA SetPollStep ==
    ASSUME IInv, wild = NULL, setPoll
    PROVE  IInv'
<1> USE ConnectAssumption
<1>1. TypeOK /\ HandleInv /\ SilentInv
  BY DEF IInv
<1>2. /\ pc = "poll" /\ pc' = "idle" /\ late' = FALSE /\ now' = FALSE
      /\ held' = _connected /\ UNCHANGED <<cpcb, p, _connected, errSeen>>
      /\ orphan' = (orphan \/ (~ _connected /\ Reports(pcb[cpcb])))
      /\ wild' = IF pcb[cpcb].mine = "server" THEN "tcp_poll" ELSE wild
  BY DEF setPoll, Leave
<1>3. cpcb \in Pcbs /\ cpcb # NULL
  BY <1>1, <1>2 DEF HandleInv, TypeOK
<1> DEFINE f == [pcb[cpcb] EXCEPT !.poll = "do_poll"]
<1>4. /\ f \in Block /\ f.mine = pcb[cpcb].mine /\ f.arg = pcb[cpcb].arg
      /\ f.shut = pcb[cpcb].shut /\ f.st = pcb[cpcb].st /\ f.poll = "do_poll"
  BY Zenon, <1>1, <1>3, PollBlock DEF TypeOK
<1>5. pcb' = pcb \/ pcb' = [pcb EXCEPT ![cpcb] = f]
  BY DEF setPoll
<1> HIDE DEF f
<1>6. /\ pcb' \in [Pcbs -> Block]
      /\ \A c \in Pcbs : /\ pcb'[c].mine = pcb[c].mine /\ pcb'[c].arg = pcb[c].arg
                         /\ pcb'[c].shut = pcb[c].shut /\ pcb'[c].st = pcb[c].st
                         /\ pcb'[c].poll \in {pcb[c].poll, "do_poll"}
  BY <1>1, <1>3, <1>4, <1>5 DEF TypeOK
<1>7. TypeOK'
  BY Zenon, <1>1, <1>2, <1>6 DEF TypeOK, Reports
<1>8. HandleInv'
  BY <1>1, <1>2, <1>3, <1>6 DEF HandleInv
<1>9. orphan' \/ (~ orphan /\ (held' \/ ~ Reports(pcb[cpcb])))
  BY ZenonT(60), <1>2
<1>10. \A c \in Pcbs : Client(c)' <=> Client(c)
  BY <1>6 DEF Client, Active
<1>11. Client(cpcb) /\ pcb[cpcb].arg => Reports(pcb[cpcb])
  BY DEF Client, Reports
<1>12. SilentInv'
  <2>1. /\ held' => pc' = "idle"
        /\ pcb'[cpcb].mine # "old"
        /\ \A c \in Pcbs : Client(c)' /\ ~ pcb'[c].arg => pcb'[c].shut
    BY <1>1, <1>2, <1>3, <1>6, <1>10 DEF SilentInv
  <2>2. ASSUME ~ orphan', wild' = NULL
        PROVE  /\ "old" \notin p'
               /\ \A c \in Pcbs : Client(c)' /\ pcb'[c].arg => c = cpcb
               /\ ~ held' => ~ (Client(cpcb) /\ pcb[cpcb].arg)
               /\ held' => _connected'
    BY <1>1, <1>2, <1>6, <1>9, <1>10, <1>11, <2>2 DEF SilentInv
  <2> QED
    BY <1>2, <1>3, <1>6, <1>10, <2>1, <2>2 DEF SilentInv, Client, Active
<1> QED
  BY <1>7, <1>8, <1>12 DEF IInv

\* The wait of connect() and its end.
LEMMA WaitStep ==
    ASSUME IInv, wild = NULL, waitLoop \/ waitTimeout \/ checkState \/ Elapse
    PROVE  IInv'
<1>1. TypeOK /\ HandleInv /\ SilentInv
  BY DEF IInv
<1>2. CASE UNCHANGED <<pcb, cpcb, p, _connected, held, errSeen, orphan, wild>>
           /\ pc # "idle" /\ pc' \in {"wait", "delay", "check", "poll"}
           /\ late' \in BOOLEAN /\ now' \in BOOLEAN
  <2>1. TypeOK'
    BY <1>1, <1>2 DEF TypeOK
  <2>2. HandleInv'
    BY <1>1, <1>2 DEF HandleInv
  <2>3. SilentInv'
    BY <1>1, <1>2 DEF SilentInv, Client
  <2> QED
    BY <2>1, <2>2, <2>3 DEF IInv
<1>3. late \in BOOLEAN /\ now \in BOOLEAN /\ _connected \in BOOLEAN
  BY <1>1 DEF TypeOK
<1>4. CASE waitLoop \/ Elapse
  BY Zenon, <1>2, <1>3, <1>4 DEF waitLoop, Elapse
<1>5. CASE waitTimeout
  <2>1. CASE ~ now
    BY <1>2, <1>3, <1>5, <2>1 DEF waitTimeout
  <2>2. CASE now
    <3>1. PICK y \in tcp_close(pcb[cpcb]) :
            CloseHandle(pcb[cpcb], y) /\ orphan' = (orphan \/ Reports(y)) /\ Leave
      BY <1>5, <2>2 DEF waitTimeout
    <3>2. pc # "idle" /\ UNCHANGED <<p, _connected, held, errSeen>>
      BY <1>5 DEF waitTimeout
    <3> QED
      BY <1>3, <3>1, <3>2, GiveUpStep
  <2> QED
    BY <2>1, <2>2
<1>6. CASE checkState
  <2>1. CASE pc' = "poll" /\ UNCHANGED <<pcb, cpcb, _connected, late, now, orphan, wild>>
    BY <1>2, <1>3, <1>6, <2>1 DEF checkState
  <2>2. CASE \E y \in tcp_close(pcb[cpcb]) :
               /\ _connected' = FALSE
               /\ CloseHandle(pcb[cpcb], y)
               /\ orphan' = (orphan \/ Reports(y))
               /\ Leave
    <3>1. PICK y \in tcp_close(pcb[cpcb]) :
            /\ _connected' = FALSE
            /\ CloseHandle(pcb[cpcb], y) /\ orphan' = (orphan \/ Reports(y)) /\ Leave
      BY <2>2
    <3>2. pc # "idle" /\ UNCHANGED <<p, held, errSeen>>
      BY <1>6 DEF checkState
    <3> QED
      BY Zenon, <3>1, <3>2, GiveUpStep
  <2> QED
    BY Zenon, <1>6, <2>1, <2>2 DEF checkState
<1> QED
  BY <1>4, <1>5, <1>6

\* read().
LEMMA ReadStep ==
    ASSUME IInv, wild = NULL, read
    PROVE  IInv'
<1> USE ConnectAssumption
<1>1. TypeOK /\ HandleInv /\ SilentInv
  BY DEF IInv
<1>2. p' = {} /\ UNCHANGED <<pc, cpcb, _connected, late, now, held, errSeen, orphan, wild>>
  BY DEF read
<1> DEFINE o == [pcb[cpcb] EXCEPT !.open = TRUE]
<1>3. cpcb \in Pcbs => o \in Block /\ Kept(pcb[cpcb], o) /\ o.st = pcb[cpcb].st
  BY Zenon, <1>1, OpenBlock DEF TypeOK
<1>4. pcb' = pcb \/ (cpcb \in Pcbs /\ pcb' = [pcb EXCEPT ![cpcb] = o])
  BY <1>1 DEF read, TypeOK
<1> HIDE DEF o
<1>5. /\ pcb' \in [Pcbs -> Block]
      /\ \A c \in Pcbs : Kept(pcb[c], pcb'[c]) /\ pcb'[c].st = pcb[c].st
  BY <1>1, <1>3, <1>4 DEF TypeOK, Kept
<1>6. TypeOK'
  BY <1>1, <1>2, <1>5 DEF TypeOK
<1>7. cpcb \in Pcbs \cup {NULL}
  BY <1>1 DEF TypeOK
<1>8. HandleInv'
  BY <1>1, <1>2, <1>5, <1>7 DEF HandleInv, Kept
<1>9. SilentInv'
  BY <1>1, <1>2, <1>5, <1>7 DEF SilentInv, Client, Active, Kept
<1> QED
  BY <1>6, <1>8, <1>9 DEF IInv

-----------------------------------------------------------------------------
\* IInv is inductive: it holds at power-up and every step of the sketch and of
\* the interrupt keeps it.
THEOREM Inductive == Spec => []IInv
<1>1. Init => IInv
  BY Zenon, ConnectAssumption, FreeBlockType, FreeFields
  DEF Init, IInv, TypeOK, HandleInv, SilentInv, Client, Active
<1>2. IInv /\ [Next]_vars => IInv'
  <2> SUFFICES ASSUME IInv, [Next]_vars PROVE IInv'
    OBVIOUS
  <2>1. CASE UNCHANGED vars
    BY <2>1 DEF vars, IInv, TypeOK, HandleInv, SilentInv, Client
  <2>2. CASE wild = NULL /\ connect
    BY <2>2, ConnectStep
  <2>3. CASE wild = NULL /\ (Connecting \/ Elapse)
    BY <2>3, WaitStep, SetPollStep DEF Connecting
  <2>4. CASE wild = NULL /\ stop
    BY <2>4, StopStep
  <2>5. CASE wild = NULL /\ read
    BY <2>5, ReadStep
  <2>6. ASSUME wild = NULL, NEW b \in Pcbs, Lwip(b) PROVE IInv'
    BY <2>6, LwipType, LwipHandle, LwipSilent DEF IInv
  <2> QED
    BY <2>1, <2>2, <2>3, <2>4, <2>5, <2>6 DEF Next
<1> QED
  BY <1>1, <1>2, PTL DEF Spec

\* Every value connect(), stop() and the callbacks leave has its type; a probe
\* count is at most one over the limit do_poll compares it with.
THEOREM TypeCorrect == Spec => []TypeOK
BY Inductive, PTL DEF IInv

\* cs->cpcb is a block of the client's own until do_err was called for it, so
\* neither connect() nor stop() closes somebody else's connection before that.
THEOREM HandleSafe == Spec => []HandleValid
<1>1. IInv => HandleValid
  BY DEF IInv, HandleInv, HandleValid
<1> QED
  BY <1>1, Inductive, PTL

\* What was detached by stop() says nothing to the client again: as long as no
\* connection was given up in another way, the data is of this connection and
\* _connected tells whether it is up.
THEOREM OldSilent == Spec => []OldConnectionSilent
<1>1. IInv => OldConnectionSilent
  BY DEF IInv, SilentInv, OldConnectionSilent
<1> QED
  BY <1>1, Inductive, PTL
=============================================================================
