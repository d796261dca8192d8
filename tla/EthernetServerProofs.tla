------------------------ MODULE EthernetServerProofs ------------------------
(***************************************************************************)
(* Proofs about the slot table, for any number of slots, blocks, handles   *)
(* and connections and any width of the generation.                        *)
(***************************************************************************)
EXTENDS EthernetServer, TLAPS

\* Inside the loops over the slots the counter has not run out, and a call
\* that has picked a slot has picked one that was given a connection.
ThreadInv ==
    /\ th.pc # "probe" => th.n < MAX_CLIENTS
    /\ th.pc \in {"state", "data", "claim", "capture"} => conn[th.i] # 0
    /\ th.pc \in {"stale", "cpcb"} => th.w.slot # NULL

\* A block in use has a peer's port, and one whose close is being retried is
\* detached and past its handshake; a live slot was given a connection.
LiveInv ==
    /\ \A a \in Pcbs : state[a] # "FREE" => remote_port[a] # 0
    /\ \A a \in Pcbs : poll[a] =>
        callback_arg[a] = NULL /\ state[a] \notin {"FREE", "SYN_RCVD"}
    /\ \A s \in Slots : cpcb[s] # NULL => conn[s] # 0

\* Generation g was given to connection c: as long as fewer than GenMax
\* connections followed, the server's counter is that many ahead of g, modulo
\* the wrap.
Stamped(g, c) ==
    /\ c # 0
    /\ c <= accepts
    /\ accepts - c < GenMax =>
        /\ g # 0
        /\ \/ serverGeneration = g + (accepts - c)
           \/ serverGeneration + GenMax = g + (accepts - c)

GenerationInv ==
    /\ \A s \in Slots : conn[s] # 0 => Stamped(generation[s], conn[s])
    /\ \A h \in Handles : handle[h].slot # NULL =>
        /\ Stamped(handle[h].gen, handle[h].conn)
        /\ handle[h].conn <= conn[handle[h].slot]

\* A connection accept() returned after marking it is still marked in its
\* slot; a call of accept() under way has an unmarked slot until it marks it.
ClaimInv ==
    /\ \A s, t \in Slots : conn[s] = conn[t] /\ conn[s] # 0 => s = t
    /\ \A e \in handed : e[2] =>
        e[1] <= accepts /\ \A s \in Slots : conn[s] = e[1] => claimed[s]
    /\ th.op = "accept" /\ th.pc \in {"state", "claim"} => ~ claimed[th.i]
    /\ th.op = "accept" => th.pc # "data"
    /\ th.op = "accept" /\ th.pc = "capture" =>
        /\ th.w.conn <= accepts
        /\ th.w.conn = conn[th.i] => claimed[th.i]
        /\ <<conn[th.i], TRUE>> \notin handed

SlotInv ==
    /\ CallbackOwnsSlot
    /\ SlotNeverDangles
    /\ LiveInv

IInv ==
    /\ TypeOK
    /\ ThreadInv
    /\ SlotInv
    /\ QueueIsolated
    /\ GenerationInv
    /\ ClaimInv

USE ClientsAssumption, GenAssumption, NullAssumption, PortsAssumption, BoundsAssumption

-----------------------------------------------------------------------------
(* What the building blocks of the actions do, stated once.                *)

LEMMA TupleUnchanged ==
    /\ UNCHANGED lwip <=> UNCHANGED <<state, remote_port, callback_arg, poll, serial>>
    /\ UNCHANGED slots <=> UNCHANGED <<port, cpcb, p, generation, claimed, conn>>
    /\ UNCHANGED server <=> UNCHANGED <<serverGeneration, lastClient, accepts>>
    /\ UNCHANGED sketch <=> UNCHANGED <<handle, th, handed>>
BY DEF lwip, slots, server, sketch

LEMMA SlotNotNull == NULL \notin Slots
BY DEF Slots

\* The next generation is a 16-bit value and is never 0.
LEMMA NextGenerationRange ==
    ASSUME serverGeneration \in 0 .. GenMax
    PROVE  NextGeneration \in 1 .. GenMax
BY DEF NextGeneration

LEMMA CursorRange ==
    ASSUME lastClient \in Slots
    PROVE  Cursor \in Slots
BY DEF Cursor, Slots

LEMMA TypeInit == Init => TypeOK
BY DEF Init, TypeOK, LwipTypeOK, SlotsTypeOK, ServerTypeOK, SketchTypeOK, Threads,
       States, Slots, Clients, NoClient, Idle

LEMMA FreePcbType ==
    ASSUME LwipTypeOK, NEW a \in Pcbs, FreePcb(a)
    PROVE  LwipTypeOK'
BY DEF LwipTypeOK, FreePcb, States

LEMMA tcp_closeType ==
    ASSUME LwipTypeOK, NEW a \in Pcbs, NEW st \in States, tcp_close(a, st)
    PROVE  LwipTypeOK'
BY DEF LwipTypeOK, tcp_close, States

LEMMA ReleaseSlotType ==
    ASSUME SlotsTypeOK, NEW s \in Slots, ReleaseSlot(s)
    PROVE  SlotsTypeOK'
BY DEF SlotsTypeOK, ReleaseSlot

LEMMA TypeUnchanged ==
    /\ LwipTypeOK /\ UNCHANGED lwip => LwipTypeOK'
    /\ SlotsTypeOK /\ UNCHANGED slots => SlotsTypeOK'
    /\ ServerTypeOK /\ UNCHANGED server => ServerTypeOK'
    /\ SketchTypeOK /\ UNCHANGED sketch => SketchTypeOK'
BY DEF LwipTypeOK, SlotsTypeOK, ServerTypeOK, SketchTypeOK, lwip, slots, server, sketch

\* The steps of the interrupt keep every variable in its type.
LEMMA TypeInterrupt ==
    ASSUME TypeOK, Interrupt
    PROVE  TypeOK'
<1> USE TypeUnchanged DEF TypeOK
<1>1. PICK a \in Pcbs :
        \/ \E q \in Ports : tcp_listen_input(a, q)
        \/ do_accept(a)
        \/ do_accept_full(a)
        \/ do_recv(a)
        \/ do_recv_fin(a)
        \/ do_err(a)
        \/ do_poll(a)
        \/ tcp_slowtmr(a)
  BY DEF Interrupt
<1>2. CASE \E q \in Ports : tcp_listen_input(a, q)
  <2>1. LwipTypeOK'
    BY <1>2 DEF LwipTypeOK, tcp_listen_input, States
  <2> QED
    BY <1>2, <2>1 DEF tcp_listen_input
<1>3. CASE do_accept(a)
  <2>1. NextGeneration \in 0 .. GenMax
    BY NextGenerationRange DEF ServerTypeOK
  <2>2. LwipTypeOK'
    BY <1>3 DEF LwipTypeOK, ServerTypeOK, do_accept, States
  <2>3. SlotsTypeOK'
    BY SMTT(60), <1>3, <2>1 DEF SlotsTypeOK, LwipTypeOK, ServerTypeOK, do_accept
  <2>4. ServerTypeOK'
    BY <1>3, <2>1 DEF ServerTypeOK, do_accept
  <2> QED
    BY <1>3, <2>2, <2>3, <2>4 DEF do_accept
<1>4. CASE do_accept_full(a)
  BY <1>4, FreePcbType DEF do_accept_full
<1>5. CASE do_recv(a)
  <2>1. CASE callback_arg[a] = NULL
    BY <1>5, <2>1, FreePcbType DEF do_recv
  <2>2. CASE callback_arg[a] # NULL
    <3>1. callback_arg[a] \in Slots /\ serial[a] \in Nat
      BY <2>2 DEF LwipTypeOK
    <3>2. Append(p[callback_arg[a]], serial[a]) \in Seq(Nat)
      BY <3>1 DEF SlotsTypeOK
    <3>3. p' \in [Slots -> Seq(Nat)]
      BY ZenonT(60), <1>5, <2>2, <3>2 DEF SlotsTypeOK, do_recv
    <3>4. SlotsTypeOK'
      BY <1>5, <2>2, <3>3 DEF SlotsTypeOK, do_recv
    <3> QED
      BY <1>5, <2>2, <3>4 DEF do_recv
  <2> QED
    BY <2>1, <2>2
<1>6. CASE do_recv_fin(a)
  <2>1. CASE callback_arg[a] = NULL
    <3>1. LwipTypeOK'
      BY <1>6, <2>1 DEF LwipTypeOK, do_recv_fin, States
    <3> QED
      BY <1>6, <2>1, <3>1 DEF do_recv_fin
  <2>2. CASE callback_arg[a] # NULL
    <3>1. PICK s \in Slots : do_close(a, s)
      BY <1>6, <2>2 DEF LwipTypeOK, do_recv_fin
    <3>2. LwipTypeOK' /\ SlotsTypeOK'
      BY Zenon, <3>1, tcp_closeType, ReleaseSlotType DEF do_close, LwipTypeOK, States
    <3> QED
      BY <1>6, <3>2 DEF do_recv_fin
  <2> QED
    BY <2>1, <2>2
<1>7. CASE do_err(a)
  BY <1>7, FreePcbType, ReleaseSlotType DEF do_err, LwipTypeOK
<1>8. CASE do_poll(a)
  BY <1>8, tcp_closeType DEF do_poll, LwipTypeOK
<1>9. CASE tcp_slowtmr(a)
  BY <1>9, FreePcbType DEF tcp_slowtmr
<1> QED
  BY <1>1, <1>2, <1>3, <1>4, <1>5, <1>6, <1>7, <1>8, <1>9

LEMMA NoClientType == NoClient \in Clients
BY DEF NoClient, Clients

LEMMA IdleType ==
    /\ Idle \in Threads
    /\ SketchTypeOK /\ th' = Idle /\ UNCHANGED <<handle, handed>> => SketchTypeOK'
<1>1. Idle \in Threads
  BY NoClientType DEF Threads, Idle, Slots
<1> QED
  BY <1>1 DEF SketchTypeOK

LEMMA NextSlotType ==
    ASSUME SketchTypeOK, th.n < MAX_CLIENTS, th' = NextSlot(th),
           UNCHANGED <<handle, handed>>
    PROVE  SketchTypeOK'
<1>1. th.n + 1 \in 0 .. MAX_CLIENTS /\ 0 \in Slots
  BY DEF SketchTypeOK, Threads, Slots
<1>2. NextSlot(th) \in Threads
  BY Zenon, <1>1, NoClientType DEF SketchTypeOK, NextSlot, Threads
<1> QED
  BY <1>2 DEF SketchTypeOK

\* Moving on within a call changes pc only.
LEMMA PcType ==
    ASSUME SketchTypeOK, UNCHANGED <<handle, handed>>,
           NEW pc \in {"claim", "data", "capture", "cpcb"}, th' = [th EXCEPT !.pc = pc]
    PROVE  SketchTypeOK'
BY DEF SketchTypeOK, Threads

LEMMA WriteReturnsType ==
    ASSUME SketchTypeOK, th.n < MAX_CLIENTS, WriteReturns, UNCHANGED <<handle, handed>>
    PROVE  SketchTypeOK'
BY IdleType, NextSlotType DEF WriteReturns

LEMMA ClientOfType ==
    ASSUME SlotsTypeOK, NEW s \in Slots
    PROVE  ClientOf(s) \in Clients
BY DEF SlotsTypeOK, ClientOf, Clients

LEMMA TypeSketch ==
    ASSUME TypeOK, ThreadInv, Sketch
    PROVE  TypeOK'
<1> USE TypeUnchanged DEF TypeOK
<1>1. ASSUME NEW h \in Handles, NEW op \in {"accept", "available", "write"}, Call(op, h)
      PROVE  TypeOK'
  <2>1. [Idle EXCEPT !.pc = "probe", !.op = op, !.h = h] \in Threads
    BY Zenon, IdleType DEF Threads
  <2>2. SketchTypeOK'
    BY <1>1, <2>1 DEF SketchTypeOK, Call
  <2> QED
    BY <1>1, <2>2 DEF Call
<1>2. ASSUME NEW h \in Handles, CallWrite(h)
      PROVE  TypeOK'
  <2>1. [Idle EXCEPT !.pc = "stale", !.op = "client", !.w = handle[h]] \in Threads
    BY ZenonT(60), IdleType DEF Threads, SketchTypeOK
  <2>2. SketchTypeOK'
    BY <1>2, <2>1 DEF SketchTypeOK, CallWrite
  <2> QED
    BY <1>2, <2>2 DEF CallWrite
<1>3. ASSUME NEW h \in Handles, read(h)
      PROVE  TypeOK'
  <2>1. handle[h].slot \in Slots
    BY <1>3 DEF read, SketchTypeOK, Clients
  <2>2. Tail(p[handle[h].slot]) \in Seq(Nat)
    BY <1>3, <2>1 DEF read, SlotsTypeOK
  <2>3. p' \in [Slots -> Seq(Nat)]
    BY <1>3, <2>1, <2>2 DEF read, SlotsTypeOK
  <2>4. SlotsTypeOK'
    BY <1>3, <2>3 DEF read, SlotsTypeOK
  <2> QED
    BY <1>3, <2>4 DEF read
<1>4. ASSUME NEW h \in Handles, stop(h)
      PROVE  TypeOK'
  <2>1. handle[h].slot \in Slots
    BY <1>4 DEF stop, SketchTypeOK, Clients
  <2>2. LwipTypeOK'
    <3>1. CASE cpcb[handle[h].slot] = NULL
      BY <1>4, <3>1 DEF stop
    <3>2. CASE cpcb[handle[h].slot] # NULL
      <4>1. /\ cpcb[handle[h].slot] \in Pcbs
            /\ state[cpcb[handle[h].slot]] \in States
        BY <2>1, <3>2 DEF SlotsTypeOK, LwipTypeOK
      <4> QED
        BY <1>4, <3>2, <4>1, tcp_closeType DEF stop
    <3> QED
      BY <3>1, <3>2
  <2> QED
    BY <1>4, <2>1, <2>2, ReleaseSlotType DEF stop
<1>5. ASSUME NEW h \in Handles, NEW other \in Handles, copyFrom(h, other)
      PROVE  TypeOK'
  <2>1. SketchTypeOK'
    BY <1>5 DEF copyFrom, SketchTypeOK
  <2> QED
    BY <1>5, <2>1 DEF copyFrom
<1>6. CASE Probe
  <2>1. PICK s \in Slots :
          /\ lastClient' = IF th.op = "available" THEN s ELSE lastClient
          /\ \/ th' = NextSlot(th)
             \/ cpcb[s] # NULL /\ th' = [th EXCEPT !.pc = "state", !.i = s, !.c = cpcb[s]]
    <3>1. th.n \in Slots
      BY <1>6 DEF Probe, SketchTypeOK, Threads, Slots
    <3> QED
      BY Zenon, <1>6, <3>1, CursorRange DEF Probe, ServerTypeOK
  <2>2. ServerTypeOK'
    BY <1>6, <2>1 DEF Probe, ServerTypeOK
  <2>3. SketchTypeOK'
    <3>1. CASE th' = NextSlot(th)
      BY <1>6, <3>1, NextSlotType DEF Probe
    <3>2. CASE cpcb[s] # NULL /\ th' = [th EXCEPT !.pc = "state", !.i = s, !.c = cpcb[s]]
      <4>1. cpcb[s] \in Pcbs
        BY <3>2 DEF SlotsTypeOK
      <4>2. [th EXCEPT !.pc = "state", !.i = s, !.c = cpcb[s]] \in Threads
        BY Zenon, <4>1 DEF SketchTypeOK, Threads
      <4> QED
        BY <1>6, <3>2, <4>2 DEF Probe, SketchTypeOK
    <3> QED
      BY <2>1, <3>1, <3>2
  <2> QED
    BY <1>6, <2>2, <2>3 DEF Probe
<1>7. CASE LoopEnd
  <2>1. SketchTypeOK'
    BY <1>7, NoClientType, IdleType DEF LoopEnd, SketchTypeOK
  <2> QED
    BY <1>7, <2>1 DEF LoopEnd
<1>8. CASE ReadState
  <2>1. th.n < MAX_CLIENTS
    BY <1>8 DEF ReadState, ThreadInv
  <2>2. \/ th' = NextSlot(th)
        \/ th' = [th EXCEPT !.pc = "claim"]
        \/ th' = [th EXCEPT !.pc = "data"]
        \/ th' = [th EXCEPT !.pc = "capture"]
    BY <1>8 DEF ReadState
  <2>3. SketchTypeOK'
    BY <1>8, <2>1, <2>2, NextSlotType, PcType DEF ReadState
  <2> QED
    BY <1>8, <2>3 DEF ReadState
<1>9. CASE CheckData
  <2>1. SketchTypeOK'
    BY <1>9, NextSlotType, PcType DEF CheckData, ThreadInv
  <2> QED
    BY <1>9, <2>1 DEF CheckData
<1>10. CASE Claim
  <2>1. SlotsTypeOK'
    BY Zenon, <1>10 DEF Claim, SlotsTypeOK
  <2>2. conn[th.i] \in Nat
    BY DEF SketchTypeOK, SlotsTypeOK, Threads
  <2>3. [th EXCEPT !.pc = "capture", !.w.conn = conn[th.i]] \in Threads
    BY Zenon, <2>2 DEF SketchTypeOK, Threads, Clients
  <2>4. SketchTypeOK'
    BY <1>10, <2>3 DEF Claim, SketchTypeOK
  <2> QED
    BY <1>10, <2>1, <2>4 DEF Claim
<1>11. CASE Capture
  <2>1. th.i \in Slots /\ ClientOf(th.i) \in Clients /\ conn[th.i] \in Nat
    BY ClientOfType DEF SketchTypeOK, SlotsTypeOK, Threads
  <2>2. SketchTypeOK'
    <3>1. CASE th.op = "write"
      BY ZenonT(60), <1>11, <2>1, <3>1 DEF Capture, SketchTypeOK, Threads
    <3>2. CASE th.op # "write"
      <4>1. <<conn[th.i], th.w.conn = conn[th.i]>> \in Nat \X BOOLEAN
        BY Zenon, <2>1
      <4>2. handed' \subseteq Nat \X BOOLEAN
        BY <1>11, <3>2, <4>1 DEF Capture, SketchTypeOK
      <4>3. handle' \in [Handles -> Clients]
        BY <1>11, <2>1, <3>2 DEF Capture, SketchTypeOK
      <4> QED
        BY <1>11, <3>2, <4>2, <4>3, IdleType DEF Capture, SketchTypeOK
    <3> QED
      BY <3>1, <3>2
  <2> QED
    BY <1>11, <2>2 DEF Capture
<1>12. CASE CheckStale
  <2>1. SketchTypeOK'
    BY <1>12, WriteReturnsType, PcType DEF CheckStale, ThreadInv
  <2> QED
    BY <1>12, <2>1 DEF CheckStale
<1>13. CASE SnapshotCpcb
  <2>1. cpcb[th.w.slot] # NULL => cpcb[th.w.slot] \in Pcbs
    BY <1>13 DEF SnapshotCpcb, ThreadInv, SlotsTypeOK, SketchTypeOK, Threads, Clients
  <2>2. SketchTypeOK'
    BY ZenonT(60), <1>13, <2>1, WriteReturnsType DEF SnapshotCpcb, ThreadInv, SketchTypeOK, Threads
  <2> QED
    BY <1>13, <2>2 DEF SnapshotCpcb
<1>14. CASE WriteChunk
  <2>1. SketchTypeOK'
    BY <1>14, WriteReturnsType DEF WriteChunk, ThreadInv
  <2> QED
    BY <1>14, <2>1 DEF WriteChunk
<1> QED
  BY <1>1, <1>2, <1>3, <1>4, <1>5, <1>6, <1>7, <1>8, <1>9, <1>10, <1>11, <1>12,
     <1>13, <1>14 DEF Sketch

-----------------------------------------------------------------------------
(* The slots and the callbacks.                                            *)

\* A slot that points at a block: the block is open, knows the slot, and
\* carries its connection.
LEMMA LiveSlot ==
    ASSUME TypeOK, SlotInv, NEW s \in Slots, cpcb[s] # NULL
    PROVE  /\ cpcb[s] \in Pcbs
           /\ callback_arg[cpcb[s]] = s
           /\ state[cpcb[s]] = "ESTABLISHED"
           /\ serial[cpcb[s]] = conn[s]
<1>1. cpcb[s] \in Pcbs /\ callback_arg[cpcb[s]] = s
  BY DEF TypeOK, SlotsTypeOK, SlotInv, SlotNeverDangles
<1> QED
  BY <1>1, SlotNotNull DEF SlotInv, CallbackOwnsSlot

\* Freeing a block whose callbacks are detached disturbs no slot.
LEMMA FreeDetached ==
    ASSUME TypeOK, SlotInv, NEW a \in Pcbs, callback_arg[a] = NULL, FreePcb(a),
           UNCHANGED slots
    PROVE  SlotInv'
BY DEF TypeOK, LwipTypeOK, SlotsTypeOK, SlotInv, CallbackOwnsSlot, SlotNeverDangles,
       LiveInv, FreePcb, slots

\* Freeing a block and releasing the slot its callbacks were given.
LEMMA FreeAttached ==
    ASSUME TypeOK, SlotInv, NEW a \in Pcbs, callback_arg[a] # NULL, FreePcb(a),
           ReleaseSlot(callback_arg[a])
    PROVE  SlotInv'
BY DEF TypeOK, LwipTypeOK, SlotsTypeOK, SlotInv, CallbackOwnsSlot, SlotNeverDangles,
       LiveInv, FreePcb, ReleaseSlot

\* Closing the connection of a slot detaches it and releases the slot.
LEMMA CloseAttached ==
    ASSUME TypeOK, SlotInv, NEW s \in Slots, cpcb[s] # NULL,
           NEW st \in States \ {"FREE", "SYN_RCVD"}, tcp_close(cpcb[s], st), ReleaseSlot(s)
    PROVE  SlotInv'
<1>1. /\ cpcb[s] \in Pcbs
      /\ callback_arg[cpcb[s]] = s
      /\ state[cpcb[s]] # "FREE"
  BY LiveSlot
<1> QED
  BY SMTT(60), <1>1 DEF TypeOK, LwipTypeOK, SlotsTypeOK, SlotInv, CallbackOwnsSlot,
       SlotNeverDangles, LiveInv, tcp_close, ReleaseSlot

\* Closing again a block that is already detached.
LEMMA CloseDetached ==
    ASSUME TypeOK, SlotInv, NEW a \in Pcbs, callback_arg[a] = NULL,
           state[a] \notin {"FREE", "SYN_RCVD"}, tcp_close(a, state[a]), UNCHANGED slots
    PROVE  SlotInv'
BY SMTT(60) DEF TypeOK, LwipTypeOK, SlotsTypeOK, SlotInv, CallbackOwnsSlot, SlotNeverDangles,
       LiveInv, tcp_close, slots

\* SlotInv depends on the blocks and on three fields of the slots only.
LEMMA SlotUnchanged ==
    ASSUME SlotInv, UNCHANGED <<lwip, port, cpcb, conn>>
    PROVE  SlotInv'
BY DEF SlotInv, CallbackOwnsSlot, SlotNeverDangles, LiveInv, lwip

LEMMA SlotInterrupt ==
    ASSUME TypeOK, SlotInv, Interrupt
    PROVE  SlotInv'
<1>1. PICK a \in Pcbs :
        \/ \E q \in Ports : tcp_listen_input(a, q)
        \/ do_accept(a)
        \/ do_accept_full(a)
        \/ do_recv(a)
        \/ do_recv_fin(a)
        \/ do_err(a)
        \/ do_poll(a)
        \/ tcp_slowtmr(a)
  BY DEF Interrupt
<1>a. callback_arg[a] # NULL =>
        callback_arg[a] \in Slots /\ cpcb[callback_arg[a]] = a /\ state[a] = "ESTABLISHED"
  BY DEF TypeOK, LwipTypeOK, SlotInv, CallbackOwnsSlot
<1>2. ASSUME NEW q \in Ports, tcp_listen_input(a, q)
      PROVE  SlotInv'
  <2>1. callback_arg[a] = NULL /\ ~ poll[a]
    BY <1>2, <1>a DEF tcp_listen_input, SlotInv, LiveInv
  <2> QED
    BY SMTT(60), <1>2, <2>1 DEF tcp_listen_input, TypeOK, LwipTypeOK, SlotsTypeOK, SlotInv,
         CallbackOwnsSlot, SlotNeverDangles, LiveInv, slots
<1>3. CASE do_accept(a)
  <2>1. PICK s \in Slots :
          /\ port[s] = 0
          /\ callback_arg' = [callback_arg EXCEPT ![a] = s]
          /\ cpcb' = [cpcb EXCEPT ![s] = a]
          /\ port' = [port EXCEPT ![s] = remote_port[a]]
          /\ conn' = [conn EXCEPT ![s] = accepts + 1]
    BY Zenon, <1>3 DEF do_accept
  <2>2. /\ state[a] = "SYN_RCVD"
        /\ state' = [state EXCEPT ![a] = "ESTABLISHED"]
        /\ serial' = [serial EXCEPT ![a] = accepts + 1]
        /\ UNCHANGED <<remote_port, poll>>
    BY <1>3 DEF do_accept
  <2>3. callback_arg[a] = NULL /\ ~ poll[a] /\ remote_port[a] # 0
    BY <2>2, <1>a DEF SlotInv, LiveInv
  <2>4. cpcb[s] = NULL /\ \A b \in Pcbs : callback_arg[b] # s
    BY <2>1, SlotNotNull DEF SlotInv, SlotNeverDangles, CallbackOwnsSlot
  <2>5. accepts + 1 \in Nat \ {0} /\ s # NULL /\ a # NULL
    BY DEF TypeOK, ServerTypeOK, Slots
  <2>6. CallbackOwnsSlot'
    BY <2>1, <2>2, <2>3, <2>4, <2>5 DEF TypeOK, LwipTypeOK, SlotsTypeOK, SlotInv,
         CallbackOwnsSlot
  <2>7. SlotNeverDangles'
    <3> SUFFICES ASSUME NEW t \in Slots
                 PROVE  /\ cpcb'[t] # NULL => callback_arg'[cpcb'[t]] = t
                        /\ port'[t] # 0 <=> cpcb'[t] # NULL
      BY DEF SlotNeverDangles
    <3>1. CASE t = s
      BY <3>1, <2>1, <2>3, <2>5 DEF TypeOK, LwipTypeOK, SlotsTypeOK
    <3>2. CASE t # s
      <4>1. cpcb'[t] = cpcb[t] /\ port'[t] = port[t]
        BY <3>2, <2>1 DEF TypeOK, SlotsTypeOK
      <4>2. port[t] # 0 <=> cpcb[t] # NULL
        BY DEF SlotInv, SlotNeverDangles
      <4>3. cpcb[t] # NULL => cpcb[t] \in Pcbs /\ callback_arg[cpcb[t]] = t
        BY LiveSlot
      <4>4. cpcb[t] # NULL => cpcb[t] # a
        BY <4>3, <2>3, SlotNotNull
      <4> QED
        BY <4>1, <4>2, <4>3, <4>4, <2>1 DEF TypeOK, LwipTypeOK
    <3> QED
      BY <3>1, <3>2
  <2>8. LiveInv'
    BY <2>1, <2>2, <2>3, <2>5 DEF TypeOK, LwipTypeOK, SlotsTypeOK, SlotInv, LiveInv
  <2> QED
    BY <2>6, <2>7, <2>8 DEF SlotInv
<1>4. CASE do_accept_full(a)
  BY <1>4, <1>a, FreeDetached DEF do_accept_full
<1>5. CASE do_recv(a)
  BY <1>5, FreeDetached, SlotUnchanged DEF do_recv
<1>6. CASE do_recv_fin(a)
  <2>1. CASE callback_arg[a] = NULL
    BY SMTT(60), <1>6, <2>1 DEF do_recv_fin, TypeOK, LwipTypeOK, SlotsTypeOK, SlotInv,
         CallbackOwnsSlot, SlotNeverDangles, LiveInv, slots
  <2>2. CASE callback_arg[a] # NULL
    BY <1>6, <2>2, <1>a, CloseAttached DEF do_recv_fin, do_close, States
  <2> QED
    BY <2>1, <2>2
<1>7. CASE do_err(a)
  BY <1>7, FreeDetached, FreeAttached DEF do_err
<1>8. CASE do_poll(a)
  BY <1>8, CloseDetached DEF do_poll, SlotInv, LiveInv
<1>9. CASE tcp_slowtmr(a)
  BY <1>9, <1>a, FreeDetached DEF tcp_slowtmr
<1> QED
  BY <1>1, <1>2, <1>3, <1>4, <1>5, <1>6, <1>7, <1>8, <1>9

LEMMA SlotSketch ==
    ASSUME TypeOK, SlotInv, Sketch
    PROVE  SlotInv'
<1>1. ASSUME NEW h \in Handles, stop(h)
      PROVE  SlotInv'
  <2>1. handle[h].slot \in Slots
    BY <1>1 DEF stop, TypeOK, SketchTypeOK, Clients
  <2>2. CASE cpcb[handle[h].slot] = NULL
    BY SMTT(60), <1>1, <2>1, <2>2 DEF stop, ReleaseSlot, TypeOK, SlotsTypeOK, SlotInv,
         CallbackOwnsSlot, SlotNeverDangles, LiveInv, lwip
  <2>3. CASE cpcb[handle[h].slot] # NULL
    <3>1. state[cpcb[handle[h].slot]] = "ESTABLISHED"
      BY <2>1, <2>3, LiveSlot
    <3> QED
      BY <1>1, <2>1, <2>3, <3>1, CloseAttached DEF stop, States
  <2> QED
    BY <2>2, <2>3
<1>2. CASE UNCHANGED <<lwip, port, cpcb, conn>>
  BY <1>2, SlotUnchanged
<1>3. Sketch => (\E h \in Handles : stop(h)) \/ UNCHANGED <<lwip, port, cpcb, conn>>
  BY ZenonT(60) DEF Sketch, Call, CallWrite, read, copyFrom, Probe, LoopEnd, ReadState, CheckData,
         Claim, Capture, CheckStale, SnapshotCpcb, WriteChunk, slots
<1> QED
  BY <1>1, <1>2, <1>3

-----------------------------------------------------------------------------
(* Identity: who may change a slot's generation, connection and mark.      *)

\* Only do_accept recycles a slot, and no interrupt touches the sketch.
LEMMA InterruptKeeps ==
    ASSUME Interrupt
    PROVE  /\ UNCHANGED <<handle, th, handed>>
           /\ \/ UNCHANGED <<claimed, generation, conn, serverGeneration, accepts>>
              \/ \E s \in Slots :
                    /\ generation' = [generation EXCEPT ![s] = NextGeneration]
                    /\ claimed' = [claimed EXCEPT ![s] = FALSE]
                    /\ conn' = [conn EXCEPT ![s] = accepts + 1]
                    /\ serverGeneration' = NextGeneration
                    /\ accepts' = accepts + 1
<1> USE DEF lwip, slots, server, sketch
<1>1. PICK a \in Pcbs :
        \/ \E q \in Ports : tcp_listen_input(a, q)
        \/ do_accept(a)
        \/ do_accept_full(a)
        \/ do_recv(a)
        \/ do_recv_fin(a)
        \/ do_err(a)
        \/ do_poll(a)
        \/ tcp_slowtmr(a)
  BY DEF Interrupt
<1>2. CASE do_accept(a)
  BY Zenon, <1>2 DEF do_accept
<1>3. CASE do_recv_fin(a)
  BY <1>3 DEF do_recv_fin, do_close, ReleaseSlot
<1>4. CASE do_err(a)
  BY <1>4 DEF do_err, ReleaseSlot
<1> QED
  BY <1>1, <1>2, <1>3, <1>4 DEF tcp_listen_input, do_accept_full, do_recv, do_poll,
       tcp_slowtmr

LEMMA SketchKeeps ==
    ASSUME Sketch
    PROVE  UNCHANGED <<generation, conn, serverGeneration, accepts>>
BY ZenonT(60) DEF Sketch, Call, CallWrite, read, stop, ReleaseSlot, copyFrom, Probe, LoopEnd,
       ReadState, CheckData, Claim, Capture, CheckStale, SnapshotCpcb, WriteChunk,
       slots, server

\* What the steps of a call do to th.
LEMMA ThreadInterrupt ==
    ASSUME TypeOK, ThreadInv, Interrupt
    PROVE  ThreadInv'
<1>1. UNCHANGED th
  BY InterruptKeeps
<1>2. \A s \in Slots : conn[s] # 0 => conn'[s] # 0
  BY InterruptKeeps DEF TypeOK, SlotsTypeOK, ServerTypeOK
<1>3. th.i \in Slots
  BY DEF TypeOK, SketchTypeOK, Threads
<1> QED
  BY <1>1, <1>2, <1>3 DEF ThreadInv

LEMMA ThreadIdle ==
    ASSUME th' = Idle
    PROVE  ThreadInv'
BY DEF ThreadInv, Idle

LEMMA ThreadNextSlot ==
    ASSUME TypeOK, th' = NextSlot(th)
    PROVE  ThreadInv'
BY DEF ThreadInv, NextSlot, TypeOK, SketchTypeOK, Threads

LEMMA ThreadWriteReturns ==
    ASSUME TypeOK, WriteReturns
    PROVE  ThreadInv'
BY ThreadIdle, ThreadNextSlot DEF WriteReturns

LEMMA ThreadSketch ==
    ASSUME TypeOK, ThreadInv, SlotInv, Sketch
    PROVE  ThreadInv'
<1>a. UNCHANGED conn
  BY SketchKeeps
<1>b. th \in Threads
  BY DEF TypeOK, SketchTypeOK
<1>1. CASE UNCHANGED th
  BY <1>1, <1>a DEF ThreadInv
<1>2. ASSUME NEW h \in Handles, NEW op \in {"accept", "available", "write"}, Call(op, h)
      PROVE  ThreadInv'
  BY <1>2 DEF Call, ThreadInv, Idle
<1>3. ASSUME NEW h \in Handles, CallWrite(h)
      PROVE  ThreadInv'
  BY <1>3 DEF CallWrite, ThreadInv, Idle
<1>4. CASE Probe
  <2>1. \/ th' = NextSlot(th)
        \/ \E s \in Slots : /\ cpcb[s] # NULL
                            /\ th' = [th EXCEPT !.pc = "state", !.i = s, !.c = cpcb[s]]
    <3>1. th.n \in Slots
      BY <1>4, <1>b DEF Probe, Threads, Slots
    <3> QED
      BY Zenon, <1>4, <3>1, CursorRange DEF Probe, TypeOK, ServerTypeOK
  <2>2. ASSUME NEW s \in Slots, cpcb[s] # NULL,
               th' = [th EXCEPT !.pc = "state", !.i = s, !.c = cpcb[s]]
        PROVE  ThreadInv'
    <3>1. conn[s] # 0
      BY <2>2 DEF SlotInv, LiveInv
    <3>2. th'.pc = "state" /\ th'.i = s /\ th'.n = th.n
      BY <2>2, <1>b DEF Threads
    <3> QED
      BY <1>4, <1>a, <3>1, <3>2 DEF Probe, ThreadInv
  <2> QED
    BY ZenonT(60), <2>1, <2>2, ThreadNextSlot
<1>5. CASE ReadState
  <2>1. \/ th' = NextSlot(th)
        \/ \E pc \in {"claim", "data", "capture"} : th' = [th EXCEPT !.pc = pc]
    BY <1>5 DEF ReadState
  <2>2. ASSUME NEW pc \in {"claim", "data", "capture"}, th' = [th EXCEPT !.pc = pc]
        PROVE  ThreadInv'
    <3>1. th'.pc = pc /\ th'.i = th.i /\ th'.n = th.n
      BY <2>2, <1>b DEF Threads
    <3> QED
      BY <1>5, <1>a, <3>1 DEF ReadState, ThreadInv
  <2> QED
    BY <2>1, <2>2, ThreadNextSlot
<1>6. CASE CheckData
  BY <1>6, <1>a, <1>b, ThreadNextSlot DEF CheckData, ThreadInv, Threads
<1>7. CASE Claim
  BY <1>7, <1>a, <1>b DEF Claim, ThreadInv, Threads
<1>8. CASE Capture
  <2>1. th.i # NULL
    BY <1>b, SlotNotNull DEF Threads
  <2>2. CASE th.op = "write"
    <3>1. th'.pc = "stale" /\ th'.w = ClientOf(th.i) /\ th'.n = th.n
      BY Zenon, <1>8, <1>b, <2>2 DEF Capture, Threads
    <3> QED
      BY <1>8, <2>1, <3>1 DEF Capture, ThreadInv, ClientOf
  <2> QED
    BY <1>8, <2>2, ThreadIdle DEF Capture
<1>9. CASE CheckStale
  BY <1>9, <1>b, ThreadWriteReturns DEF CheckStale, ThreadInv, Threads
<1>10. CASE SnapshotCpcb
  BY ZenonT(60), <1>10, <1>b, ThreadWriteReturns DEF SnapshotCpcb, ThreadInv, Threads
<1>11. CASE WriteChunk
  BY <1>11, ThreadWriteReturns DEF WriteChunk
<1>12. CASE LoopEnd
  BY <1>12, ThreadIdle DEF LoopEnd
<1> QED
  BY <1>1, <1>2, <1>3, <1>4, <1>5, <1>6, <1>7, <1>8, <1>9, <1>10, <1>11, <1>12
     DEF Sketch, read, stop, copyFrom, sketch

-----------------------------------------------------------------------------
(* The queues.                                                             *)

LEMMA QueueUnchanged ==
    ASSUME QueueIsolated, UNCHANGED <<p, cpcb, conn>>
    PROVE  QueueIsolated'
BY DEF QueueIsolated

LEMMA QueueReleased ==
    ASSUME TypeOK, QueueIsolated, NEW s \in Slots, ReleaseSlot(s)
    PROVE  QueueIsolated'
BY SMTT(60) DEF TypeOK, SlotsTypeOK, QueueIsolated, ReleaseSlot

LEMMA QueueInterrupt ==
    ASSUME TypeOK, SlotInv, QueueIsolated, Interrupt
    PROVE  QueueIsolated'
<1>1. PICK a \in Pcbs :
        \/ \E q \in Ports : tcp_listen_input(a, q)
        \/ do_accept(a)
        \/ do_accept_full(a)
        \/ do_recv(a)
        \/ do_recv_fin(a)
        \/ do_err(a)
        \/ do_poll(a)
        \/ tcp_slowtmr(a)
  BY DEF Interrupt
<1>a. callback_arg[a] # NULL => callback_arg[a] \in Slots
  BY DEF TypeOK, LwipTypeOK
<1>2. CASE do_accept(a)
  <2>1. PICK s \in Slots :
          /\ cpcb' = [cpcb EXCEPT ![s] = a]
          /\ p' = [p EXCEPT ![s] = <<>>]
          /\ conn' = [conn EXCEPT ![s] = accepts + 1]
    BY ZenonT(60), <1>2 DEF do_accept
  <2> QED
    BY <2>1 DEF TypeOK, SlotsTypeOK, QueueIsolated
<1>3. CASE do_recv(a)
  <2>1. CASE callback_arg[a] = NULL
    BY <1>3, <2>1, QueueUnchanged DEF do_recv, slots
  <2>2. CASE callback_arg[a] # NULL
    <3>1. /\ callback_arg[a] \in Slots
          /\ cpcb[callback_arg[a]] = a
          /\ serial[a] = conn[callback_arg[a]]
      BY <1>a, <2>2 DEF SlotInv, CallbackOwnsSlot
    <3>2. PICK s \in Slots : s = callback_arg[a]
      BY <3>1
    <3>3. /\ p' = [p EXCEPT ![s] = Append(@, conn[s])]
          /\ UNCHANGED <<cpcb, conn>>
      BY <1>3, <2>2, <3>1, <3>2 DEF do_recv
    <3>4. ASSUME NEW t \in Slots, t # s
          PROVE  p'[t] = p[t]
      BY <3>3, <3>4 DEF TypeOK, SlotsTypeOK
    <3>5. p[s] \in Seq(Nat) /\ p'[s] = Append(p[s], conn[s])
      BY <3>3 DEF TypeOK, SlotsTypeOK
    <3>6. \A k \in 1 .. Len(p'[s]) : p'[s][k] = conn[s]
      BY <3>5 DEF QueueIsolated
    <3>7. cpcb[s] # NULL
      BY <3>1, <3>2
    <3> QED
      BY SMTT(60), <3>3, <3>4, <3>6, <3>7 DEF QueueIsolated
  <2> QED
    BY <2>1, <2>2
<1>4. CASE do_recv_fin(a)
  BY <1>4, <1>a, QueueReleased, QueueUnchanged DEF do_recv_fin, do_close, slots
<1>5. CASE do_err(a)
  BY <1>5, <1>a, QueueReleased, QueueUnchanged DEF do_err, slots
<1> QED
  BY <1>1, <1>2, <1>3, <1>4, <1>5, QueueUnchanged DEF tcp_listen_input, do_accept_full,
     do_poll, tcp_slowtmr, slots

LEMMA QueueSketch ==
    ASSUME TypeOK, QueueIsolated, Sketch
    PROVE  QueueIsolated'
<1>1. ASSUME NEW h \in Handles, read(h)
      PROVE  QueueIsolated'
  <2>1. PICK s \in Slots : /\ p[s] # <<>>
                           /\ p' = [p EXCEPT ![s] = Tail(@)]
                           /\ UNCHANGED <<cpcb, conn>>
    BY ZenonT(60), <1>1 DEF read, TypeOK, SketchTypeOK, Clients
  <2>2. ASSUME NEW t \in Slots, t # s
        PROVE  p'[t] = p[t]
    BY <2>1, <2>2 DEF TypeOK, SlotsTypeOK
  <2>3. p[s] \in Seq(Nat) /\ p'[s] = Tail(p[s])
    BY <2>1 DEF TypeOK, SlotsTypeOK
  <2>4. \A k \in 1 .. Len(p[s]) : p[s][k] = conn[s]
    BY DEF QueueIsolated
  <2>5. \A k \in 1 .. Len(p'[s]) : p'[s][k] = conn[s]
    BY <2>1, <2>3, <2>4
  <2>6. cpcb[s] # NULL
    BY <2>1 DEF QueueIsolated
  <2> QED
    BY SMTT(60), <2>1, <2>2, <2>5, <2>6 DEF QueueIsolated
<1>2. ASSUME NEW h \in Handles, stop(h)
      PROVE  QueueIsolated'
  BY <1>2, QueueReleased DEF stop, TypeOK, SketchTypeOK, Clients
<1> QED
  BY ZenonT(60), <1>1, <1>2, QueueUnchanged DEF Sketch, Call, CallWrite, copyFrom, Probe, LoopEnd,
     ReadState, CheckData, Claim, Capture, CheckStale, SnapshotCpcb, WriteChunk, slots

-----------------------------------------------------------------------------
(* The generation.                                                         *)

\* The stamp do_accept gives.
LEMMA StampedNew ==
    ASSUME TypeOK, serverGeneration' = NextGeneration, accepts' = accepts + 1
    PROVE  Stamped(serverGeneration, accepts)'
BY DEF TypeOK, ServerTypeOK, Stamped, NextGeneration

\* Two fresh stamps with the same generation are of the same connection.
LEMMA StampedUnique ==
    ASSUME TypeOK, NEW g \in 0 .. GenMax, NEW c \in Nat, NEW d \in Nat,
           Stamped(g, c), Stamped(g, d), c <= d, accepts - c < GenMax
    PROVE  c = d
BY DEF TypeOK, ServerTypeOK, Stamped

LEMMA GenerationInterrupt ==
    ASSUME TypeOK, GenerationInv, Interrupt
    PROVE  GenerationInv'
<1>1. UNCHANGED handle
  BY InterruptKeeps
<1>2. CASE UNCHANGED <<generation, conn, serverGeneration, accepts>>
  BY <1>1, <1>2 DEF GenerationInv, Stamped
<1>3. ASSUME NEW s \in Slots,
             generation' = [generation EXCEPT ![s] = NextGeneration],
             conn' = [conn EXCEPT ![s] = accepts + 1],
             serverGeneration' = NextGeneration,
             accepts' = accepts + 1
      PROVE  GenerationInv'
  <2>1. ASSUME NEW t \in Slots, conn'[t] # 0
        PROVE  Stamped(generation[t], conn[t])'
    <3>1. CASE t = s
      <4>1. generation'[t] = serverGeneration' /\ conn'[t] = accepts'
        BY <1>3, <3>1 DEF TypeOK, SlotsTypeOK
      <4> QED
        BY <4>1, <1>3, StampedNew DEF Stamped
    <3>2. CASE t # s
      <4>1. /\ generation'[t] = generation[t] /\ conn'[t] = conn[t]
            /\ generation[t] \in 0 .. GenMax /\ conn[t] \in Nat
        BY <1>3, <3>2 DEF TypeOK, SlotsTypeOK
      <4>2. Stamped(generation[t], conn[t])
        BY <2>1, <4>1 DEF GenerationInv
      <4> DEFINE g == generation[t]
                 c == conn[t]
      <4>3. Stamped(g, c) /\ g \in 0 .. GenMax /\ c \in Nat
        BY <4>1, <4>2
      <4>4. generation'[t] = g /\ conn'[t] = c
        BY <4>1
      <4> HIDE DEF g, c
      <4> QED
        BY <1>3, <4>3, <4>4 DEF TypeOK, ServerTypeOK, Stamped, NextGeneration
    <3> QED
      BY <3>1, <3>2
  <2>2. ASSUME NEW h \in Handles, handle'[h].slot # NULL
        PROVE  /\ Stamped(handle[h].gen, handle[h].conn)'
               /\ handle'[h].conn <= conn'[handle'[h].slot]
    <3> DEFINE e == handle[h]
    <3>1. e \in Clients /\ handle'[h] = e /\ e.slot # NULL
      BY <1>1, <2>2 DEF TypeOK, SketchTypeOK
    <3>2. e.gen \in 0 .. GenMax /\ e.conn \in Nat /\ e.slot \in Slots
      BY <3>1 DEF Clients
    <3>3. Stamped(e.gen, e.conn) /\ e.conn <= conn[e.slot]
      BY <3>1 DEF GenerationInv
    <3> HIDE DEF e
    <3>4. Stamped(e.gen, e.conn)'
      BY SMTT(60), <1>3, <3>1, <3>2, <3>3 DEF TypeOK, ServerTypeOK, Stamped, NextGeneration, e
    <3>5. e.conn <= conn'[e.slot]
      BY SMTT(60), <1>3, <3>2, <3>3 DEF Stamped, TypeOK, SlotsTypeOK, ServerTypeOK
    <3> QED
      BY <3>1, <3>4, <3>5 DEF e
  <2> QED
    BY Zenon, <2>1, <2>2 DEF GenerationInv
<1> QED
  BY <1>2, <1>3, InterruptKeeps

\* The sketch makes a handle only from a slot that was given a connection.
LEMMA GenerationSketch ==
    ASSUME TypeOK, ThreadInv, GenerationInv, Sketch
    PROVE  GenerationInv'
<1>1. UNCHANGED <<generation, conn, serverGeneration, accepts>>
  BY SketchKeeps
<1>2. \A s \in Slots : conn'[s] # 0 => Stamped(generation[s], conn[s])'
  BY <1>1 DEF GenerationInv, Stamped
<1>3. ASSUME NEW h \in Handles
      PROVE  \/ handle'[h] = NoClient
             \/ \E k \in Handles : handle'[h] = handle[k]
             \/ \E s \in Slots : conn[s] # 0 /\ handle'[h] = ClientOf(s)
  <2>1. CASE UNCHANGED handle
    BY <2>1
  <2>2. ASSUME NEW k \in Handles, NEW other \in Handles, copyFrom(k, other)
        PROVE  \E j \in Handles : handle'[h] = handle[j]
    BY <2>2 DEF copyFrom, TypeOK, SketchTypeOK
  <2>3. CASE LoopEnd
    BY <2>3 DEF LoopEnd, TypeOK, SketchTypeOK
  <2>4. CASE Capture
    <3>1. th.i \in Slots /\ conn[th.i] # 0
      BY <2>4 DEF Capture, ThreadInv, TypeOK, SketchTypeOK, Threads
    <3>2. UNCHANGED handle \/ handle' = [handle EXCEPT ![th.h] = ClientOf(th.i)]
      BY <2>4 DEF Capture
    <3>3. \A x : handle' = [handle EXCEPT ![th.h] = x] => handle'[h] \in {x, handle[h]}
      BY DEF TypeOK, SketchTypeOK
    <3> QED
      BY <3>1, <3>2, <3>3
  <2> QED
    BY Zenon, <2>1, <2>2, <2>3, <2>4 DEF Sketch, Call, CallWrite, read, stop, Probe, ReadState,
       CheckData, Claim, CheckStale, SnapshotCpcb, WriteChunk, sketch
<1>4. ASSUME NEW h \in Handles, handle'[h].slot # NULL
      PROVE  /\ Stamped(handle[h].gen, handle[h].conn)'
             /\ handle'[h].conn <= conn'[handle'[h].slot]
  <2>1. CASE handle'[h] = NoClient
    BY <1>4, <2>1 DEF NoClient
  <2>2. ASSUME NEW k \in Handles, handle'[h] = handle[k]
        PROVE  /\ Stamped(handle[h].gen, handle[h].conn)'
               /\ handle'[h].conn <= conn'[handle'[h].slot]
    BY <1>1, <1>4, <2>2 DEF GenerationInv, Stamped
  <2>3. ASSUME NEW s \in Slots, conn[s] # 0, handle'[h] = ClientOf(s)
        PROVE  /\ Stamped(handle[h].gen, handle[h].conn)'
               /\ handle'[h].conn <= conn'[handle'[h].slot]
    <3>1. handle'[h].gen = generation[s] /\ handle'[h].conn = conn[s] /\ handle'[h].slot = s
      BY <2>3 DEF ClientOf
    <3>2. Stamped(generation[s], conn[s]) /\ conn[s] \in Nat
      BY <2>3 DEF GenerationInv, TypeOK, SlotsTypeOK
    <3> QED
      BY SMTT(60), <1>1, <3>1, <3>2 DEF Stamped
  <2> QED
    BY <1>3, <2>1, <2>2, <2>3
<1> QED
  BY <1>2, <1>4 DEF GenerationInv

-----------------------------------------------------------------------------
(* The claimed mark.                                                       *)

LEMMA ClaimInterrupt ==
    ASSUME TypeOK, GenerationInv, ClaimInv, Interrupt
    PROVE  ClaimInv'
<1>1. UNCHANGED <<th, handed>>
  BY InterruptKeeps
<1>2. CASE UNCHANGED <<claimed, conn, accepts>>
  BY <1>1, <1>2 DEF ClaimInv
<1>3. ASSUME NEW s \in Slots,
             claimed' = [claimed EXCEPT ![s] = FALSE],
             conn' = [conn EXCEPT ![s] = accepts + 1],
             accepts' = accepts + 1
      PROVE  ClaimInv'
  <2>1. /\ claimed'[s] = FALSE /\ conn'[s] = accepts + 1
        /\ \A t \in Slots \ {s} : claimed'[t] = claimed[t] /\ conn'[t] = conn[t]
    BY <1>3 DEF TypeOK, SlotsTypeOK
  <2>2. ASSUME NEW t \in Slots
        PROVE  conn[t] \in Nat /\ conn[t] < accepts + 1
    <3>1. conn[t] \in Nat /\ accepts \in Nat
      BY DEF TypeOK, SlotsTypeOK, ServerTypeOK
    <3>2. conn[t] # 0 => conn[t] <= accepts
      BY DEF GenerationInv, Stamped
    <3> QED
      BY <3>1, <3>2
  <2>3. accepts \in Nat /\ th.i \in Slots /\ th.w.conn \in Nat
    BY DEF TypeOK, ServerTypeOK, SketchTypeOK, Threads, Clients
  <2>4. \A t, u \in Slots : conn'[t] = conn'[u] /\ conn'[t] # 0 => t = u
    <3>1. \A t, u \in Slots : conn[t] = conn[u] /\ conn[t] # 0 => t = u
      BY DEF ClaimInv
    <3> QED
      BY SMTT(60), <2>1, <2>2, <2>3, <3>1
  <2>5. ASSUME NEW e \in handed, e[2]
        PROVE  e[1] <= accepts' /\ \A t \in Slots : conn'[t] = e[1] => claimed'[t]
    <3>1. e[1] \in Nat /\ e[1] <= accepts /\ \A t \in Slots : conn[t] = e[1] => claimed[t]
      BY <2>5 DEF ClaimInv, TypeOK, SketchTypeOK
    <3> QED
      BY SMTT(60), <1>3, <2>1, <2>3, <3>1
  <2>6. th.op = "accept" /\ th.pc \in {"state", "claim"} => ~ claimed'[th.i]
    BY <2>1, <2>3 DEF ClaimInv
  <2>7. ASSUME th.op = "accept", th.pc = "capture"
        PROVE  /\ th.w.conn <= accepts'
               /\ th.w.conn = conn'[th.i] => claimed'[th.i]
               /\ <<conn'[th.i], TRUE>> \notin handed
    <3>1. th.w.conn <= accepts
      BY <2>7 DEF ClaimInv
    <3>2. CASE th.i = s
      <4>1. conn'[th.i] = accepts + 1
        BY <2>1, <3>2
      <4>2. <<accepts + 1, TRUE>> \notin handed
        <5> SUFFICES ASSUME NEW e \in handed, e = <<accepts + 1, TRUE>>
                     PROVE  FALSE
          BY Zenon
        <5>1. e[1] = accepts + 1 /\ e[2] = TRUE
          OBVIOUS
        <5>2. e[1] <= accepts
          BY Zenon, <5>1 DEF ClaimInv
        <5> QED
          BY <5>1, <5>2, <2>3
      <4>3. th.w.conn <= accepts + 1 /\ th.w.conn # accepts + 1
        BY <2>3, <3>1
      <4> QED
        BY Zenon, <1>3, <4>1, <4>2, <4>3
    <3>3. CASE th.i # s
      <4>1. conn'[th.i] = conn[th.i] /\ claimed'[th.i] = claimed[th.i]
        BY <2>1, <2>3, <3>3
      <4> QED
        <5>1. th.w.conn <= accepts + 1
          BY <2>3, <3>1
        <5>2. /\ th.w.conn = conn[th.i] => claimed[th.i]
              /\ <<conn[th.i], TRUE>> \notin handed
          BY <2>7 DEF ClaimInv
        <5> QED
          BY ZenonT(60), <1>3, <4>1, <5>1, <5>2
    <3> QED
      BY <3>2, <3>3
  <2> QED
    BY <1>1, <2>4, <2>5, <2>6, <2>7 DEF ClaimInv
<1> QED
  BY <1>2, <1>3, InterruptKeeps

\* The third to fifth conjuncts of ClaimInv, about a call of accept() under way.
AcceptInv ==
    /\ th.op = "accept" /\ th.pc \in {"state", "claim"} => ~ claimed[th.i]
    /\ th.op = "accept" => th.pc # "data"
    /\ th.op = "accept" /\ th.pc = "capture" =>
        /\ th.w.conn <= accepts
        /\ th.w.conn = conn[th.i] => claimed[th.i]
        /\ <<conn[th.i], TRUE>> \notin handed

LEMMA AcceptElsewhere ==
    ASSUME th'.op # "accept" \/ th'.pc \in {"idle", "probe"}
    PROVE  AcceptInv'
BY DEF AcceptInv

LEMMA WriteReturnsElsewhere ==
    ASSUME TypeOK, WriteReturns
    PROVE  AcceptInv'
BY AcceptElsewhere DEF WriteReturns, NextSlot, Idle, TypeOK, SketchTypeOK, Threads

LEMMA ClaimSketch ==
    ASSUME TypeOK, ThreadInv, GenerationInv, ClaimInv, Sketch
    PROVE  ClaimInv'
<1>a. UNCHANGED <<conn, accepts>>
  BY SketchKeeps
<1>b. th \in Threads /\ th.i \in Slots /\ AcceptInv
  BY ZenonT(60) DEF TypeOK, SketchTypeOK, Threads, ClaimInv, AcceptInv
<1>c. ASSUME UNCHANGED <<claimed, handed>>, AcceptInv'
      PROVE  ClaimInv'
  BY <1>a, <1>c DEF ClaimInv, AcceptInv
<1>1. CASE UNCHANGED <<th, claimed, handed>>
  BY Zenon, <1>a, <1>1 DEF ClaimInv
<1>2. ASSUME NEW h \in Handles, NEW op \in {"accept", "available", "write"}, Call(op, h)
      PROVE  ClaimInv'
  <2>1. th'.pc = "probe"
    BY <1>2 DEF Call, Idle
  <2> QED
    BY <1>2, <1>c, <2>1, AcceptElsewhere DEF Call, slots
<1>3. ASSUME NEW h \in Handles, CallWrite(h)
      PROVE  ClaimInv'
  <2>1. th'.op = "client"
    BY <1>3 DEF CallWrite, Idle
  <2> QED
    BY <1>3, <1>c, <2>1, AcceptElsewhere DEF CallWrite, slots
<1>4. CASE Probe
  <2>1. \/ th'.pc = "probe"
        \/ th.op # "accept" /\ th'.op = th.op
        \/ th'.pc = "state" /\ ~ claimed[th'.i]
    BY <1>4, <1>b DEF Probe, NextSlot, Threads
  <2>2. UNCHANGED <<claimed, handed>>
    BY <1>4 DEF Probe, slots
  <2>3. AcceptInv'
    BY <2>1, <2>2, AcceptElsewhere DEF AcceptInv
  <2> QED
    BY <2>2, <2>3, <1>c
<1>5. CASE LoopEnd
  <2>1. th'.pc = "idle"
    BY <1>5 DEF LoopEnd, Idle
  <2> QED
    BY <1>5, <1>c, <2>1, AcceptElsewhere DEF LoopEnd, slots
<1>6. CASE ReadState
  <2>1. UNCHANGED <<claimed, handed>>
    BY <1>6 DEF ReadState, slots
  <2>2. \/ th'.pc = "probe"
        \/ th.op # "accept" /\ th'.op = th.op
        \/ th.op = "accept" /\ th' = [th EXCEPT !.pc = "claim"]
    BY <1>6, <1>b DEF ReadState, NextSlot, Threads
  <2>3. ASSUME th.op = "accept", th' = [th EXCEPT !.pc = "claim"]
        PROVE  AcceptInv'
    <3>1. th'.pc = "claim" /\ th'.i = th.i
      BY <2>3, <1>b DEF Threads
    <3> QED
      BY <1>6, <1>b, <2>1, <2>3, <3>1 DEF AcceptInv, ReadState
  <2> QED
    BY <1>c, <2>1, <2>2, <2>3, AcceptElsewhere
<1>7. CASE CheckData
  <2>1. th'.pc = "probe" \/ (th.op # "accept" /\ th'.op = th.op)
    BY <1>7, <1>b DEF CheckData, NextSlot, Threads, AcceptInv
  <2> QED
    BY <1>7, <1>c, <2>1, AcceptElsewhere DEF CheckData, slots
<1>8. CASE Claim
  <2>1. /\ claimed'[th.i] = TRUE
        /\ \A t \in Slots : claimed[t] => claimed'[t]
        /\ UNCHANGED handed
    BY <1>8, <1>b DEF Claim, TypeOK, SlotsTypeOK
  <2>2. th'.pc = "capture" /\ th'.i = th.i /\ th'.op = th.op /\ th'.w.conn = conn[th.i]
    BY <1>8, <1>b DEF Claim, Threads, Clients
  <2>3. ASSUME th.op = "accept"
        PROVE  <<conn[th.i], TRUE>> \notin handed
    BY Zenon, <1>8, <1>b, <2>3 DEF Claim, AcceptInv, ClaimInv
  <2>4. conn[th.i] <= accepts
    BY <1>8, <1>b DEF Claim, ThreadInv, GenerationInv, Stamped
  <2>5. AcceptInv'
    BY <1>a, <2>1, <2>2, <2>3, <2>4 DEF AcceptInv
  <2> QED
    BY Zenon, <1>a, <2>1, <2>5 DEF ClaimInv, AcceptInv
<1>9. CASE Capture
  <2>1. UNCHANGED claimed
    BY <1>9 DEF Capture, slots
  <2>2. CASE th.op = "write"
    <3>1. th'.op = "write"
      BY Zenon, <1>9, <1>b, <2>2 DEF Capture, Threads
    <3> QED
      BY <1>9, <1>c, <2>1, <2>2, <3>1, AcceptElsewhere DEF Capture
  <2>3. CASE th.op # "write"
    <3>1. AcceptInv'
      BY <1>9, <2>3, AcceptElsewhere DEF Capture, Idle
    <3>2. CASE th.op # "accept"
      BY <1>9, <1>c, <2>1, <2>3, <3>1, <3>2 DEF Capture
    <3>3. CASE th.op = "accept"
      <4>1. handed' = handed \cup {<<conn[th.i], th.w.conn = conn[th.i]>>}
        BY <1>9, <2>3, <3>3 DEF Capture
      <4>2. conn[th.i] <= accepts
        BY <1>9, <1>b DEF Capture, ThreadInv, GenerationInv, Stamped
      <4>3. th.w.conn = conn[th.i] => \A t \in Slots : conn[t] = conn[th.i] => claimed[t]
        BY <1>9, <1>b, <3>3 DEF Capture, ThreadInv, ClaimInv
      <4>4. \A e \in handed' : e[2] =>
              e[1] <= accepts' /\ \A t \in Slots : conn'[t] = e[1] => claimed'[t]
        <5> SUFFICES ASSUME NEW e \in handed', e[2]
                     PROVE  e[1] <= accepts /\ \A t \in Slots : conn[t] = e[1] => claimed[t]
          BY <1>a, <2>1
        <5>1. CASE e \in handed
          BY <5>1 DEF ClaimInv
        <5>2. CASE e = <<conn[th.i], th.w.conn = conn[th.i]>>
          <6>1. e[1] = conn[th.i] /\ e[2] = (th.w.conn = conn[th.i])
            BY Zenon, <5>2
          <6> QED
            BY Zenon, <6>1, <4>2, <4>3
        <5> QED
          BY <4>1, <5>1, <5>2
      <4>5. \A s, t \in Slots : conn'[s] = conn'[t] /\ conn'[s] # 0 => s = t
        BY <1>a DEF ClaimInv
      <4> QED
        BY <3>1, <4>4, <4>5 DEF ClaimInv, AcceptInv
    <3> QED
      BY <3>2, <3>3
  <2> QED
    BY <2>2, <2>3
<1>10. ASSUME UNCHANGED <<slots, handed>>, WriteReturns
       PROVE  ClaimInv'
  BY <1>10, <1>c, WriteReturnsElsewhere DEF slots
<1>11. ASSUME th.pc \in {"stale", "cpcb"}, UNCHANGED <<slots, handed>>,
              \/ th' = [th EXCEPT !.pc = "cpcb"]
              \/ th' = [th EXCEPT !.pc = "tcp_write", !.c = cpcb[th.w.slot]]
       PROVE  ClaimInv'
  <2>1. th'.pc \in {"cpcb", "tcp_write"}
    BY ZenonT(60), <1>11, <1>b DEF Threads
  <2>2. AcceptInv'
    BY <2>1 DEF AcceptInv
  <2> QED
    BY <1>11, <1>c, <2>2 DEF slots
<1>12. CASE CheckStale \/ SnapshotCpcb \/ WriteChunk
  BY <1>10, <1>11, <1>12 DEF CheckStale, SnapshotCpcb, WriteChunk
<1> QED
  BY ZenonT(60), <1>1, <1>2, <1>3, <1>4, <1>5, <1>6, <1>7, <1>8, <1>9, <1>12
     DEF Sketch, read, stop, ReleaseSlot, copyFrom, sketch, slots

-----------------------------------------------------------------------------
(* The theorems.                                                           *)

LEMMA IInvInit == Init => IInv
<1> SUFFICES ASSUME Init
             PROVE  IInv
  OBVIOUS
<1>1. TypeOK
  BY TypeInit
<1>2. ThreadInv
  BY SMTT(60) DEF Init, ThreadInv, Idle
<1>3. SlotInv
  BY DEF Init, SlotInv, CallbackOwnsSlot, SlotNeverDangles, LiveInv
<1>4. QueueIsolated
  BY DEF Init, QueueIsolated
<1>5. GenerationInv
  BY DEF Init, GenerationInv, NoClient
<1>6. ClaimInv
  BY DEF Init, ClaimInv, Idle
<1> QED
  BY <1>1, <1>2, <1>3, <1>4, <1>5, <1>6 DEF IInv

LEMMA IInvStep == IInv /\ [Next]_vars => IInv'
<1> SUFFICES ASSUME IInv, [Next]_vars
             PROVE  IInv'
  OBVIOUS
<1>1. CASE Interrupt
  BY <1>1, TypeInterrupt, ThreadInterrupt, SlotInterrupt, QueueInterrupt,
     GenerationInterrupt, ClaimInterrupt DEF IInv
<1>2. CASE Sketch
  BY <1>2, TypeSketch, ThreadSketch, SlotSketch, QueueSketch, GenerationSketch,
     ClaimSketch DEF IInv
<1>3. CASE UNCHANGED vars
  <2>1. UNCHANGED <<lwip, slots, server, sketch>>
    BY <1>3 DEF vars
  <2>2. TypeOK'
    BY <2>1, TypeUnchanged DEF IInv, TypeOK
  <2>3. ThreadInv' /\ ClaimInv'
    BY ZenonT(60), <2>1, TupleUnchanged DEF IInv, ThreadInv, ClaimInv
  <2>4. SlotInv' /\ QueueIsolated'
    BY <2>1, TupleUnchanged, SlotUnchanged, QueueUnchanged DEF IInv
  <2>5. GenerationInv'
    BY Zenon, <2>1, TupleUnchanged DEF IInv, GenerationInv, Stamped
  <2> QED
    BY <2>2, <2>3, <2>4, <2>5 DEF IInv
<1> QED
  BY <1>1, <1>2, <1>3 DEF Next

\* The inductive invariant holds in every state of every behaviour.
THEOREM Invariance == Spec => []IInv
BY IInvInit, IInvStep, PTL DEF Spec

\* Type correctness: in particular the generation stays a 16-bit value and
\* the cursor of available() stays inside clients[].
THEOREM TypeCorrect == Spec => []TypeOK
<1>1. IInv => TypeOK
  BY DEF IInv
<1> QED
  BY <1>1, Invariance, PTL

\* Whatever the order of callbacks and sketch calls, a callback installed by
\* do_accept acts on the slot of its own connection, a slot never points at a
\* freed block, and a slot queues its own connection's data only.
THEOREM SlotsSafe == Spec => [](CallbackOwnsSlot /\ SlotNeverDangles /\ QueueIsolated)
<1>1. IInv => CallbackOwnsSlot /\ SlotNeverDangles /\ QueueIsolated
  BY DEF IInv, SlotInv
<1> QED
  BY <1>1, Invariance, PTL

\* The argument do_accept gave a connection is the slot that holds it for as
\* long as the callbacks are installed.
THEOREM CallbacksOwn == Spec => []CallbackOwnsSlot
BY SlotsSafe, PTL

\* A slot's chain holds data of the slot's own connection only.
THEOREM QueuesIsolated == Spec => []QueueIsolated
BY SlotsSafe, PTL

LEMMA IdentityFromIInv == IInv => HandleIdentity
<1> SUFFICES ASSUME IInv, NEW h \in Handles, handle[h].slot # NULL,
                    ~ stale(handle[h]), Fresh(handle[h])
             PROVE  conn[handle[h].slot] = handle[h].conn
  BY DEF HandleIdentity
<1>1. PICK g \in 0 .. GenMax, c \in Nat, s \in Slots :
        handle[h].gen = g /\ handle[h].conn = c /\ handle[h].slot = s
  BY DEF IInv, TypeOK, SketchTypeOK, Clients
<1>2. Stamped(g, c) /\ c <= conn[s]
  BY <1>1 DEF IInv, GenerationInv
<1>3. conn[s] \in Nat /\ generation[s] = g
  BY <1>1 DEF stale, IInv, TypeOK, SlotsTypeOK
<1>4. conn[s] # 0
  BY <1>2, <1>3 DEF Stamped
<1>5. Stamped(g, conn[s])
  BY <1>3, <1>4 DEF IInv, GenerationInv
<1>6. accepts - c < GenMax
  BY <1>1 DEF Fresh
<1> QED
  BY <1>1, <1>2, <1>3, <1>5, <1>6, StampedUnique DEF IInv

\* stale() is enough: a handle it does not report stale refers to the very
\* connection it was made for, until the 16-bit generation has gone round.
THEOREM HandlesIdentified == Spec => []HandleIdentity
BY Invariance, IdentityFromIInv, PTL

\* stop() closes the connection of its handle and no other.
THEOREM StopOwn == Spec => StopClosesOwn
<1>1. ASSUME IInv, NEW h \in Handles, stop(h), Fresh(handle[h]), NEW a \in Pcbs,
             state'[a] # state[a]
      PROVE  serial[a] = handle[h].conn
  <2>1. PICK s \in Slots : handle[h].slot = s
    BY <1>1 DEF stop, IInv, TypeOK, SketchTypeOK, Clients
  <2>2. conn[s] = handle[h].conn
    BY <1>1, <2>1, IdentityFromIInv DEF HandleIdentity, stop
  <2>3. cpcb[s] # NULL
    BY ZenonT(60), <1>1, <2>1 DEF stop, lwip
  <2>4. tcp_close(cpcb[s], state[cpcb[s]])
    BY <1>1, <2>1, <2>3 DEF stop
  <2>5. a = cpcb[s]
    BY <1>1, <2>4 DEF tcp_close, IInv, TypeOK, LwipTypeOK
  <2> QED
    BY <1>1, <2>2, <2>3, <2>5, LiveSlot DEF IInv
<1>2. IInv /\ [Next]_vars =>
        [\A h \in Handles : stop(h) /\ Fresh(handle[h]) =>
            \A a \in Pcbs : state'[a] # state[a] => serial[a] = handle[h].conn]_vars
  BY <1>1
<1> QED
  BY <1>2, Invariance, PTL DEF Spec, StopClosesOwn

\* accept() does not return again a connection it has returned and marked.
THEOREM ClaimOnce == Spec => ClaimedOnce
<1>1. IInv /\ [Next]_vars =>
        [th.pc = "capture" /\ th.op = "accept" /\ th'.pc = "idle" =>
            <<conn[th.i], TRUE>> \notin handed]_vars
  BY DEF IInv, ClaimInv
<1> QED
  BY <1>1, Invariance, PTL DEF Spec, ClaimedOnce
=============================================================================
