# A TLA+ model of the TM4C1294 Arduino core

The repository is an Arduino platform for the LOGO! 8.2 board: a core (serial
ports, timing, pin interrupts), an Ethernet library on top of lwIP, a few device
libraries, and `logo-upload`, the host tool that sends a sketch to the device.
This directory models the parts of it in which the order of events matters, checks
them with TLC and proves the safety properties of these models with TLAPS.

On the device there is one thread, `main()`, which calls `loop()` for ever, and
interrupts that preempt it anywhere. There is no scheduler and there are no locks;
code that must not be interrupted masks one interrupt or all of them. Nearly all
that is hard here comes from that: the sketch reads something, the interrupt
changes it, and the sketch goes on with what it read.

## Inventory

| Part | State | Operations | What is hard about it |
|---|---|---|---|
| EthernetServer and the handles onto it | `clients[]`, generation, cursor, lwIP's blocks | `do_accept`, `do_recv`, `do_close`, `do_err`, `do_poll`; `accept`, `available`, `write`, `stop`, copy | slots and blocks are recycled under a running call; callbacks may come late; the generation wraps |
| Receive path of a connection | pbuf chain, read position, window | `do_recv`, `readLocked`, `flush`, `stop`, `do_close`, `do_err` | reference counts, steps from pbuf to pbuf, window accounting |
| HardwareSerial | two rings, interrupt masks | `begin`, `end`, `read`, `available`, `write`, `flush`, `UARTIntHandler` | two consumers of one ring, non-atomic reads, waiting with interrupts masked |
| logo-upload | attempt, block, exit code | handshake, lock, `exchange` | lost, repeated and late datagrams, power cycles, the lock racing the request |
| EthernetClient, outbound | `_connected`, block, poll callback | `connect`, `do_connected`, `do_recv`, `do_err`, `do_poll`, `stop` | freed block read after the wait, timeouts, callbacks that outlive their connection |
| DNS lookup | `dns_table` | `dns_gethostbyname`, `dns_tmr`, `dns_recv` | entries filled under a running timer, late answers, callbacks into a stack frame |
| EthernetUDP | packet ring, current chain | `do_recv`, `parsePacket`, `read`, `beginPacket`, `endPacket` | unprotected counter, pool shared with the sender |
| SysTick | `milliseconds`, callbacks | `micros`, `delay`, `suspend` | two reads that must agree, wrap-around |
| Wire | two rings, bus state | `requestFrom`, `endTransmission`, interrupt | ring at its limit, error returns |
| Servo, pin interrupts, Tone | tables walked by interrupts | attach, detach, handlers | boundary of the table |
| Stream, Print, WString, IPAddress | none shared | sequential | timeouts only |

`PROJECT.json` lists every part, those not modelled with the reason, and the main
hazards at the line where they bite. Smaller ones, kept here for the modules to come:
`delay()` computes `millis*2` in 32 bits (`wiring.c:127`), a ninth SysTick callback is
dropped without notice (`wiring.c:224`), `Wire.read()` tests for a full ring where an
empty one matters (`Wire.cpp:578`), `requestFrom` may fill the ring until it looks
empty (`Wire.cpp:396`) and an error return of `endTransmission` leaves the unsent bytes for
the next transmission (`Wire.cpp:496`), a second `EthernetUDP::write()` between `beginPacket()`
and `endPacket()` copies to the start of the packet again (`EthernetUdp.cpp:147`), the servo interrupt reads `servos[-1]` on its first turn
(`Servo.cpp:225`), `detachInterrupt` falls through to the ports after its own
(`WInterrupts.c:317`), the constructor of `EthernetUDP` leaves `rear` unset, which is 0
for a static object only (`EthernetUdp.cpp:5`), `setBufferSize(1, 1)` makes every ring full
and empty at once (`HardwareSerial.cpp:297`), and a connection is refused when all
slots are taken (`EthernetServer.cpp:141`, covered by `CallbackOwnsSlot`).

## Modules

| Module | What it is |
|---|---|
| `EthernetServer` | slot table, blocks and handles |
| `MCEthernetServer` | the symmetry set for TLC |
| `EthernetServerProofs` | its inductive invariant and theorems |
| `EthernetStream` | receive path of one slot |
| `ByteStream` | what the receive path promises |
| `EthernetStreamProofs` | its inductive invariant and theorems |
| `EthernetConnect` | an outbound client and the blocks of lwIP |
| `EthernetConnectProofs` | its inductive invariant and theorems |
| `Dns`, `MCDns` | the lookup `connect()` does for a host name; its names and times to live for TLC |
| `DnsProofs` | its inductive invariant and theorems |
| `EthernetUdp`, `MCEthernetUdp` | a UDP socket; its datagrams for TLC |
| `DatagramQueue` | what its receive ring promises |
| `EthernetUdpProofs` | its inductive invariant and theorems |
| `HardwareSerial` | one serial port |
| `RxQueue` | what its receive ring promises |
| `HardwareSerialProofs` | its inductive invariant and theorems |
| `Remainders` | lemmas about `%`, for the indices of the rings |
| `LogoUpload` | the upload tool, the network and the device |
| `LogoUploadProofs` | its inductive invariant and theorems |

### EthernetServer

The Ethernet interrupt runs lwIP and its callbacks to completion, so each callback
is one action (`do_accept`, `do_recv`, ...). `read()` and `stop()` mask the interrupt
and are one action each. `accept()`, `available()` and both `write()`s do not: they
are cut at every access to shared memory that matters, and `th` records where the
sketch is. One loop (`Probe`, `ReadState`) serves the three calls that walk the slots;
then `Claim` and `Capture` finish `accept()`, `CheckData` and `Capture` finish
`available()`, and `CheckStale`, `SnapshotCpcb` and `WriteChunk` are `write()` of a
client, which `write()` of the server calls for every slot.

lwIP is reduced to the life of a `tcp_pcb`: taken from the pool by a SYN, accepted,
closed, freed, reused. A freed block may be read (`ReadState` then returns anything).
`conn`, `serial`, `handed` and the field `conn` of a handle are history variables:
they number the connections so that properties can tell them apart; no guard but
a bound reads them. `tcp_close` may fail for want of memory, and is then retried by the poll
callback. It does not take its reset branch here because the window is open again by
then; `CloseIsClean` of `EthernetStream` checks that.

### EthernetStream and ByteStream

All operations run with the interrupt masked or inside it, so each is one action. A
pbuf is its bytes, its reference count and `tot_len`, which counts its bytes and those of
the pbufs behind it and which `pbuf_cat` keeps up to date; a byte is its position in
what the peer sent; `Garbage` is what lies past a payload. The data of a segment is in
one pbuf or a chain of two (`Fresh`); longer chains come about with `pbuf_cat`. When the
peer sends bytes again together with new ones, `tcp_receive` takes the old ones off by
setting the `len` of the first pbufs to 0 and leaves these in place, so that any number
of empty pbufs may come before the data (`Segment`). `ByteStream` says what a sketch is promised: bytes arrive at the end,
are taken from the front, and disappear with the connection. The refinement mapping
takes `pending` to the unread part of the chain. `flush()` moves the position to the end
and leaves the chain, so that a later `readLocked()` may start behind the first pbuf; the
history `flushed` records that it was called on this connection. `readLocked()` does not
look at `len` either before it takes a byte, so that with an empty pbuf at the head it
returns what lies behind that. In these two cases a step of `readLocked()` need not be one
of `ByteStream` but may be a `PastPayload`: one byte is taken off the stream, and the sketch
gets another. Everything else, the next connection in the slot included, is as promised.

### EthernetConnect

lwIP's callbacks, which run in the interrupt, are one action each; `stop()` masks it.
`connect()` is cut where the interrupt can come between: the call up to the wait, the
test of `_connected` (`waitLoop`), the timeout after the delay (`waitTimeout`), the look
at the block's state (`checkState`) and the installation of `do_poll` (`setPoll`). A block
of the pool may belong to the connection of the last `connect()`, to an earlier one, or
to the server, which takes and releases blocks at will. `do_err` is a toggle in the code
and in the model. `tcp_alloc` takes a free block, one in TIME_WAIT or, in the end, an
active one. Three histories say where the code leaves its path: `errSeen` (lwIP freed
the block and `cs->cpcb` still points at it), `orphan` (a connection was given up with its
callbacks installed) and `wild` (a block of someone else was touched; nothing is said
of what follows). `HandleValid` and `OldConnectionSilent` hold up to the first two.
The sketch calls `stop()` before it connects again, unless `connect()` returned false.

### Dns

The timer and the answers are interrupts. `dns_enqueue` fills an entry that is NEW from
its first assignment on and does not mask anything. Its pieces are `connect_host`, up to
the end of the scan for an entry; `takeEntry`, which looks at a completed entry again;
`fillFound` and `fillName`; and `dns_check_entry` on the new entry, `checkNew`, `setNumdns`,
`setTmr` and `sendNew`. The timer, which has a period of a second, runs at most once in
all of this (`ticked`). When it has moved the entry on before `checkNew`, that call is one
step. A name is a sequence of characters, among them the separator, and `buf` is what
the name array holds, old bytes behind the zero included. `dns_compare_name` is what the
loop over the encoded name makes of it: the separator's place in `buf` is not looked at,
nor whether the name in `buf` ends where that of the answer does. That an answer has the
question of its query, not compressed, and labels of at most 63 characters is assumed.
`net` keeps every query, and each may be answered at any time, any number of times,
or never. `found` is "live" while it points into the frame of the `connect()` that waits
and "dead" afterwards. The word at address 0 that `do_dns` reads on a timeout is `flash`.
The history `torn` records that the timer came while an entry was being filled.

### EthernetUdp and DatagramQueue

`do_recv` is one action. `parsePacket()` is cut at `count--`, which is a load and a store
(`parseLoad`, `parseStore`). A datagram is numbered, and is the `tot_len` of its pbufs;
`live` counts the pbufs of each that are not back in the pool, from which `beginPacket()`
takes its own too. `DatagramQueue` says what a sketch is promised: datagrams are
queued in order or dropped when the queue is full, and one at a time is current. When
`do_recv` comes between the load and the store its increment is lost (`lost`): the
datagram stays in the ring but is not counted, `rear` runs ahead, and once the ring has
been lapped `parsePacket()` takes a chain that was freed (`pc = "wild"`, where the model
stops). `RearAhead` says by exactly how much the ring is off.

### HardwareSerial and RxQueue

`UARTIntHandler` is one action, with the choice of which interrupt bits are set. The
calls of the sketch are cut between accesses to the indices: `read()` is
`readCheck`, `readLoad`, `readNext`; `write()` is `writeCall` to `writeIntEnable` with
`primeCheck` to `primeEnable` for `primeTransmit`; `begin()` has one action for each
index that `flushAll` resets. `end()` masks all interrupts, so its `flushAll` is one
action. `begin()` may be called on a running port. Its `flushAll` comes before the
interrupt is disabled; the history `raced` records that an interrupt moved a character
between the assignments, after which the properties promise nothing, and `begin()`,
`flush()` and `end()` may wait for ever (`Hung`). `RxQueue` is a bounded queue fed by a FIFO; the ring implements it.

### LogoUpload

A datagram once sent stays in `net` and may be received any number of times, or
never, so loss, delay, repetition and reordering need no actions of their own. A
Modbus request runs over TCP and is one step whose answer may be lost. The device may
lose power, and someone may press its lock at any time. The loader and the application
are not in this repository: they are modelled from the requests the tool sends and the
answers and status codes it knows (`proto.go`). In particular that a repeated block is
acknowledged again, that a WRQ starts a new session, and that FIN verifies the image,
is assumed.

## Runs

| Run | Shows |
|---|---|
| `server` | callbacks, slots, queues and handles are never mixed up |
| `server_live` | every client with data is served, closed blocks come back |
| `stream` | byte stream but for reads past a payload, pbuf accounting, window, clean close |
| `serial` | both rings, `available()`, every call returns |
| `upload` | blocks acknowledged were written, exit codes 0 and 6, termination |
| `connect` | handle on its own block, earlier connections silent, `connect()` returns, dead peers noticed |
| `dns` | address for the host as far as names are compared, no callback without a caller, room in the table, lookups and cached entries end |
| `udp` | datagram queue, ring indices, pbuf accounting, every datagram handed out |
| `accept_twice` | `accept()` can return a connection twice |
| `connect_double_free` | a refused `connect()` closes a block that is free already |
| `poll_after_stop` | `do_poll` runs after `stop()`, with a NULL argument |
| `dns_timeout` | a lookup that times out is not reported as `IPADDR_NONE` |

The first eight pass. Each of the others checks one statement a comment of the
repository makes and finds a behaviour of the code that contradicts it; `findings`
in `PROJECT.json` quotes the statement and tells what happens. They come from the model
and have not been reproduced on a device.

Deviations the models contain and the passing runs live with, without a run of their own:

- `write()` keeps its snapshot of `cpcb` over an interrupt that frees and reuses the block
  (`EthernetClient.cpp:258`), against "write nothing" in `EthernetClient.h:60-61`.
- `write()` enters lwIP with the interrupt enabled (`EthernetClient.cpp:266`), against
  `lwiplib.c:843-846`.
- `readLocked()` credits the position, not the count (`EthernetClient.cpp:333`): the window
  may be opened too early, never too little, which `BuffersReturned` checks.
- A FIN drops unread data (`EthernetServer.cpp:57`); `ByteStream` allows it in `Close`.
- `read()` after `flush()` and new data returns what lies behind a pbuf.
- `begin()` on a running port may send old characters or hang, as above.
- A failed `tcp_connect` leaves a block in `cs->cpcb` (`EthernetClient.cpp:217`) that the
  next `connect()` overwrites.
- `write()` of a client counts bytes as written that `tcp_write` refused with any error but
  ERR_MEM (`EthernetClient.cpp:267`).
- `connect()` to an empty or overlong name, and a server's answer of 0.0.0.0, leave the
  wait for the address without an end; `LookupEnds` is about lookups that were queued.
- The same wait has no end either when the table has no unused entry and the timer flushes
  the one `dns_enqueue` has chosen before it looks at it again (`dns.c:888`): ERR_MEM is
  ignored.
- `dns_compare_name` is said to return "0: names equal; 1: names differ" (`dns.c:490`), "to
  make sure an answer from the DNS server matches the current dns_table entry". It also
  returns 0 for a name that begins the one asked for, and for one that has a separator
  where the other has something else: a late answer for `a` may become the address of
  `a.b` or `a-b`. `AnswerForHost` says how far the names agree at least (`Related`).
- The timer may find an entry half filled (`torn`), and ask for the name or call the
  callback of the lookup before.
- `read()` with an empty pbuf at the head of the chain returns what lies behind its payload,
  in place of the next byte. `tcp_in.c:1185` says of the trimmed segment that "the
  ->p->payload pointer will point to data in another pbuf"; the code sets `len` to 0 and
  leaves `payload` as it is (`tcp_in.c:1204`).
- `available()` of a serial port returns a negative number when `rxWriteIndex` wraps between
  the comparison and the subtraction (`HardwareSerial.cpp:355`); `AvailableSound` is about the
  other results.
- An answer with a time to live of 0 stays in the cache for 2^32 seconds (`dns.c:697`).

Every property of a passing run has a mutant: an operator next to the original,
marked `Mutant of`, with a plausible slip in it, under which the property fails.

### Bounds

- `server`: 2 slots, 3 blocks, 1 port, 1 handle, 3 connections, 1 pbuf per slot, a
  generation that wraps after 2. Two slots are enough for one connection to be
  mistaken for another and for the round-robin to turn; the third block finds the
  table full; one port makes all peers look alike; the wrap happens within the run.
  With a single handle copying it is a stutter; the proofs have any set of handles.
- `server_live`: 2 slots, 2 blocks, 2 connections, without symmetry. The generation
  does not wrap there. The bound on connections is a cut: after it no more arrive.
- `stream`: window 4, segments up to 3 bytes with up to 2 empty pbufs before them, 6 bytes,
  2 connections: the window closes, chains reach several pbufs with empty ones in any
  place, and the slot is used again with a stale position.
- `connect`: 2 blocks, a probe limit of 2 instead of 5. One block for the client and
  one that the server or an earlier connection has, so that a freed block is reused
  and the pool runs out. The violations need no more, with a limit of 1.
- `dns`: a table of 1, 2 servers, 2 retries, times to live of 0 and 2 against a maximum
  of 1 and a word that wraps at 3; names `a`, `a.b` and `a-b`, an address and the empty name.
  One entry makes every lookup reuse the one before, with its name and callback; the
  entries do not depend on one another otherwise.
- `udp`: a ring of 2, 5 arrivals of 0 to 2 bytes in one or two pbufs, a pool of 6 of
  which a packet to send takes 2. Five arrivals are the fewest with which a lost
  increment leads to a freed chain.
- `serial`: rings of 3 and 2, FIFOs of 2 and 1, 5 characters in, 2 out: both rings
  wrap, the receive ring overflows, and so does the FIFO.
- `upload`: 2 blocks, 2 attempts, 2 polls, 1 power cycle, 2 presses: an old
  acknowledgement can meet the second block, every retry can be used up, and the lock
  can go off and on again. The image may also be empty in the model; the run has two
  blocks.

Deadlock is not checked in `stream`, where the peer may stop once its bytes are sent,
and in `upload`, where the tool exits.

### Fairness

- `server_live`: a call under way continues and `loop()` keeps calling `available()`
  (`main()` never stops calling `loop()`). lwIP's timers run from SysTick, so the slow
  timer frees closed blocks and a close that is retried for ever eventually finds
  memory (strong fairness, as it may fail any number of times). That `write()`
  returns is an assumption: it holds if the peer acknowledges or lwIP gives up, and
  not for a peer that answers with a closed window for ever (listed as a hazard).
- `stream`: the sketch reads what is available.
- `connect`: a call of `connect()` continues, time passes (SysTick), and lwIP's timer polls
  every block. Nothing is assumed of the peer.
- `dns`: a call continues and the DNS timer runs. Nothing is assumed of the servers.
- `udp`: a call of `parsePacket()` that can be made is made in the end, as a sketch that
  uses the socket does in its `loop()`.
- `serial`: a call continues, and the UART sends what is in its FIFO.
- `upload`: the tool runs on. Nothing is assumed of the network or the device.

## Proofs

`EthernetServerProofs` proves, for any number of slots, blocks, ports, handles and
connections and any width of the generation:

| Theorem | Property |
|---|---|
| `TypeCorrect` | `TypeOK` |
| `SlotsSafe` | `CallbackOwnsSlot`, `SlotNeverDangles`, `QueueIsolated` |
| `CallbacksOwn`, `QueuesIsolated` | `CallbackOwnsSlot`, `QueueIsolated`, for themselves |
| `HandlesIdentified` | `HandleIdentity` |
| `StopOwn` | `StopClosesOwn` |
| `ClaimOnce` | `ClaimedOnce` |

All of them follow from `Invariance`, `Spec => []IInv`. The assumptions are those
`EthernetServer` states about its constants: at least one slot, a generation of at
least one value besides 0, ports different from 0, and a `NULL` that is neither a
block nor a number. None of the properties is inductive by itself:

- `CallbackOwnsSlot` and `SlotNeverDangles` need each other (a callback argument and a
  slot's `cpcb` are inverse to one another) and `LiveInv`: a block in use has a port
  different from 0, or `do_accept` would leave its slot marked free, and a block whose
  close is retried has no callback any more.
- `HandleIdentity` needs to know how far the counter is ahead of a stamp. `Stamped(g, c)`
  says it for generation `g` given to connection `c`: until `GenMax` more connections
  came, the counter is exactly as many steps ahead of `g`, modulo the wrap. Two
  connections that recent with the same stamp are the same (`StampedUnique`).
- `StopClosesOwn` follows from `HandleIdentity` and `CallbackOwnsSlot`.
- `ClaimedOnce` needs `ClaimInv`: a connection is in at most one slot, one that was
  returned marked is still marked while it is in its slot, and `accept()` under way has
  an unmarked slot until it marks it. The history `handed` records with each connection
  whether it was the one marked, because the unmarked ones do come back
  (`accept_twice`).
- `ThreadInv` keeps the loop counter and the chosen slot in range in the middle of a
  call.

A step of the invariant is proved per conjunct, separately for the interrupt and the
sketch (`SlotInterrupt`, `SlotSketch`, `GenerationInterrupt`, ...), one step per action.

`EthernetConnectProofs` proves, for any number of blocks and any limit of probes:

| Theorem | Property |
|---|---|
| `TypeCorrect` | `TypeOK` |
| `HandleSafe` | `HandleValid` |
| `OldSilent` | `OldConnectionSilent` |

They follow from `Inductive`, `Spec => []IInv`. Assumed is that the limit is a number
and that `NULL` is neither a block nor one of the names the model uses. `IInv` adds to
the two properties:

- `HandleInv`: up to the end lwIP reports, the block at the handle is not only the
  client's but in a state before any close. So no timer of lwIP can free it: those free
  blocks in `LAST_ACK` and `TIME_WAIT`. While `connect()` is under way there is a handle
  and no poll callback on its block, so nothing takes the handle away from `connect()`.
- `SilentInv`: a connection without its callbacks was shut, so data for it makes lwIP
  abort it and is not queued; one with its callbacks is at the handle, unless it was
  given up in another way than by `stop()`; and between `stop()` and the next `connect()`
  nothing reports. That last part is what `connect()` relies on when it makes the
  connection it finds an old one.

Each `tcp_close` that can fail is covered: `stop()` leaves such a block shut and to
`close_retry_poll` (`StopStep`, `HandleClosed`).

`EthernetStreamProofs` proves, for any window, segments of any length with any number of
empty pbufs before their data, and chains of any number of pbufs:

| Theorem | Property |
|---|---|
| `StreamTypeOK` | `TypeOK` |
| `StreamBuffersReturned` | `BuffersReturned` |
| `StreamCloseIsClean` | `CloseIsClean` |
| `StreamRefinesByteStream` | `RefinesByteStream` |

Assumed is only that the window and the length of a segment are positive. `IInv` has:

- `ChainInv`: lwIP's own invariant of chains (`pbuf.h`: `tot_len` is `len` plus the next
  `tot_len`), one reference on each pbuf, and which bytes each pbuf has: those that its
  `tot_len` reaches back to from the last byte sent. So `do_recv`'s `pbuf_cat` and
  `readLocked()`'s step to the next pbuf (`FreesFirst`: `pbuf_ref` and `pbuf_free` take off
  one pbuf and leave the rest as it was) each keep it by a local argument.
- `ReadInv`: the position is in the first pbuf, unless that is empty, or, after `flush()`, in
  the chain.
- `WindowInv`: what the window lacks is in the chain, at most. This is why crediting the
  position instead of the count does no harm: `tcp_recved` clamps, and once the chain is
  gone, or credited by `do_close` and `stop()`, the window is whole (`RestOpens`), so
  `tcp_close` does not reset.

For the refinement `UnreadIs` shows that what is unread is a run of consecutive bytes
that ends with the last byte sent; then arrivals extend it, `readLocked()` shortens it by
one (`ReadShrinks`) and returns its head when the first pbuf has it (`NextByteIs`), and the
other steps empty it.

`HardwareSerialProofs` proves, for rings of two or more and FIFOs of one or more:

| Theorem | Property |
|---|---|
| `SerialTypeOK` | `TypeOK` |
| `SerialTransmitsInOrder` | `TransmitsInOrder` |
| `SerialAvailableSound` | `AvailableSound` |
| `SerialReceivesInOrder` | `ReceivesInOrder` |

- `TxInv` says what is in the transmit ring: the last characters written, those before
  having been sent, with the one that `primeNext` has not taken off yet counted twice.
  The interrupt is off while `primeTransmit` runs in the sketch, and the ring is empty
  outside `write()`.
- `RxInv` says what the sketch may rely on between two of its steps, the interrupt only
  adding to the ring: what was there when `read()` or `available()` looked is there still,
  and the indices `begin()` has reset stay so unless `raced`.
- The arithmetic of the indices (`Used`, `NextRx`) is in lemmas about remainders.

`EthernetUdpProofs` proves, for a ring of any size, any pool and datagrams of any pbufs:

| Theorem | Property |
|---|---|
| `UdpTypeOK` | `TypeOK` |
| `UdpRearAhead` | `RearAhead` |
| `UdpPbufsAccounted` | `PbufsAccounted` |
| `UdpRefinesDatagramQueue` | `RefinesDatagramQueue` |

Assumed is that `NULL` is no pbuf and that a datagram has at least one. `RegInv` bounds the
count in the register by the one in memory, so that a store never makes it negative;
`RingInv` says, until an increment is lost, that the ring holds whole chains in order of
arrival, behind the one being read, and that nobody else holds a pbuf.

`DnsProofs` proves, for any names over any characters and any number of servers, retries,
times to live and entries:

| Theorem | Property |
|---|---|
| `DnsTypeOK` | `TypeOK` |
| `DnsAnswerForHost` | `AnswerForHost` |
| `DnsCallbackHasCaller` | `CallbackHasCaller` |
| `DnsTableHasRoom` | `TableHasRoom` |

Assumed is that there is an entry, a server and a retry, that the longest time to live is
below the wrap of its word, and that no name has the character 0 in it. `SlotInv` says that
only the entry the waiting `connect()` took is new or asked, and that only it can call back
to `connect()`; `FilledInv` that until the timer finds an entry half filled its name is the
host's and a completed entry has an address for its name; `EntryInv` that `buf` begins with
the name and a zero. From that `ComparedRelated` gets what a successful `dns_compare_name`
shows of two names: a response that is longer than the name in `buf` meets the zero there,
which is none of its characters, so it has a separator in that place. The counters are
bytes and no more is known of them, since the timer may count on with old ones
(`AskKeeps`). The bound of one entry in the run `dns` is no limit to these results.

`LogoUploadProofs` proves, for an image of any length and any number of attempts, polls,
power cycles and presses:

| Theorem | Property |
|---|---|
| `UploadTypeOK` | `TypeOK` |
| `UploadPassedMeansWritten` | `PassedMeansWritten` |
| `UploadOkMeansTransferred` | `OkMeansTransferred` |
| `UploadLockedMeansUntouched` | `LockedMeansUntouched` |

The key is that no datagram is ever taken back, so the invariant speaks of all of `net`:
an acknowledgement in it is of a block that was written (`ReplyInv`), and on the way to
exit code 6 there is no request in it that the device could obey (`QuietInv`). `LoaderInv`
says that a loader in a session has written the blocks before the one it expects, and
`ToolInv` which block the tool has come to. They rest on the loader as the model has it.

Every inductive invariant above was also checked with TLC, on the constants of the run of
its module. Only model-checked: all liveness
(`AvailableReachesAll`, `ClosedPcbFreed`, `WindowNeverStuck`, `CallsReturn`, `Terminates`,
`ConnectReturns`, `DeadPeerDropped`, `LookupEnds`, `CacheExpires`, `DatagramHandedOut`),
which rests on fairness and `ENABLED`, about which TLAPS does not reason here. The other
properties of the passing runs are all theorems.

## Not modelled

- lwIP beyond the life of a block, `tcp_close`, `tcp_recved` and pbuf references: it is
  third-party code. So what `write()` returns, and how long it waits, is not modelled.
- What `EthernetUDP::write()` puts into a packet: `pbuf_take` copies to its start each time,
  so a second `write()` overwrites the first (`EthernetUdp.cpp:147`). `beginPacket()` to a host
  waits as `connect()` does in `Dns`.
- `EthernetConnect` and `Dns` are two modules because the composition is out of TLC's reach
  at any size at which both do something; they share nothing but the sketch, which is
  in one of them at a time.
- `Wire`: its ring is tested with the wrong macro, its count is wrong once the index
  wraps, and an error return leaves the bytes in the ring and `transmitting` set, so there
  is no promise about what a transfer carries that the code keeps.
- `HardwareSerial::setBufferSize`, `setModule` and `setPins` on a running port.
- The parts marked `not_modelled` in `PROJECT.json`. Register-level I/O, formatting and
  release scripts have no state that a model would tell more about than a test.

## Plan

Next, in this order:

1. SysTick: `micros()`, `delay()` and `suspend()` with a counter of small width, and
   `Stream`'s timeouts on top.
2. `Servo`, pin interrupts and `Tone`.
3. `Wire`: master and slave rings against the bus.
4. The send queue of lwIP under `write()`, with what it returns and how long it waits.
