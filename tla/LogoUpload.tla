----------------------------- MODULE LogoUpload -----------------------------
(***************************************************************************)
(* logo-upload (tools/logo-upload): it brings the device into its Ethernet *)
(* loader, over UDP or over Modbus, and sends the image in a stop-and-wait *)
(* exchange, WRQ, DATA 0 .. DATA n-1, FIN.                                 *)
(*                                                                         *)
(* UDP may lose, delay, repeat and reorder: a datagram once sent stays in  *)
(* net and may be received any number of times, or never.  Modbus runs on  *)
(* TCP, so a request is one step, whose answer may be lost.                *)
(*                                                                         *)
(* The loader and the application are not part of the repository.  They    *)
(* are modelled from what the tool sends and the answers it expects.       *)
(***************************************************************************)
EXTENDS Naturals

CONSTANTS
    NBlocks,     \* blocks of the image, (total + blk - 1) / blk
    retries,     \* --retries, 20 unless given
    IdentTries,  \* polls of waitForBootloader, 40
    LockPolls,   \* polls of the lock in lockWait, 10
    MaxCycles,   \* bound: power cycles of the device
    MaxPresses   \* bound: times someone turns the lock on or off

ASSUME BlocksAssumption == NBlocks \in Nat
ASSUME TriesAssumption == {retries, IdentTries, LockPolls} \subseteq Nat \ {0}
ASSUME LimitsAssumption == MaxCycles \in Nat /\ MaxPresses \in Nat

VARIABLES
    net,         \* datagrams sent, in both directions
    pc,          \* where the tool is
    attempt,     \* exchange: attempts made;  polling: polls made
    waiting,     \* exchange: a reply is awaited
    seq,         \* the block being sent
    asked,       \* the reboot was requested over UDP, not Modbus
    code,        \* exit code
    role,        \* device: "app" or "loader"
    lock,        \* device: the programming lock
    next,        \* loader: the block it expects, NoSession before WRQ
    flash,       \* loader: the blocks of this image in flash, from the first
    running,     \* device: it verified this image and started it
    programmed,  \* history: blocks the loader has written at some time
    accepted,    \* history: the application accepted a reboot request
    cycles, presses

tool == <<pc, attempt, waiting, seq, asked, code>>
device == <<role, lock, next, flash, running, programmed>>
vars == <<net, tool, device, accepted, cycles, presses>>

NoSession == NBlocks + 1

exitOK == 0
exitWRQ == 2
exitBlock == 3
exitFIN == 4
exitNoLoader == 5
exitLocked == 6
Running == 100  \* the tool has not exited

\* Datagrams.  n is the block number or the role, st the status.
Msg(tag, n, st) == [tag |-> tag, n |-> n, st |-> st]
Request(tag, n) == Msg(tag, n, "none")

Replies == {m \in net : m.tag \in {"AWRQ", "ADAT", "AFIN", "AIDENT"}}

\* --no-reboot skips the handshake.
Init ==
    /\ net = {}
    /\ pc \in {"ident", "wrq"}
    /\ attempt = 0
    /\ waiting = FALSE
    /\ seq = 0
    /\ asked = FALSE
    /\ code = Running
    /\ role \in {"app", "loader"}
    /\ lock \in BOOLEAN
    /\ next = NoSession
    /\ flash = 0
    /\ running = FALSE
    /\ programmed = {}
    /\ accepted = FALSE
    /\ cycles = 0
    /\ presses = 0

-----------------------------------------------------------------------------
(* The device.                                                             *)

Send(m) == net' = net \cup {m}

\* Either image answers IDENT with its role.
DeviceIdent ==
    /\ Request("IDENT", 0) \in net
    /\ Send(Msg("AIDENT", role, "ok"))
    /\ UNCHANGED <<tool, device, accepted, cycles, presses>>

\* The application obeys REBOOT.
DeviceReboot ==
    /\ Request("REBOOT", 0) \in net
    /\ role = "app"
    /\ role' = "loader"
    /\ next' = NoSession
    /\ running' = FALSE
    /\ accepted' = TRUE
    /\ UNCHANGED <<net, tool, lock, flash, programmed, cycles, presses>>

\* WRQ erases the flash and opens a session, or is refused.
LoaderWRQ ==
    /\ Request("WRQ", 0) \in net
    /\ role = "loader"
    /\ \/ /\ next' = 0
          /\ flash' = 0
          /\ Send(Msg("AWRQ", 0, "ok"))
       \/ /\ Send(Msg("AWRQ", 0, "error"))
          /\ UNCHANGED <<next, flash>>
    /\ UNCHANGED <<tool, role, lock, running, programmed, accepted, cycles, presses>>

\* The expected block is written; the one before it is acknowledged again, as
\* a retry needs; any other is out of order.  Writing may fail.
LoaderDATA(k) ==
    /\ Request("DATA", k) \in net
    /\ role = "loader"
    /\ \/ /\ k = next
          /\ next' = next + 1
          /\ flash' = k + 1
          /\ programmed' = programmed \cup {k}
          /\ Send(Msg("ADAT", k, "ok"))
       \/ /\ k + 1 = next
          /\ Send(Msg("ADAT", k, "ok"))
          /\ UNCHANGED <<next, flash, programmed>>
       \/ /\ k + 1 # next
          /\ Send(Msg("ADAT", k, "error"))
          /\ UNCHANGED <<next, flash, programmed>>
    /\ UNCHANGED <<tool, role, lock, running, accepted, cycles, presses>>

\* FIN verifies the image and starts it.
LoaderFIN ==
    /\ Request("FIN", 0) \in net
    /\ role = "loader"
    /\ IF next = NBlocks /\ flash = NBlocks
       THEN /\ Send(Msg("AFIN", 0, "ok"))
            /\ role' = "app"
            /\ running' = TRUE
            /\ next' = NoSession
       ELSE /\ Send(Msg("AFIN", 0, "error"))
            /\ UNCHANGED <<role, running, next>>
    /\ UNCHANGED <<tool, lock, flash, programmed, accepted, cycles, presses>>

\* A loader nobody talks to starts the application it has.
LoaderTimeout ==
    /\ role = "loader"
    /\ next = NoSession
    /\ role' = "app"
    /\ UNCHANGED <<net, tool, lock, next, flash, running, programmed, accepted, cycles,
                   presses>>

PowerCycle ==
    /\ cycles < MaxCycles
    /\ cycles' = cycles + 1
    /\ role' = "loader"
    /\ next' = NoSession
    /\ running' = FALSE
    /\ UNCHANGED <<net, tool, lock, flash, programmed, accepted, presses>>

\* Someone at the panel turns the lock on or off.
LockPress ==
    /\ presses < MaxPresses
    /\ presses' = presses + 1
    /\ lock' = ~ lock
    /\ UNCHANGED <<net, tool, role, next, flash, running, programmed, accepted, cycles>>

Device ==
    \/ DeviceIdent
    \/ DeviceReboot
    \/ LoaderWRQ
    \/ \E k \in 0 .. NBlocks - 1 : LoaderDATA(k)
    \/ LoaderFIN
    \/ LoaderTimeout
    \/ PowerCycle
    \/ LockPress

-----------------------------------------------------------------------------
(* ensureBootloader.                                                       *)

\* The tool goes on at p with fresh counters.
Enter(p) ==
    /\ pc' = p
    /\ attempt' = 0
    /\ waiting' = FALSE
    /\ UNCHANGED seq

Exit(c) ==
    /\ pc' = "exit"
    /\ code' = c
    /\ UNCHANGED <<attempt, waiting, seq, asked>>

\* ident() sends IDENT and reads one datagram; a reply of another kind, or
\* none in time, is no answer.
IdentSend ==
    /\ pc \in {"ident", "poll"}
    /\ ~ waiting
    /\ Send(Request("IDENT", 0))
    /\ waiting' = TRUE
    /\ UNCHANGED <<pc, attempt, seq, asked, code, device, accepted, cycles, presses>>

ident(answer) ==
    /\ waiting
    /\ \/ \E m \in Replies : answer = IF m.tag = "AIDENT" THEN m.n ELSE "none"
       \/ answer = "none"

\* The first ident of ensureBootloader.
ensureBootloader ==
    /\ pc = "ident"
    /\ \/ /\ ident("loader")
          /\ Enter("wrq")
          /\ UNCHANGED <<net, asked>>
       \/ /\ ident("app")
          /\ Send(Request("REBOOT", 0))
          /\ Enter("poll")
          /\ asked' = TRUE
       \/ /\ ident("none")
          /\ Enter("modbus")
          /\ UNCHANGED <<net, asked>>
    /\ UNCHANGED <<code, device, accepted, cycles, presses>>

\* A poll of waitForBootloader, and what ensureBootloader makes of the last.
waitForBootloader ==
    /\ pc = "poll"
    /\ \/ /\ ident("loader")
          /\ Enter("wrq")
          /\ UNCHANGED <<asked, code>>
       \/ /\ ident("app") \/ ident("none")
          /\ IF attempt + 1 < IdentTries
             THEN /\ attempt' = attempt + 1
                  /\ waiting' = FALSE
                  /\ UNCHANGED <<pc, seq, asked, code>>
             ELSE IF asked THEN Exit(exitNoLoader)
             ELSE Enter("wrq") /\ UNCHANGED <<asked, code>>
    /\ UNCHANGED <<net, device, accepted, cycles, presses>>

\* ask(): FC 0x4C to the application.  Unlocked it may accept, and the tool
\* sees that, or a broken answer.  Otherwise it says it is locked, refuses, or
\* is not there; a connection that ends without an answer, whatever the
\* reason, is taken for acceptance.
ask(result) ==
    \/ /\ role = "app" /\ ~ lock
       /\ result \in {"accepted", "failed"}
       /\ role' = "loader"
       /\ next' = NoSession
       /\ running' = FALSE
       /\ accepted' = TRUE
       /\ UNCHANGED <<lock, flash, programmed>>
    \/ /\ \/ result = "failed"
          \/ role = "app" /\ result = "accepted"
          \/ role = "app" /\ lock /\ result = "locked"
       /\ UNCHANGED <<device, accepted>>

\* modbusReboot up to the first answer.
modbusReboot ==
    /\ pc = "modbus"
    /\ \E result \in {"accepted", "failed", "locked"} :
        /\ ask(result)
        /\ Enter(CASE result = "accepted" -> "poll"
                   [] result = "failed" -> "wrq"
                   [] result = "locked" -> "lock")
    /\ UNCHANGED <<net, asked, code, cycles, presses>>

\* Mutant of retryReboot: an accepted reboot is waited out like a refused one.
retryReboot_waits ==
    /\ pc = "retry"
    /\ \E result \in {"accepted", "failed", "locked"} :
        /\ ask(result)
        /\ pc' = IF result = "failed" THEN "wrq" ELSE "lock"
        /\ attempt' = IF result = "failed" THEN 0 ELSE attempt
    /\ UNCHANGED <<net, waiting, seq, asked, code, cycles, presses>>

\* The reboot is asked for again once the device is unlocked.
retryReboot ==
    /\ pc = "retry"
    /\ \E result \in {"accepted", "failed", "locked"} :
        /\ ask(result)
        /\ pc' = CASE result = "accepted" -> "poll"
                   [] result = "failed" -> "wrq"
                   [] result = "locked" -> "lock"
        /\ attempt' = IF result = "locked" THEN attempt ELSE 0
    /\ UNCHANGED <<net, waiting, seq, asked, code, cycles, presses>>

\* A poll of the lock, until lockWait is over, which may be before the last
\* poll.  A device that does not answer may have rebooted.
lockState ==
    /\ pc = "lock"
    /\ \/ /\ attempt > 0
          /\ Exit(exitLocked)
       \/ /\ attempt < LockPolls
          /\ role = "app"
          /\ pc' = IF lock THEN "lock" ELSE "retry"
          /\ attempt' = attempt + 1
          /\ UNCHANGED <<waiting, seq, asked, code>>
       \/ /\ attempt < LockPolls
          /\ Enter("poll")
          /\ UNCHANGED <<asked, code>>
    /\ UNCHANGED <<net, device, accepted, cycles, presses>>

-----------------------------------------------------------------------------
(* The transfer.                                                           *)

Payload == CASE pc = "wrq" -> Request("WRQ", 0)
             [] pc = "data" -> Request("DATA", seq)
             [] pc = "fin" -> Request("FIN", 0)

\* An attempt of exchange: the request is sent, or the peer is unreachable.
exchange ==
    /\ pc \in {"wrq", "data", "fin"}
    /\ ~ waiting
    /\ attempt < retries
    /\ attempt' = attempt + 1
    /\ \/ Send(Payload) /\ waiting' = TRUE
       \/ UNCHANGED <<net, waiting>>
    /\ UNCHANGED <<pc, seq, asked, code, device, accepted, cycles, presses>>

\* Mutant of Timeout: it does not use up the attempt.
Timeout_free ==
    /\ pc \in {"wrq", "data", "fin"}
    /\ waiting
    /\ waiting' = FALSE
    /\ attempt' = attempt - 1
    /\ UNCHANGED <<net, pc, seq, asked, code, device, accepted, cycles, presses>>

\* No reply that matches came in time.
Timeout ==
    /\ pc \in {"wrq", "data", "fin"}
    /\ waiting
    /\ waiting' = FALSE
    /\ UNCHANGED <<net, pc, attempt, seq, asked, code, device, accepted, cycles, presses>>

\* Mutant of Matches: any ADAT is taken for the one awaited.
Matches_tag(m) ==
    \/ pc = "wrq" /\ m.tag = "AWRQ"
    \/ pc = "data" /\ m.tag = "ADAT"
    \/ pc = "fin" /\ m.tag = "AFIN"

\* A reply counts if its tag, and in DATA its block number, is the awaited.
Matches(m) ==
    \/ pc = "wrq" /\ m.tag = "AWRQ"
    \/ pc = "data" /\ m.tag = "ADAT" /\ m.n = seq
    \/ pc = "fin" /\ m.tag = "AFIN"

\* The exchange after WRQ: an empty image has no blocks.
AfterWRQ == IF 0 < NBlocks THEN "data" ELSE "fin"

\* Mutant of AfterBlock: one block too many.
AfterBlock_more == IF seq < NBlocks THEN "data" ELSE "fin"

\* The exchange after that of block seq: nblocks is the first number not sent.
AfterBlock == IF seq + 1 < NBlocks THEN "data" ELSE "fin"

\* The tool after the reply m: the next exchange, or the end.
Receive ==
    /\ waiting
    /\ \E m \in Replies :
        /\ Matches(m)
        /\ IF m.st # "ok"
           THEN Exit(CASE pc = "wrq" -> exitWRQ [] pc = "data" -> exitBlock
                       [] pc = "fin" -> exitFIN)
           ELSE CASE pc = "wrq" -> Enter(AfterWRQ) /\ UNCHANGED <<asked, code>>
                  [] pc = "data" ->
                        /\ pc' = AfterBlock
                        /\ seq' = seq + 1
                        /\ attempt' = 0
                        /\ waiting' = FALSE
                        /\ UNCHANGED <<asked, code>>
                  [] pc = "fin" -> Exit(exitOK)
    /\ UNCHANGED <<net, device, accepted, cycles, presses>>

\* Mutant of GiveUp: a block nobody acknowledged ends the upload as a FIN does.
GiveUp_ok ==
    /\ pc \in {"wrq", "data", "fin"}
    /\ ~ waiting
    /\ attempt = retries
    /\ Exit(IF pc = "wrq" THEN exitWRQ ELSE exitOK)
    /\ UNCHANGED <<net, device, accepted, cycles, presses>>

\* The attempts are used up.  A missing AFIN counts as success: the device may
\* have started the application before its answer arrived.
GiveUp ==
    /\ pc \in {"wrq", "data", "fin"}
    /\ ~ waiting
    /\ attempt = retries
    /\ Exit(CASE pc = "wrq" -> exitWRQ [] pc = "data" -> exitBlock
              [] pc = "fin" -> exitOK)
    /\ UNCHANGED <<net, device, accepted, cycles, presses>>

Tool ==
    \/ IdentSend \/ ensureBootloader \/ waitForBootloader
    \/ modbusReboot \/ lockState \/ retryReboot
    \/ exchange \/ Timeout \/ Receive \/ GiveUp

Next == Device \/ Tool

\* The tool is a process that runs on.
Spec == Init /\ [][Next]_vars /\ WF_vars(Tool)

-----------------------------------------------------------------------------
TypeOK ==
    /\ pc \in {"ident", "poll", "modbus", "lock", "retry", "wrq", "data", "fin", "exit"}
    /\ attempt \in 0 .. retries + IdentTries + LockPolls
    /\ waiting \in BOOLEAN /\ asked \in BOOLEAN /\ accepted \in BOOLEAN
    /\ seq \in 0 .. NBlocks
    /\ (pc = "data") => seq < NBlocks
    /\ code \in {exitOK, exitWRQ, exitBlock, exitFIN, exitNoLoader, exitLocked, Running}
    /\ role \in {"app", "loader"} /\ lock \in BOOLEAN /\ running \in BOOLEAN
    /\ next \in 0 .. NoSession
    /\ flash \in 0 .. NBlocks

\* Stop-and-wait over a network that delays and repeats: the tool is past a
\* block only when the loader has written it, whatever old ADATs arrive.
PassedMeansWritten == \A k \in 0 .. seq - 1 : k \in programmed

\* Exit code 0 is also what a missing AFIN gives.  Even then the loader wrote
\* every block; no other exchange that got no reply counts as success.
OkMeansTransferred == code = exitOK => 0 .. NBlocks - 1 \subseteq programmed

\* Exit code 6, "a definite answer, not a maybe": the application accepted no
\* reboot request of this upload, and the loader was never sent a WRQ.
LockedMeansUntouched ==
    code = exitLocked => ~ accepted /\ Request("WRQ", 0) \notin net

\* Every upload ends, whatever the network and the device do.
Terminates == <>(pc = "exit")
=============================================================================
