-------------------------- MODULE LogoUploadProofs --------------------------
(***************************************************************************)
(* Proofs about LogoUpload, for an image of any number of blocks and any   *)
(* limits on retries and polls.                                            *)
(***************************************************************************)
EXTENDS LogoUpload, TLAPS

\* An acknowledgement on its way is of a block that was written.
ReplyInv == \A m \in net : m.tag = "ADAT" /\ m.st = "ok" => m.n \in programmed

\* A loader in a session has written the blocks before the one it expects.
LoaderInv == next # NoSession => 0 .. next - 1 \subseteq programmed

\* Where the tool is and which block it has come to.
ToolInv ==
    /\ pc \notin {"data", "fin", "exit"} => seq = 0
    /\ pc = "fin" => seq = NBlocks
    /\ pc # "exit" => code = Running

\* On the way to exit code 6 nothing was sent that the device could obey.
QuietInv ==
    pc \in {"ident", "modbus", "lock", "retry"} \/ code = exitLocked =>
        /\ ~ accepted
        /\ Request("REBOOT", 0) \notin net
        /\ Request("WRQ", 0) \notin net

IInv ==
    /\ TypeOK /\ ReplyInv /\ LoaderInv /\ ToolInv
    /\ PassedMeansWritten /\ OkMeansTransferred /\ QuietInv

\* TypeOK in two parts: the provers treat Boolean variables and ranges apart.
Flags ==
    /\ waiting \in BOOLEAN /\ asked \in BOOLEAN /\ accepted \in BOOLEAN
    /\ lock \in BOOLEAN /\ running \in BOOLEAN

Ranges ==
    /\ pc \in {"ident", "poll", "modbus", "lock", "retry", "wrq", "data", "fin", "exit"}
    /\ attempt \in 0 .. retries + IdentTries + LockPolls
    /\ seq \in 0 .. NBlocks
    /\ (pc = "data") => seq < NBlocks
    /\ code \in {exitOK, exitWRQ, exitBlock, exitFIN, exitNoLoader, exitLocked, Running}
    /\ role \in {"app", "loader"}
    /\ next \in 0 .. NoSession
    /\ flash \in 0 .. NBlocks

LEMMA TypeParts == TypeOK <=> Flags /\ Ranges
  BY DEF TypeOK, Flags, Ranges

LEMMA TypePartsPrimed == TypeOK' <=> Flags' /\ Ranges'
  BY DEF TypeOK, Flags, Ranges

-----------------------------------------------------------------------------
(* The device.                                                             *)

\* A step of the device that leaves tool, programmed and next alone, or resets
\* next, and sends no acknowledgement of a block.
LEMMA DeviceFrame ==
    ASSUME IInv, UNCHANGED <<tool, programmed>>,
           NEW m, net' = net \/ net' = net \cup {m},
           m.tag \notin {"ADAT", "REBOOT", "WRQ"},
           next' \in {next, NoSession, 0},
           accepted' = accepted \/ Request("REBOOT", 0) \in net
    PROVE  ReplyInv' /\ LoaderInv' /\ ToolInv' /\ PassedMeansWritten' /\ OkMeansTransferred'
           /\ QuietInv'
<1> USE BlocksAssumption DEF IInv, tool
<1>1. ReplyInv'
  BY DEF ReplyInv
<1>2. LoaderInv'
  <2>1. CASE next' = next
    BY <2>1 DEF LoaderInv, NoSession
  <2>2. CASE next' = NoSession
    BY <2>2 DEF LoaderInv, NoSession
  <2>3. CASE next' = 0
    BY <2>3 DEF LoaderInv
  <2> QED
    BY <2>1, <2>2, <2>3
<1>3. ToolInv' /\ PassedMeansWritten' /\ OkMeansTransferred'
  BY DEF ToolInv, PassedMeansWritten, OkMeansTransferred
<1>4. QuietInv'
  BY DEF QuietInv, Request, Msg
<1> QED
  BY <1>1, <1>2, <1>3, <1>4

LEMMA DeviceStep ==
    ASSUME IInv, Device
    PROVE  IInv'
<1> USE BlocksAssumption DEF NoSession, exitOK, exitWRQ, exitBlock, exitFIN, exitNoLoader, exitLocked,
           Running
<1>1. TypeOK /\ ReplyInv /\ LoaderInv /\ ToolInv /\ PassedMeansWritten
      /\ OkMeansTransferred /\ QuietInv /\ Flags /\ Ranges
  BY TypeParts DEF IInv
<1>2. CASE DeviceIdent
  <2>1. TypeOK'
    <3>1. Flags'
      BY <1>1, <1>2 DEF Flags, DeviceIdent, tool, device
    <3>2. Ranges'
      BY <1>1, <1>2 DEF Ranges, DeviceIdent, tool, device
    <3> QED
      BY <3>1, <3>2, TypePartsPrimed
  <2>2. Msg("AIDENT", role, "ok").tag = "AIDENT"
    BY DEF Msg
  <2> QED
    BY <1>2, <2>1, <2>2, DeviceFrame DEF IInv, DeviceIdent, Send, device
<1>3. CASE DeviceReboot
  <2>1. TypeOK'
    <3>1. Flags'
      BY Zenon, <1>1, <1>3 DEF Flags, DeviceReboot, tool
    <3>2. Ranges'
      BY <1>1, <1>3 DEF Ranges, DeviceReboot, tool
    <3> QED
      BY <3>1, <3>2, TypePartsPrimed
  <2>2. Msg("AFIN", 0, "ok").tag = "AFIN"
    BY DEF Msg
  <2> QED
    BY Zenon, <1>3, <2>1, <2>2, DeviceFrame DEF IInv, DeviceReboot
<1>4. CASE LoaderWRQ
  <2>1. TypeOK'
    <3>1. Flags'
      BY <1>1, <1>4 DEF Flags, LoaderWRQ, tool
    <3>2. Ranges'
      BY <1>1, <1>4 DEF Ranges, LoaderWRQ, tool
    <3> QED
      BY <3>1, <3>2, TypePartsPrimed
  <2>2. PICK m : /\ net' = net \cup {m} /\ m.tag = "AWRQ"
                 /\ next' \in {next, 0}
    BY Zenon, <1>4 DEF LoaderWRQ, Send, Msg
  <2> QED
    BY <1>4, <2>1, <2>2, DeviceFrame DEF IInv, LoaderWRQ
<1>5. ASSUME NEW k \in 0 .. NBlocks - 1, LoaderDATA(k)
      PROVE  IInv'
  <2>1. UNCHANGED <<tool, role, lock, running, accepted, cycles, presses>>
    BY <1>5 DEF LoaderDATA
  <2>2. CASE k = next /\ next' = next + 1 /\ flash' = k + 1
             /\ programmed' = programmed \cup {k} /\ Send(Msg("ADAT", k, "ok"))
    <3>1. TypeOK'
      <4>1. Flags'
        BY <1>1, <2>1, <2>2 DEF Flags, tool
      <4>2. Ranges'
        BY <1>1, <2>1, <2>2 DEF Ranges, tool
      <4> QED
        BY <4>1, <4>2, TypePartsPrimed
    <3>2. ReplyInv'
      BY <1>1, <2>2 DEF ReplyInv, Send, Msg
    <3>3. LoaderInv'
      BY <1>1, <2>2 DEF LoaderInv, TypeOK
    <3>4. ToolInv' /\ PassedMeansWritten' /\ OkMeansTransferred'
      BY <1>1, <2>1, <2>2 DEF ToolInv, PassedMeansWritten, OkMeansTransferred, tool
    <3>5. QuietInv'
      BY <1>1, <2>1, <2>2 DEF QuietInv, Send, Request, Msg, tool
    <3> QED
      BY <3>1, <3>2, <3>3, <3>4, <3>5 DEF IInv
  <2>3. CASE UNCHANGED <<next, flash, programmed>>
             /\ (\/ k + 1 = next /\ Send(Msg("ADAT", k, "ok"))
                 \/ Send(Msg("ADAT", k, "error")))
    <3>1. TypeOK'
      <4>1. Flags'
        BY <1>1, <2>1, <2>3 DEF Flags, tool
      <4>2. Ranges'
        BY <1>1, <2>1, <2>3 DEF Ranges, tool
      <4> QED
        BY <4>1, <4>2, TypePartsPrimed
    <3>2. k + 1 = next => k \in programmed
      BY <1>1 DEF LoaderInv
    <3>3. ReplyInv'
      BY <1>1, <2>3, <3>2 DEF ReplyInv, Send, Msg
    <3>4. LoaderInv' /\ ToolInv' /\ PassedMeansWritten' /\ OkMeansTransferred'
      BY <1>1, <2>1, <2>3 DEF LoaderInv, ToolInv, PassedMeansWritten, OkMeansTransferred, tool
    <3>5. QuietInv'
      BY <1>1, <2>1, <2>3 DEF QuietInv, Send, Request, Msg, tool
    <3> QED
      BY <3>1, <3>3, <3>4, <3>5 DEF IInv
  <2> QED
    BY <1>5, <2>2, <2>3 DEF LoaderDATA
<1>6. CASE LoaderFIN
  <2>1. TypeOK'
    <3>1. Flags'
      BY Zenon, <1>1, <1>6 DEF Flags, LoaderFIN, tool
    <3>2. Ranges'
      BY <1>1, <1>6 DEF Ranges, LoaderFIN, tool
    <3> QED
      BY <3>1, <3>2, TypePartsPrimed
  <2>2. PICK m : /\ net' = net \cup {m} /\ m.tag = "AFIN"
                 /\ next' \in {next, NoSession}
    BY Zenon, <1>6 DEF LoaderFIN, Send, Msg
  <2> QED
    BY <1>6, <2>1, <2>2, DeviceFrame DEF IInv, LoaderFIN
<1>7. CASE LoaderTimeout \/ PowerCycle \/ LockPress
  <2>1. TypeOK'
    <3>1. Flags'
      BY Zenon, <1>1, <1>7 DEF Flags, LoaderTimeout, PowerCycle, LockPress, tool
    <3>2. Ranges'
      BY <1>1, <1>7 DEF Ranges, LoaderTimeout, PowerCycle, LockPress, tool
    <3> QED
      BY <3>1, <3>2, TypePartsPrimed
  <2>2. UNCHANGED <<net, tool, programmed, accepted>> /\ next' \in {next, NoSession}
    BY <1>7 DEF LoaderTimeout, PowerCycle, LockPress
  <2>3. Msg("AFIN", 0, "ok").tag = "AFIN"
    BY DEF Msg
  <2> QED
    BY <2>1, <2>2, <2>3, DeviceFrame DEF IInv
<1> QED
  BY <1>2, <1>3, <1>4, <1>5, <1>6, <1>7 DEF Device

-----------------------------------------------------------------------------
(* The tool.                                                               *)

\* ensureBootloader: nothing is transferred yet.
LEMMA HandshakeStep ==
    ASSUME IInv,
           IdentSend \/ ensureBootloader \/ waitForBootloader \/ modbusReboot
           \/ retryReboot \/ lockState
    PROVE  IInv'
<1> USE BlocksAssumption, TriesAssumption
    DEF NoSession, exitOK, exitWRQ, exitBlock, exitFIN, exitNoLoader, exitLocked,
           Running
<1>1. TypeOK /\ ReplyInv /\ LoaderInv /\ ToolInv /\ PassedMeansWritten
      /\ OkMeansTransferred /\ QuietInv /\ Flags /\ Ranges
  BY TypeParts DEF IInv
<1>2. CASE IdentSend
  <2>1. pc \in {"ident", "poll"} /\ net' = net \cup {Request("IDENT", 0)}
        /\ UNCHANGED <<pc, attempt, seq, asked, code, role, lock, next, flash, running,
                       programmed, accepted>> /\ waiting' = TRUE
    BY <1>2 DEF IdentSend, Send, device
  <2>2. TypeOK'
    <3>1. Flags'
      BY <1>1, <2>1 DEF Flags
    <3>2. Ranges'
      BY <1>1, <2>1 DEF Ranges
    <3> QED
      BY <3>1, <3>2, TypePartsPrimed
  <2>3. ReplyInv'
    BY <1>1, <2>1 DEF ReplyInv, Request, Msg
  <2>4. LoaderInv' /\ ToolInv' /\ PassedMeansWritten' /\ OkMeansTransferred'
    BY <1>1, <2>1 DEF LoaderInv, ToolInv, PassedMeansWritten, OkMeansTransferred
  <2>5. QuietInv'
    BY <1>1, <2>1 DEF QuietInv, Request, Msg
  <2> QED
    BY <2>2, <2>3, <2>4, <2>5 DEF IInv
<1>3. CASE ensureBootloader
  <2>1. pc = "ident" /\ UNCHANGED <<code, role, lock, next, flash, running, programmed, accepted>>
    BY <1>3 DEF ensureBootloader, device
  <2>2. /\ attempt' = 0 /\ waiting' = FALSE /\ seq' = seq /\ asked' \in BOOLEAN
        /\ \/ pc' \in {"wrq", "modbus"} /\ net' = net
           \/ pc' = "poll" /\ net' = net \cup {Request("REBOOT", 0)}
    BY Zenon, <1>1, <1>3 DEF ensureBootloader, Enter, Send, Flags, Ranges
  <2>3. TypeOK'
    <3>1. Flags'
      BY Zenon, <1>1, <2>1, <2>2 DEF Flags
    <3>2. Ranges'
      BY <1>1, <2>1, <2>2 DEF Ranges
    <3> QED
      BY <3>1, <3>2, TypePartsPrimed
  <2>4. ReplyInv'
    BY <1>1, <2>1, <2>2 DEF ReplyInv, Request, Msg
  <2>5. LoaderInv' /\ ToolInv' /\ PassedMeansWritten' /\ OkMeansTransferred'
    BY <1>1, <2>1, <2>2 DEF LoaderInv, ToolInv, PassedMeansWritten, OkMeansTransferred
  <2>6. QuietInv'
    BY <1>1, <2>1, <2>2 DEF QuietInv, ToolInv
  <2> QED
    BY <2>3, <2>4, <2>5, <2>6 DEF IInv
<1>4. CASE waitForBootloader
  <2>1. pc = "poll" /\ UNCHANGED <<net, role, lock, next, flash, running, programmed, accepted>>
    BY <1>4 DEF waitForBootloader, device
  <2>2. /\ UNCHANGED <<seq, asked>>
        /\ \/ pc' \in {"wrq", "poll"} /\ code' = code
              /\ attempt' \in 0 .. retries + IdentTries + LockPolls
           \/ pc' = "exit" /\ code' = exitNoLoader /\ attempt' = attempt
    BY <1>1, <1>4 DEF waitForBootloader, Enter, Exit, Ranges
  <2>w. waiting' \in BOOLEAN
    BY Zenon, <1>1, <1>4 DEF waitForBootloader, Enter, Exit, Flags
  <2>3. TypeOK'
    <3>1. Flags'
      BY <1>1, <2>1, <2>2, <2>w DEF Flags
    <3>2. Ranges'
      BY <1>1, <2>1, <2>2 DEF Ranges
    <3> QED
      BY <3>1, <3>2, TypePartsPrimed
  <2>4. ReplyInv' /\ LoaderInv' /\ ToolInv' /\ PassedMeansWritten' /\ OkMeansTransferred'
    BY <1>1, <2>1, <2>2
    DEF ReplyInv, LoaderInv, ToolInv, PassedMeansWritten, OkMeansTransferred
  <2>5. QuietInv'
    BY <1>1, <2>1, <2>2 DEF QuietInv, ToolInv
  <2> QED
    BY <2>3, <2>4, <2>5 DEF IInv
<1>5. CASE modbusReboot \/ retryReboot
  <2>1. /\ pc \in {"modbus", "retry"}
        /\ UNCHANGED <<net, seq, asked, code>>
        /\ attempt' \in 0 .. retries + IdentTries + LockPolls
    BY <1>1, <1>5 DEF modbusReboot, retryReboot, Enter, Ranges
  <2>w. waiting' \in BOOLEAN
    BY Zenon, <1>1, <1>5 DEF modbusReboot, retryReboot, Enter, Flags
  <2>2. PICK result \in {"accepted", "failed", "locked"} :
           /\ ask(result)
           /\ pc' = CASE result = "accepted" -> "poll"
                      [] result = "failed" -> "wrq"
                      [] result = "locked" -> "lock"
    BY <1>5 DEF modbusReboot, retryReboot, Enter
  <2>3. /\ pc' \in {"poll", "wrq", "lock"}
        /\ pc' = "lock" => result = "locked"
    BY <2>2
  <2>4. /\ UNCHANGED <<lock, flash, programmed>> /\ next' \in {next, NoSession}
        /\ role' \in {"app", "loader"} /\ running' \in BOOLEAN /\ accepted' \in BOOLEAN
        /\ result = "locked" => accepted' = accepted
    BY ZenonT(60), <1>1, <2>2 DEF ask, device, Flags, Ranges
  <2>5. TypeOK'
    <3>1. Flags'
      BY <1>1, <2>1, <2>3, <2>4, <2>w DEF Flags
    <3>2. Ranges'
      BY <1>1, <2>1, <2>3, <2>4 DEF Ranges
    <3> QED
      BY <3>1, <3>2, TypePartsPrimed
  <2>6. ReplyInv' /\ LoaderInv' /\ ToolInv' /\ PassedMeansWritten' /\ OkMeansTransferred'
    BY <1>1, <2>1, <2>3, <2>4
    DEF ReplyInv, LoaderInv, ToolInv, PassedMeansWritten, OkMeansTransferred
  <2>7. QuietInv'
    BY <1>1, <2>1, <2>3, <2>4 DEF QuietInv, ToolInv
  <2> QED
    BY <2>5, <2>6, <2>7 DEF IInv
<1>6. CASE lockState
  <2>1. pc = "lock" /\ UNCHANGED <<net, role, lock, next, flash, running, programmed, accepted>>
    BY <1>6 DEF lockState, device
  <2>2. /\ UNCHANGED <<seq, asked>>
        /\ attempt' \in 0 .. retries + IdentTries + LockPolls
        /\ \/ pc' \in {"lock", "retry", "poll"} /\ code' = code
           \/ pc' = "exit" /\ code' = exitLocked
    BY <1>1, <1>6 DEF lockState, Enter, Exit, Ranges
  <2>w. waiting' \in BOOLEAN
    BY Zenon, <1>1, <1>6 DEF lockState, Enter, Exit, Flags
  <2>3. TypeOK'
    <3>1. Flags'
      BY <1>1, <2>1, <2>2, <2>w DEF Flags
    <3>2. Ranges'
      BY <1>1, <2>1, <2>2 DEF Ranges
    <3> QED
      BY <3>1, <3>2, TypePartsPrimed
  <2>4. ReplyInv' /\ LoaderInv' /\ ToolInv' /\ PassedMeansWritten' /\ OkMeansTransferred'
    BY <1>1, <2>1, <2>2
    DEF ReplyInv, LoaderInv, ToolInv, PassedMeansWritten, OkMeansTransferred
  <2>5. QuietInv'
    BY <1>1, <2>1, <2>2 DEF QuietInv, ToolInv
  <2> QED
    BY <2>3, <2>4, <2>5 DEF IInv
<1> QED
  BY <1>2, <1>3, <1>4, <1>5, <1>6

\* The exchanges: WRQ, the blocks, FIN.
LEMMA TransferStep ==
    ASSUME IInv, exchange \/ Timeout \/ Receive \/ GiveUp
    PROVE  IInv'
<1> USE BlocksAssumption, TriesAssumption
    DEF NoSession, exitOK, exitWRQ, exitBlock, exitFIN, exitNoLoader, exitLocked, Running
<1>1. TypeOK /\ ReplyInv /\ LoaderInv /\ ToolInv /\ PassedMeansWritten
      /\ OkMeansTransferred /\ QuietInv /\ Flags /\ Ranges
  BY TypeParts DEF IInv
<1>2. UNCHANGED <<role, lock, next, flash, running, programmed, accepted, asked>>
  <2>1. CASE exchange \/ Timeout \/ GiveUp
    BY <2>1 DEF exchange, Timeout, GiveUp, device, Exit
  <2>2. CASE Receive
    BY Zenon, <2>2 DEF Receive, Matches, device, Enter, Exit
  <2> QED
    BY <2>1, <2>2
<1>3. LoaderInv'
  BY <1>1, <1>2 DEF LoaderInv
<1>4. CASE exchange \/ Timeout
  <2>1. /\ pc \in {"wrq", "data", "fin"} /\ UNCHANGED <<pc, seq, code>>
        /\ attempt' \in 0 .. retries + IdentTries + LockPolls
        /\ net' = net \/ net' = net \cup {Payload}
    BY <1>1, <1>4 DEF exchange, Timeout, Send, Ranges
  <2>w. waiting' \in BOOLEAN
    BY ZenonT(60), <1>1, <1>4 DEF exchange, Timeout, Send, Flags
  <2>2. Payload.tag # "ADAT"
    BY <2>1 DEF Payload, Request, Msg
  <2>3. TypeOK'
    <3>1. Flags'
      BY <1>1, <1>2, <2>1, <2>w DEF Flags
    <3>2. Ranges'
      BY <1>1, <1>2, <2>1 DEF Ranges
    <3> QED
      BY <3>1, <3>2, TypePartsPrimed
  <2>4. ReplyInv'
    BY <1>1, <1>2, <2>1, <2>2 DEF ReplyInv
  <2>5. ToolInv' /\ PassedMeansWritten' /\ OkMeansTransferred' /\ QuietInv'
    BY <1>1, <1>2, <2>1 DEF ToolInv, PassedMeansWritten, OkMeansTransferred, QuietInv
  <2> QED
    BY <1>3, <2>3, <2>4, <2>5 DEF IInv
<1>5. CASE Receive
  <2>1. pc \in {"wrq", "data", "fin"} /\ net' = net
    BY <1>5 DEF Receive, Matches
  <2>2. \/ /\ pc' = "exit" /\ code' \in {exitWRQ, exitBlock, exitFIN}
           /\ UNCHANGED <<attempt, waiting, seq>>
        \/ /\ pc = "wrq" /\ pc' = AfterWRQ
           /\ attempt' = 0 /\ waiting' = FALSE /\ UNCHANGED <<seq, code>>
        \/ /\ pc = "data" /\ pc' = AfterBlock /\ seq' = seq + 1 /\ seq \in programmed
           /\ attempt' = 0 /\ waiting' = FALSE /\ UNCHANGED code
        \/ /\ pc = "fin" /\ pc' = "exit" /\ code' = exitOK
           /\ UNCHANGED <<attempt, waiting, seq>>
    <3>1. PICK m \in net :
              /\ Matches(m)
              /\ IF m.st # "ok"
                 THEN Exit(CASE pc = "wrq" -> exitWRQ [] pc = "data" -> exitBlock
                             [] pc = "fin" -> exitFIN)
                 ELSE CASE pc = "wrq" -> Enter(AfterWRQ) /\ UNCHANGED <<asked, code>>
                        [] pc = "data" ->
                              /\ pc' = AfterBlock
                              /\ seq' = seq + 1
                              /\ attempt' = 0
                              /\ waiting' = FALSE
                              /\ UNCHANGED <<asked, code>>
                        [] pc = "fin" -> Exit(exitOK)
      BY Zenon, <1>5 DEF Receive, Replies
    <3>2. CASE m.st # "ok"
      BY <2>1, <3>1, <3>2 DEF Exit
    <3>3. CASE m.st = "ok" /\ pc = "wrq"
      BY <3>1, <3>3 DEF Enter
    <3>4. CASE m.st = "ok" /\ pc = "data"
      <4>1. m.tag = "ADAT" /\ m.n = seq
        BY <3>1, <3>4 DEF Matches
      <4>2. seq \in programmed
        BY <1>1, <3>4, <4>1 DEF ReplyInv
      <4> QED
        BY <3>1, <3>4, <4>2
    <3>5. CASE m.st = "ok" /\ pc = "fin"
      BY <3>1, <3>5 DEF Exit
    <3> QED
      BY Zenon, <2>1, <3>2, <3>3, <3>4, <3>5
  <2>3. ToolInv /\ (pc = "data" => seq < NBlocks) /\ seq \in 0 .. NBlocks
    BY <1>1 DEF TypeOK
  <2>4. TypeOK'
    <3>1. Flags'
      BY Zenon, <1>1, <1>2, <2>1, <2>2 DEF Flags, ToolInv, AfterWRQ, AfterBlock
    <3>2. Ranges'
      BY <1>1, <1>2, <2>1, <2>2 DEF Ranges, ToolInv, AfterWRQ, AfterBlock
    <3> QED
      BY <3>1, <3>2, TypePartsPrimed
  <2>5. ReplyInv'
    BY <1>1, <1>2, <2>1 DEF ReplyInv
  <2>6. ToolInv'
    BY <2>1, <2>2, <2>3 DEF ToolInv, AfterWRQ, AfterBlock
  <2>7. PassedMeansWritten'
    BY <1>1, <1>2, <2>2, <2>3 DEF PassedMeansWritten
  <2>8. OkMeansTransferred'
    BY <1>1, <1>2, <2>1, <2>2, <2>3 DEF OkMeansTransferred, PassedMeansWritten, ToolInv
  <2>9. QuietInv'
    BY <1>1, <1>2, <2>1, <2>2 DEF QuietInv, ToolInv, AfterWRQ, AfterBlock
  <2> QED
    BY <1>3, <2>4, <2>5, <2>6, <2>7, <2>8, <2>9 DEF IInv
<1>6. CASE GiveUp
  <2>1. /\ pc \in {"wrq", "data", "fin"} /\ pc' = "exit" /\ UNCHANGED <<net, attempt, waiting, seq>>
        /\ \/ code' \in {exitWRQ, exitBlock}
           \/ pc = "fin" /\ code' = exitOK
    BY <1>6 DEF GiveUp, Exit
  <2>2. TypeOK' /\ ReplyInv' /\ ToolInv' /\ PassedMeansWritten'
    BY <1>1, <1>2, <2>1 DEF TypeOK, ReplyInv, ToolInv, PassedMeansWritten
  <2>3. OkMeansTransferred'
    BY <1>1, <1>2, <2>1 DEF OkMeansTransferred, PassedMeansWritten, ToolInv
  <2>4. QuietInv'
    BY <1>1, <1>2, <2>1 DEF QuietInv, ToolInv
  <2> QED
    BY <1>3, <2>2, <2>3, <2>4 DEF IInv
<1> QED
  BY <1>4, <1>5, <1>6

-----------------------------------------------------------------------------
(* The theorems.                                                           *)

LEMMA InitIInv == Init => IInv
<1> SUFFICES ASSUME Init PROVE IInv
  OBVIOUS
<1> USE BlocksAssumption, TriesAssumption DEF Init, NoSession
<1>1. TypeOK
  <2>1. Flags
    BY Zenon DEF Flags
  <2>2. Ranges
    BY DEF Ranges, Running
  <2> QED
    BY <2>1, <2>2, TypeParts
<1>2. ReplyInv /\ LoaderInv /\ ToolInv /\ PassedMeansWritten
  BY DEF ReplyInv, LoaderInv, ToolInv, PassedMeansWritten
<1>3. OkMeansTransferred /\ QuietInv
  BY DEF OkMeansTransferred, QuietInv, Running, exitOK, exitLocked
<1> QED
  BY <1>1, <1>2, <1>3 DEF IInv

LEMMA NextIInv == IInv /\ [Next]_vars => IInv'
<1> SUFFICES ASSUME IInv, [Next]_vars PROVE IInv'
  OBVIOUS
<1>1. CASE Device
  BY <1>1, DeviceStep
<1>2. CASE Tool
  BY <1>2, HandshakeStep, TransferStep DEF Tool
<1>3. CASE UNCHANGED vars
  BY <1>3 DEF IInv, TypeOK, ReplyInv, LoaderInv, ToolInv, PassedMeansWritten,
             OkMeansTransferred, QuietInv, vars, tool, device
<1> QED
  BY <1>1, <1>2, <1>3 DEF Next

\* The inductive invariant holds in every reachable state.
THEOREM Inductive == Spec => []IInv
  BY InitIInv, NextIInv, PTL DEF Spec

\* The variables of the tool and the device keep their types: in particular no
\* block past the image is ever sent.
THEOREM UploadTypeOK == Spec => []TypeOK
<1>1. IInv => TypeOK
  BY DEF IInv
<1> QED
  BY <1>1, Inductive, PTL

\* The tool goes on to the next block only after the loader wrote the one
\* before, however the network delays, repeats and reorders replies, for an
\* image of any length and any number of retries.
THEOREM UploadPassedMeansWritten == Spec => []PassedMeansWritten
<1>1. IInv => PassedMeansWritten
  BY DEF IInv
<1> QED
  BY <1>1, Inductive, PTL

\* An upload that ends with exit code 0, a FIN without an answer included, has
\* written every block of the image.
THEOREM UploadOkMeansTransferred == Spec => []OkMeansTransferred
<1>1. IInv => OkMeansTransferred
  BY DEF IInv
<1> QED
  BY <1>1, Inductive, PTL

\* Exit code 6 is reached only when no reboot was accepted and no WRQ was sent.
THEOREM UploadLockedMeansUntouched == Spec => []LockedMeansUntouched
<1>1. IInv => LockedMeansUntouched
  BY DEF IInv, QuietInv, LockedMeansUntouched
<1> QED
  BY <1>1, Inductive, PTL
=============================================================================
