-------------------------------- MODULE Dns ---------------------------------
(***************************************************************************)
(* lwIP's DNS resolver (dns.c) and the wait of EthernetClient::connect for *)
(* a host name.  The sketch looks a name up and fills a table entry with   *)
(* the Ethernet interrupt enabled; dns_tmr and dns_recv run in it, each as *)
(* one step.                                                               *)
(*                                                                         *)
(* A host name is a sequence of characters, among them the separator of    *)
(* its labels.  The address a server gives for a name is written as the    *)
(* name itself, so that an answer for another name can be told apart.      *)
(* Queries stay in net: they and their answers may be lost, late and       *)
(* repeated; an answer repeats the question of its query.  An answer from  *)
(* a server other than the last one asked, which udp.c drops, is let       *)
(* through: the code sees no more answers than the model.                  *)
(***************************************************************************)
EXTENDS Integers, Sequences, FiniteSetsExt

CONSTANTS
    DNS_TABLE_SIZE,    \* 4 in opt.h
    DNS_MAX_RETRIES,   \* 4
    DNS_MAX_TTL,       \* 604800
    TtlMod,            \* ttl is an unsigned word: 2^32
    NumServers,        \* servers configured, at most DNS_MAX_SERVERS
    Names,             \* host names the sketch uses
    Dotted,            \* those of them in octet notation
    Ttls,              \* times to live that servers give
    NULL

ASSUME DnsAssumption ==
    /\ DNS_TABLE_SIZE \in Nat \ {0}
    /\ DNS_MAX_RETRIES \in 1 .. 255
    /\ TtlMod \in Nat /\ DNS_MAX_TTL \in 1 .. TtlMod - 1
    /\ NumServers \in Nat \ {0}
    /\ Dotted \subseteq Names
    /\ Ttls \subseteq 0 .. TtlMod - 1

Dot == "."    \* between two labels
NUL == "\\0"   \* the end of a string in C

Chars == UNION {Range(n) : n \in Names}

ASSUME NamesAssumption == NUL \notin Chars /\ \A n \in Names : n \in Seq(Chars)
ASSUME NullAssumption == NULL \notin {"live", "dead"}

VARIABLES
    dns_table,   \* the entries; found is the caller a callback would write to
    net,         \* history: the queries sent
    pc,          \* where the sketch is
    host,        \* argument of connect()
    ip,          \* its local variable
    slot,        \* local variable i of dns_enqueue
    ticked,      \* history: the timer ran since dns_enqueue began
    torn,        \* history: the timer ran while an entry was being filled
    deadWrite    \* history: a callback wrote to a variable that is gone

vars == <<dns_table, net, pc, host, ip, slot, ticked, torn, deadWrite>>

Entries == 0 .. DNS_TABLE_SIZE - 1

any == <<"0.0.0.0">>           \* ip.addr = 0
none == <<"255.255.255.255">>  \* IPADDR_NONE
flash == <<"*(0)">>            \* the word at address 0, read through NULL

Enqueuing == pc \notin {"idle", "dns_wait"}

\* The sketch is between the first assignment to the entry and the last.
Filling == pc \in {"fill", "found"}

Empty == [state |-> "UNUSED", numdns |-> 0, tmr |-> 0, retries |-> 0, ttl |-> 0,
          found |-> NULL, name |-> <<>>, buf |-> <<>>, addr |-> any]

Init ==
    /\ dns_table = [i \in Entries |-> Empty]
    /\ net = {}
    /\ pc = "idle"
    /\ host = <<>>
    /\ ip = any
    /\ slot = 0
    /\ ticked = FALSE
    /\ torn = FALSE
    /\ deadWrite = FALSE

-----------------------------------------------------------------------------
\* Mutant of Flushed: only the callback is taken out.
Flushed_half(e) == [e EXCEPT !.found = NULL]

\* An unused entry keeps the bytes of its name and its counters.  Its address and
\* time to live are not read again before an answer sets them.
Flushed(e) ==
    [e EXCEPT !.state = "UNUSED", !.found = NULL, !.ttl = 0, !.addr = any]

\* The counters tmr and retries are single bytes.
Inc(x) == IF x = 255 THEN 0 ELSE x + 1
Dec(x) == IF x = 0 THEN 255 ELSE x - 1

\* What one call of dns_check_entry makes of an entry, whether it sends a query
\* and whether it tells the caller that the lookup timed out.
Checked(e, send, fail) == [entry |-> e, send |-> send, fail |-> fail]

Retry(e) ==
    Checked([e EXCEPT !.retries = Inc(@), !.tmr = Inc(e.retries)], TRUE, FALSE)

\* Mutant of TimedOut: the entry is flushed and the callback not called.
TimedOut_quiet(e) == Checked(Flushed(e), FALSE, FALSE)

TimedOut(e) ==
    Checked([Flushed(e) EXCEPT !.tmr = 0, !.retries = DNS_MAX_RETRIES], FALSE, e.found # NULL)

\* Mutant of Aged: the time to live is signed.
Aged_signed(e) == IF e.ttl = 1 THEN Flushed(e) ELSE [e EXCEPT !.ttl = @ - 1]

\* Mutant of Aged: the time to live does not count down.
Aged_not(e) == e

Aged(e) ==
    LET ttl == (e.ttl - 1) % TtlMod IN
    IF ttl = 0 THEN Flushed(e) ELSE [e EXCEPT !.ttl = ttl]

dns_check_entry(e) ==
    CASE e.state = "NEW" ->
           Checked([e EXCEPT !.state = "ASKING", !.numdns = 0, !.tmr = 1, !.retries = 0],
                   TRUE, FALSE)
      [] e.state = "ASKING" /\ e.tmr # 1 ->
           Checked([e EXCEPT !.tmr = Dec(@)], FALSE, FALSE)
      [] e.state = "ASKING" /\ e.tmr = 1 /\ Inc(e.retries) # DNS_MAX_RETRIES ->
           Retry(e)
      [] e.state = "ASKING" /\ e.tmr = 1 /\ Inc(e.retries) = DNS_MAX_RETRIES ->
           IF e.numdns + 1 < NumServers
           THEN Checked([e EXCEPT !.numdns = @ + 1, !.retries = 0], FALSE, FALSE)
           ELSE TimedOut(e)
      [] e.state = "DONE" ->
           Checked(Aged(e), FALSE, FALSE)
      [] OTHER ->
           Checked(e, FALSE, FALSE)

\* dns_send: the query goes out, or there is no memory for it.
dns_send(Q) ==
    \/ net' = net \cup Q
    \/ net' = net

Query(i, e) == [id |-> i, name |-> e.name]

\* do_dns writes the result through arg, the address of the caller's ip.
do_dns(found, addr) ==
    /\ ip' = IF found = "live" THEN addr ELSE ip
    /\ deadWrite' = (deadWrite \/ found = "dead")

\* dns_check_entry for the entries of I.  On a timeout the callback is given
\* NULL for the address and do_dns reads the word at address 0.
CheckEntries(I) ==
    LET r == [i \in I |-> dns_check_entry(dns_table[i])]
        failed == {i \in I : r[i].fail}
        caller == IF \E i \in failed : dns_table[i].found = "live" THEN "live"
                  ELSE IF failed # {} THEN "dead" ELSE NULL
    IN /\ dns_table' = [i \in Entries |-> IF i \in I THEN r[i].entry ELSE dns_table[i]]
       /\ dns_send({Query(i, r[i].entry) : i \in {j \in I : r[j].send}})
       /\ do_dns(caller, flash)

\* The timer: once a second, from the interrupt; so at most once in a call of
\* dns_enqueue.
dns_tmr ==
    /\ Enqueuing => ~ ticked
    /\ CheckEntries(Entries)
    /\ ticked' = Enqueuing
    /\ torn' = (torn \/ Filling)
    /\ UNCHANGED <<pc, host, slot>>

-----------------------------------------------------------------------------
\* What *query reads: behind the bytes written so far the table is zero.
At(buf, k) == IF k <= Len(buf) THEN buf[k] ELSE NUL

\* How far dns_compare_name goes in a name: to its end or, in its encoded form,
\* to the first empty label behind the first label.
Compared(n) == Min({Len(n)} \cup {k \in 1 .. Len(n) - 1 : n[k] = Dot /\ n[k + 1] = Dot})

\* Mutant of dns_compare_name: names are not compared.
dns_compare_name_not(buf, response) == TRUE

\* The loop compares the bytes of the labels of the response.  Where one of them
\* ends it skips a byte of the table's name, whatever that is.  Where the
\* response ends it stops, whether the table's name ends there or not.
dns_compare_name(buf, response) ==
    \A k \in 1 .. Compared(response) : response[k] \in {Dot, At(buf, k)}

\* An answer to query q: an address record, or an error.
Answers(q) ==
    [kind : {"A"}, addr : {q.name, any}, ttl : Ttls] \cup [kind : {"error"}]

\* What an address record makes of an entry.
Completed(e, addr, ttl) == [e EXCEPT !.state = "DONE", !.addr = addr, !.ttl = ttl]

\* An answer whose id is that of an entry that waits for one.
dns_recv(q, a) ==
    LET e == dns_table[q.id]
        good == a.kind = "A" /\ dns_compare_name(e.buf, q.name)
    IN /\ e.state = "ASKING"
       /\ dns_table' = [dns_table EXCEPT ![q.id] =
              IF good THEN Completed(@, a.addr, Min({a.ttl, DNS_MAX_TTL})) ELSE Flushed(@)]
       /\ do_dns(e.found, IF good THEN a.addr ELSE none)
       /\ UNCHANGED <<net, pc, host, slot, ticked, torn>>

-----------------------------------------------------------------------------
InState(s) == {i \in Entries : dns_table[i].state = s}

Cached(n) == {i \in InState("DONE") : dns_table[i].name = n}

\* The entries the scan of dns_enqueue may end with: an unused one, or else a
\* completed one, or else the first.  Which of the unused ones depends on what the
\* timer flushes behind the scan, which of the completed ones on 8-bit sequence
\* numbers; both are left open.
Free ==
    IF InState("UNUSED") # {} THEN InState("UNUSED")
    ELSE IF InState("DONE") # {} THEN InState("DONE") ELSE {0}

\* connect(host): dns_gethostbyname up to the end of the scan.
connect_host(n) ==
    /\ pc = "idle"
    /\ host' = n
    /\ IF n = <<>> \/ n \in Dotted \/ Cached(n) # {}
       THEN /\ ip' = IF n = <<>> THEN any
                     ELSE IF n \in Dotted THEN n ELSE dns_table[Min(Cached(n))].addr
            /\ pc' = "dns_wait"
            /\ UNCHANGED slot
       ELSE /\ ip' = any
            /\ \E i \in Free :
                  /\ slot' = i
                  /\ pc' = IF dns_table[i].state = "UNUSED" THEN "unused" ELSE "oldest"
    /\ ticked' = FALSE
    /\ UNCHANGED <<dns_table, net, torn, deadWrite>>

\* A completed entry is looked at again before it is taken.  When the timer has
\* flushed it the answer is ERR_MEM, which connect() ignores: it waits.
takeEntry ==
    /\ pc \in {"unused", "oldest"}
    /\ IF pc = "oldest" /\ dns_table[slot].state # "DONE"
       THEN pc' = "dns_wait" /\ UNCHANGED dns_table
       ELSE pc' = "fill" /\ dns_table' = [dns_table EXCEPT ![slot].state = "NEW"]
    /\ UNCHANGED <<net, host, ip, slot, ticked, torn, deadWrite>>

\* Mutant of fillFound: a callback that is there stays.
fillFound_once ==
    /\ pc = "fill"
    /\ dns_table' = [dns_table EXCEPT ![slot].found = IF @ = NULL THEN "live" ELSE @]
    /\ pc' = "found"
    /\ UNCHANGED <<net, host, ip, slot, ticked, torn, deadWrite>>

fillFound ==
    /\ pc = "fill"
    /\ dns_table' = [dns_table EXCEPT ![slot].found = "live"]
    /\ pc' = "found"
    /\ UNCHANGED <<net, host, ip, slot, ticked, torn, deadWrite>>

\* The name is copied over the old one, the rest of which stays behind it.
fillName ==
    /\ pc = "found"
    /\ dns_table' = [dns_table EXCEPT
           ![slot].name = host,
           ![slot].buf = host \o <<NUL>> \o SubSeq(@, Len(host) + 2, Len(@))]
    /\ pc' = "named"
    /\ UNCHANGED <<net, host, ip, slot, ticked, torn, deadWrite>>

\* "force to send query without waiting timer": dns_check_entry again.  On a new
\* entry its assignments are steps of their own, which the interrupt may see; when
\* the timer has been there before, the call is one step.
checkNew ==
    /\ pc = "named"
    /\ IF dns_table[slot].state = "NEW"
       THEN /\ dns_table' = [dns_table EXCEPT ![slot].state = "ASKING"]
            /\ pc' = "asking"
            /\ UNCHANGED <<net, ip, deadWrite>>
       ELSE /\ CheckEntries({slot})
            /\ pc' = "dns_wait"
    /\ UNCHANGED <<host, slot, ticked, torn>>

setNumdns ==
    /\ pc = "asking"
    /\ dns_table' = [dns_table EXCEPT ![slot].numdns = 0]
    /\ pc' = "numdns"
    /\ UNCHANGED <<net, host, ip, slot, ticked, torn, deadWrite>>

setTmr ==
    /\ pc = "numdns"
    /\ dns_table' = [dns_table EXCEPT ![slot].tmr = 1]
    /\ pc' = "tmr"
    /\ UNCHANGED <<net, host, ip, slot, ticked, torn, deadWrite>>

sendNew ==
    /\ pc = "tmr"
    /\ dns_table' = [dns_table EXCEPT ![slot].retries = 0]
    /\ dns_send({Query(slot, dns_table[slot])})
    /\ pc' = "dns_wait"
    /\ UNCHANGED <<host, ip, slot, ticked, torn, deadWrite>>

\* The wait ends, and connect() goes on with the address or returns false.  A
\* callback that is still registered has no variable to write to any more.
dns_wait ==
    /\ pc = "dns_wait"
    /\ ip # any
    /\ pc' = "idle"
    /\ host' = <<>> /\ ip' = any /\ slot' = 0
    /\ dns_table' = [i \in Entries |->
           [dns_table[i] EXCEPT !.found = IF @ = "live" THEN "dead" ELSE @]]
    /\ UNCHANGED <<net, ticked, torn, deadWrite>>

Lookup ==
    \/ takeEntry \/ fillFound \/ fillName
    \/ checkNew \/ setNumdns \/ setTmr \/ sendNew
    \/ dns_wait

Sketch == Lookup \/ \E n \in Names : connect_host(n)

Interrupt == dns_tmr \/ \E q \in net : \E a \in Answers(q) : dns_recv(q, a)

Next == Sketch \/ Interrupt

Spec == Init /\ [][Next]_vars

\* The sketch goes on with its call, and the timer runs once a second.
FairSpec == Spec /\ WF_vars(Lookup) /\ WF_vars(dns_tmr)

-----------------------------------------------------------------------------
Addr == Names \cup {<<>>, any, none, flash}

Byte == 0 .. 255

Text == Seq(Chars \cup {NUL})

Entry == [
    state : {"UNUSED", "NEW", "ASKING", "DONE"}, numdns : 0 .. NumServers - 1,
    tmr : Byte, retries : Byte,
    ttl : 0 .. TtlMod - 1, found : {NULL, "live", "dead"},
    name : Names \cup {<<>>}, buf : Text, addr : Addr]

TypeOK ==
    /\ dns_table \in [Entries -> Entry]
    /\ net \subseteq [id : Entries, name : Names \cup {<<>>}]
    /\ pc \in {"idle", "unused", "oldest", "fill", "found", "named",
              "asking", "numdns", "tmr", "dns_wait"}
    /\ host \in Names \cup {<<>>}
    /\ ip \in Addr
    /\ slot \in Entries
    /\ ticked \in BOOLEAN
    /\ torn \in BOOLEAN
    /\ deadWrite \in BOOLEAN

\* What can be said of a name m that is taken for n: as far as both go they have
\* the same characters, but for separators of m; and if m goes on where n ends, it
\* does so with a separator.
Related(m, n) ==
    /\ \A k \in 1 .. Min({Compared(m), Len(n)}) : m[k] \in {Dot, n[k]}
    /\ Compared(m) > Len(n) => m[Len(n) + 1] = Dot

\* The address connect() goes on with was given for its host, by a query of its
\* own or of an earlier call, whatever answers come late or twice; or for a name
\* that dns_recv's comparison, which does not compare separators nor where the
\* names end, takes for it.  An interrupt while dns_enqueue fills the entry
\* breaks this.
AnswerForHost ==
    ip \notin {any, none, flash} /\ ~ torn => Related(ip, host)

\* do_dns writes to a variable on the stack of a connect() that still waits: a
\* completed entry keeps its callback, and must not be asked again with it.
CallbackHasCaller == deadWrite => torn

\* Between two calls no lookup is under way, so that the scan of dns_enqueue ends
\* with an entry that may be taken: else the answer would be ERR_MEM, with which
\* connect() waits for ever.  (The timer may still flush that entry before it is
\* looked at again.)
TableHasRoom == pc = "idle" => InState("UNUSED") \cup InState("DONE") = Entries

\* EthernetClient.cpp in do_dns: "lwip stack has been modified to set ipaddr to
\* IPADDR_NONE if the lookup failed".  No other value stands for a failure, also
\* when no interrupt comes in between.
FailureIsNone == ~ torn => ip # flash

\* A lookup that has its entry ends without any answer: the retries run out, on
\* every server, and the callback is called; or a server gave 0.0.0.0, which
\* the wait of connect() does not tell from no answer.
LookupEnds ==
    \A i \in Entries :
        (pc = "dns_wait" /\ ip = any /\ dns_table[i].state = "ASKING" /\ dns_table[i].found = "live")
            ~> (ip # any \/ (dns_table[i].state = "DONE" /\ dns_table[i].addr = any))

\* A cached address is given up some time, also one with a time to live of 0,
\* which wraps around.
CacheExpires ==
    \A i \in Entries : (dns_table[i].state = "DONE") ~> (dns_table[i].state # "DONE")
=============================================================================
