----------------------------- MODULE DnsProofs ------------------------------
(***************************************************************************)
(* Proofs about Dns, for a table, a number of servers and of retries of    *)
(* any size.                                                               *)
(***************************************************************************)
EXTENDS Dns, Remainders, TLAPS, WellFoundedInduction

Busy == {"NEW", "ASKING"}

\* Where the sketch is when its entry may call back to it.
Calling == {"found", "named", "asking", "numdns", "tmr", "dns_wait"}

\* The bytes of a name and the zero behind it.
Holds(buf, name) ==
    /\ Len(buf) >= Len(name)
    /\ \A k \in 1 .. Len(name) : buf[k] = name[k]
    /\ At(buf, Len(name) + 1) = NUL

\* The buffer of an entry begins with its name.
EntryInv == \A i \in Entries : Holds(dns_table[i].buf, dns_table[i].name)

\* Only the entry that connect() took is new or asked, and that until there is
\* an address; only it calls back to connect().
SlotInv ==
    /\ pc \in {"unused", "oldest"} => ip = any
    /\ \A i \in Entries :
         /\ dns_table[i].state \in Busy =>
              i = slot /\ pc \notin {"idle", "unused", "oldest"} /\ ip = any
         /\ dns_table[i].state = "NEW" => pc \in {"fill", "found", "named"}
         /\ dns_table[i].found = "live" => i = slot /\ pc \in Calling

\* What holds until the timer finds an entry half filled.
FilledInv ==
    ~ torn =>
        /\ Filling => dns_table[slot].state = "NEW"
        /\ pc = "found" => dns_table[slot].found = "live"
        /\ \A i \in Entries :
             /\ dns_table[i].state = "ASKING" => dns_table[i].found = "live"
             /\ dns_table[i].state = "NEW" /\ pc = "named" => dns_table[i].found = "live"
             /\ dns_table[i].found = "live" /\ pc # "found" => dns_table[i].name = host
             /\ dns_table[i].state = "DONE" =>
                  dns_table[i].addr = any \/ Related(dns_table[i].addr, dns_table[i].name)

IInv ==
    TypeOK /\ EntryInv /\ SlotInv /\ FilledInv /\ AnswerForHost /\ CallbackHasCaller

\* The primed invariants, the operators of which have primed arguments.
LEMMA Primes ==
    /\ (\A i \in Entries : Holds(dns_table'[i].buf, dns_table'[i].name)) => EntryInv'
    /\ (~ torn' =>
          /\ Filling' => dns_table'[slot'].state = "NEW"
          /\ pc' = "found" => dns_table'[slot'].found = "live"
          /\ \A i \in Entries :
               /\ dns_table'[i].state = "ASKING" => dns_table'[i].found = "live"
               /\ dns_table'[i].state = "NEW" /\ pc' = "named" => dns_table'[i].found = "live"
               /\ dns_table'[i].found = "live" /\ pc' # "found" => dns_table'[i].name = host'
               /\ dns_table'[i].state = "DONE" =>
                    dns_table'[i].addr = any \/ Related(dns_table'[i].addr, dns_table'[i].name))
         => FilledInv'
    /\ (ip' \notin {any, none, flash} /\ ~ torn' => Related(ip', host')) => AnswerForHost'
<1>1. (\A i \in Entries : Holds(dns_table'[i].buf, dns_table'[i].name)) => EntryInv'
  BY Zenon DEF EntryInv, Holds, At, NUL
<1>2. (~ torn' =>
          /\ Filling' => dns_table'[slot'].state = "NEW"
          /\ pc' = "found" => dns_table'[slot'].found = "live"
          /\ \A i \in Entries :
               /\ dns_table'[i].state = "ASKING" => dns_table'[i].found = "live"
               /\ dns_table'[i].state = "NEW" /\ pc' = "named" => dns_table'[i].found = "live"
               /\ dns_table'[i].found = "live" /\ pc' # "found" => dns_table'[i].name = host'
               /\ dns_table'[i].state = "DONE" =>
                    dns_table'[i].addr = any \/ Related(dns_table'[i].addr, dns_table'[i].name))
         => FilledInv'
  BY Zenon DEF FilledInv, Filling, Related, Compared, Min, Dot, any
<1>3. (ip' \notin {any, none, flash} /\ ~ torn' => Related(ip', host')) => AnswerForHost'
  BY Zenon DEF AnswerForHost, Related, Compared, Min, Dot, any, none, flash
<1> QED
  BY <1>1, <1>2, <1>3

-----------------------------------------------------------------------------
(* Names.                                                                  *)

LEMMA NameSeq ==
    ASSUME NEW n \in Names \cup {<<>>}
    PROVE  n \in Seq(Chars) /\ Len(n) \in Nat
<1>1. <<>> \in Seq(Chars)
  OBVIOUS
<1>2. n \in Seq(Chars)
  BY Zenon, <1>1, NamesAssumption
<1> QED
  BY <1>2

\* The least number of a set.
LEMMA MinEntry ==
    ASSUME NEW T, T \subseteq Nat, T # {}
    PROVE  Min(T) \in T /\ \A y \in T : Min(T) <= y
<1>1. PICK x \in T : \A y \in T : ~ (<<y, x>> \in OpToRel(<, Nat))
  BY Zenon, WFMin, NatLessThanWellFounded
<1>2. \A y \in T : ~ y < x
  BY Zenon, <1>1 DEF OpToRel
<1>3. \E z \in T : \A y \in T : z <= y
  BY <1>2
<1> QED
  BY Zenon, <1>3 DEF Min

LEMMA ComparedLen ==
    ASSUME NEW n, Len(n) \in Nat
    PROVE  Compared(n) \in Nat /\ Compared(n) <= Len(n)
<1> DEFINE T == {Len(n)} \cup {k \in 1 .. Len(n) - 1 : n[k] = Dot /\ n[k + 1] = Dot}
<1>1. T \subseteq Nat /\ Len(n) \in T
  OBVIOUS
<1>2. Compared(n) = Min(T)
  BY Zenon DEF Compared
<1> HIDE DEF T
<1>3. Min(T) \in T /\ \A y \in T : Min(T) <= y
  BY Zenon, <1>1, MinEntry
<1> QED
  BY <1>1, <1>2, <1>3

\* The lesser of two lengths.
LEMMA Lesser ==
    ASSUME NEW a \in Nat, NEW b \in Nat
    PROVE  Min({a, b}) \in Nat /\ Min({a, b}) <= a /\ Min({a, b}) <= b
<1>1. Min({a, b}) \in {a, b} /\ \A y \in {a, b} : Min({a, b}) <= y
  <2>1. {a, b} \subseteq Nat /\ {a, b} # {}
    OBVIOUS
  <2> QED
    BY Zenon, <2>1, MinEntry
<1> QED
  BY <1>1

LEMMA RelatedSelf ==
    ASSUME NEW n, Len(n) \in Nat
    PROVE  Related(n, n)
<1>1. Compared(n) \in Nat /\ Compared(n) <= Len(n)
  BY ComparedLen
<1> QED
  BY <1>1 DEF Related

\* What dns_compare_name shows of the name in the buffer.
LEMMA ComparedRelated ==
    ASSUME NEW m \in Names \cup {<<>>}, NEW n \in Names \cup {<<>>}, NEW b,
           Holds(b, n), dns_compare_name(b, m)
    PROVE  Related(m, n)
<1> DEFINE c == Compared(m)
           l == Len(n)
           s == Min({c, l})
<1>1. m \in Seq(Chars) /\ Len(m) \in Nat /\ l \in Nat
  BY NameSeq
<1>2. c \in Nat /\ c <= Len(m)
  BY <1>1, ComparedLen
<1>3. s \in Nat /\ s <= c /\ s <= l
  BY <1>1, <1>2, Lesser
<1>4. \A k \in 1 .. c : m[k] \in {Dot, At(b, k)}
  BY Zenon DEF dns_compare_name
<1>5. /\ \A k \in 1 .. l : At(b, k) = n[k]
      /\ At(b, l + 1) = NUL
  BY <1>1 DEF Holds, At
<1> HIDE DEF c, l, s
<1>6. \A k \in 1 .. s : m[k] \in {Dot, n[k]}
  <2> SUFFICES ASSUME NEW k \in 1 .. s
               PROVE  m[k] \in {Dot, n[k]}
    OBVIOUS
  <2>1. k \in 1 .. c /\ k \in 1 .. l
    BY <1>1, <1>2, <1>3
  <2> QED
    BY Zenon, <1>4, <1>5, <2>1
<1>7. ASSUME c > l
      PROVE  m[l + 1] = Dot
  <2>1. l + 1 \in 1 .. c /\ l + 1 \in 1 .. Len(m)
    BY <1>1, <1>2, <1>7
  <2>2. m[l + 1] \in Chars
    BY <1>1, <2>1
  <2>3. m[l + 1] \in {Dot, NUL}
    BY Zenon, <1>4, <1>5, <2>1
  <2> QED
    BY Zenon, <2>2, <2>3, NamesAssumption
<1> QED
  BY <1>6, <1>7 DEF Related, c, l, s

\* A name copied over what the buffer held.
LEMMA CopiedName ==
    ASSUME NEW n \in Names \cup {<<>>}, NEW b \in Text
    PROVE  /\ n \o <<NUL>> \o SubSeq(b, Len(n) + 2, Len(b)) \in Text
           /\ Holds(n \o <<NUL>> \o SubSeq(b, Len(n) + 2, Len(b)), n)
<1> DEFINE S == Chars \cup {NUL}
           u == SubSeq(b, Len(n) + 2, Len(b))
           h == n \o <<NUL>>
<1>1. n \in Seq(S) /\ Len(n) \in Nat /\ <<NUL>> \in Seq(S)
  BY NameSeq
<1>2. u \in Seq(S) /\ Len(u) \in Nat
  BY <1>1 DEF Text
<1> HIDE DEF u, S
<1>3. /\ h \in Seq(S) /\ Len(h) = Len(n) + 1
      /\ \A k \in 1 .. Len(n) : h[k] = n[k]
      /\ h[Len(n) + 1] = NUL
  BY <1>1
<1> HIDE DEF h
<1>4. h \o u \in Seq(S)
  BY <1>2, <1>3
<1>5. /\ Len(h \o u) = Len(h) + Len(u) /\ Len(h) \in Nat
      /\ \A k \in 1 .. Len(h) : (h \o u)[k] = h[k]
  <2> PICK g \in Seq(S) : g = h
    BY <1>3
  <2>1. Len(g \o u) = Len(g) + Len(u) /\ Len(g) \in Nat
    BY <1>2
  <2>2. \A k \in 1 .. Len(g) : (g \o u)[k] = g[k]
    BY <1>2, <2>1
  <2> QED
    BY <2>1, <2>2
<1>6. Holds(h \o u, n)
  BY <1>1, <1>2, <1>3, <1>5 DEF Holds, At
<1> QED
  BY <1>4, <1>6 DEF u, h, S, Text

-----------------------------------------------------------------------------
(* One entry.                                                              *)

LEMMA EmptyEntry == Empty \in Entry
<1>1. <<>> \in Text /\ 0 \in Byte
  BY DEF Text, Byte
<1> QED
  BY <1>1, DnsAssumption DEF Empty, Entry, Addr

LEMMA FlushedEffect ==
    ASSUME NEW e \in Entry
    PROVE  /\ Flushed(e) \in Entry /\ Flushed(e).state = "UNUSED"
           /\ Flushed(e).found = NULL
           /\ Flushed(e).name = e.name /\ Flushed(e).buf = e.buf
<1> DEFINE f1 == [e EXCEPT !.state = "UNUSED"]
           f2 == [f1 EXCEPT !.found = NULL]
           f3 == [f2 EXCEPT !.ttl = 0]
<1>0. Flushed(e) = [f3 EXCEPT !.addr = any]
  BY DEF Flushed
<1>n. 0 \in 0 .. TtlMod - 1 /\ any \in Addr
  BY DnsAssumption DEF Addr
<1>1. f1 \in Entry /\ f1.state = "UNUSED" /\ f1.name = e.name /\ f1.buf = e.buf
  BY DEF Entry
<1> HIDE DEF f1
<1>2. /\ f2 \in Entry /\ f2.state = "UNUSED" /\ f2.found = NULL
      /\ f2.name = e.name /\ f2.buf = e.buf
  BY <1>1 DEF Entry
<1> HIDE DEF f2
<1>3. /\ f3 \in Entry /\ f3.state = "UNUSED" /\ f3.found = NULL
      /\ f3.name = e.name /\ f3.buf = e.buf
  BY <1>n, <1>2 DEF Entry
<1> HIDE DEF f3
<1> QED
  BY <1>0, <1>n, <1>3 DEF Entry

LEMMA AgedEffect ==
    ASSUME NEW e \in Entry, e.state = "DONE"
    PROVE  /\ Aged(e) \in Entry /\ Aged(e).name = e.name /\ Aged(e).buf = e.buf
           /\ \/ Aged(e).state = "UNUSED" /\ Aged(e).found = NULL
              \/ Aged(e).state = "DONE" /\ Aged(e).found = e.found /\ Aged(e).addr = e.addr
<1> DEFINE t == (e.ttl - 1) % TtlMod
<1>1. t \in 0 .. TtlMod - 1
  <2>1. PICK a \in Int : a = e.ttl - 1
    BY DEF Entry
  <2>2. TtlMod \in Nat /\ TtlMod > 0
    BY DnsAssumption
  <2>3. a % TtlMod \in 0 .. TtlMod - 1
    BY <2>2
  <2> QED
    BY <2>1, <2>3
<1>2. Aged(e) = IF t = 0 THEN Flushed(e) ELSE [e EXCEPT !.ttl = t]
  BY DEF Aged
<1> HIDE DEF t
<1>3. CASE t = 0
  BY <1>2, <1>3, FlushedEffect
<1>4. CASE t # 0
  <2>1. Aged(e) = [e EXCEPT !.ttl = t]
    BY <1>2, <1>4
  <2> QED
    BY <1>1, <2>1 DEF Entry
<1> QED
  BY <1>3, <1>4

\* The same name; no query or callback that was not there, and a failure is
\* told of an entry that is given up.
CheckResult(e, r) ==
    /\ r.entry \in Entry /\ r.entry.name = e.name /\ r.entry.buf = e.buf
    /\ r.entry.state # "NEW"
    /\ r.entry.state = "ASKING" => e.state \in Busy /\ r.entry.found = e.found
    /\ r.entry.state = "DONE" => e.state = "DONE" /\ r.entry.addr = e.addr
    /\ r.entry.found = "live" => e.found = "live"
    /\ r.fail => e.state = "ASKING" /\ r.entry.state = "UNUSED"

\* The counters stay bytes.
LEMMA ByteSteps ==
    ASSUME NEW x \in Byte
    PROVE  Inc(x) \in Byte /\ Dec(x) \in Byte
  BY DEF Inc, Dec, Byte

LEMMA CheckEffect ==
    ASSUME NEW e \in Entry
    PROVE  CheckResult(e, dns_check_entry(e))
<1> DEFINE r == dns_check_entry(e)
<1>1. e.state \in {"UNUSED", "NEW", "ASKING", "DONE"}
  BY DEF Entry
<1>2. /\ e.tmr \in Byte /\ e.retries \in Byte
      /\ e.numdns \in 0 .. NumServers - 1
  BY DEF Entry
<1>n. /\ 0 \in 0 .. NumServers - 1 /\ 0 \in Byte
      /\ 1 \in Byte /\ DNS_MAX_RETRIES \in Byte
  BY DnsAssumption DEF Byte
<1>3. CASE e.state = "UNUSED"
  <2>1. r = Checked(e, FALSE, FALSE)
    BY <1>3 DEF dns_check_entry
  <2> HIDE DEF r
  <2>2. r.entry = e /\ r.fail = FALSE
    BY <2>1 DEF Checked
  <2>3. CheckResult(e, r)
    BY <1>3, <2>2 DEF CheckResult
  <2> QED
    BY <2>3 DEF r
<1>4. CASE e.state = "DONE"
  <2>1. r = Checked(Aged(e), FALSE, FALSE)
    BY <1>4 DEF dns_check_entry
  <2> HIDE DEF r
  <2>2. r.entry = Aged(e) /\ r.fail = FALSE
    BY <2>1 DEF Checked
  <2>3. CheckResult(e, r)
    BY <1>4, <2>2, AgedEffect, NullAssumption DEF CheckResult
  <2> QED
    BY <2>3 DEF r
<1>5. CASE e.state = "NEW"
  <2> DEFINE f == [e EXCEPT !.state = "ASKING", !.numdns = 0, !.tmr = 1, !.retries = 0]
             f1 == [e EXCEPT !.state = "ASKING"]
             f2 == [f1 EXCEPT !.numdns = 0]
             f3 == [f2 EXCEPT !.tmr = 1]
  <2>1. r = Checked(f, TRUE, FALSE)
    BY <1>5 DEF dns_check_entry
  <2> HIDE DEF r
  <2>2. r.entry = f /\ r.fail = FALSE
    BY <2>1 DEF Checked
  <2>3. f = [f3 EXCEPT !.retries = 0]
    OBVIOUS
  <2> HIDE DEF f
  <2>4. /\ f1 \in Entry /\ f1.state = "ASKING" /\ f1.name = e.name /\ f1.buf = e.buf
        /\ f1.found = e.found
    BY DEF Entry
  <2> HIDE DEF f1
  <2>5. /\ f2 \in Entry /\ f2.state = "ASKING" /\ f2.name = e.name /\ f2.buf = e.buf
        /\ f2.found = e.found
    BY <1>n, <2>4 DEF Entry
  <2> HIDE DEF f2
  <2>6. /\ f3 \in Entry /\ f3.state = "ASKING" /\ f3.name = e.name /\ f3.buf = e.buf
        /\ f3.found = e.found
    BY <1>n, <2>5 DEF Entry
  <2> HIDE DEF f3
  <2>7. /\ f \in Entry /\ f.state = "ASKING" /\ f.name = e.name /\ f.buf = e.buf
        /\ f.found = e.found
    BY <1>n, <2>3, <2>6 DEF Entry
  <2>8. CheckResult(e, r)
    BY <1>5, <2>2, <2>7 DEF CheckResult, Busy
  <2> QED
    BY <2>8 DEF r
<1>6. CASE e.state = "ASKING" /\ e.tmr # 1
  <2> DEFINE f == [e EXCEPT !.tmr = Dec(@)]
  <2>1. r = Checked(f, FALSE, FALSE)
    BY Zenon, <1>6 DEF dns_check_entry
  <2> HIDE DEF r
  <2>2. r.entry = f /\ r.fail = FALSE
    BY <2>1 DEF Checked
  <2>3. Dec(e.tmr) \in Byte
    BY <1>2, ByteSteps
  <2>4. /\ f \in Entry /\ f.state = "ASKING" /\ f.name = e.name /\ f.buf = e.buf
        /\ f.found = e.found
    BY <1>6, <2>3 DEF Entry
  <2>5. CheckResult(e, r)
    BY <1>6, <2>2, <2>4 DEF CheckResult, Busy
  <2> QED
    BY <2>5 DEF r
<1>7. CASE e.state = "ASKING" /\ e.tmr = 1 /\ Inc(e.retries) # DNS_MAX_RETRIES
  <2> DEFINE f1 == [e EXCEPT !.retries = Inc(@)]
             f == [e EXCEPT !.retries = Inc(@), !.tmr = Inc(e.retries)]
  <2>1. r = Checked(f, TRUE, FALSE)
    BY Zenon, <1>7 DEF dns_check_entry, Retry
  <2> HIDE DEF r
  <2>2. r.entry = f /\ r.fail = FALSE
    BY <2>1 DEF Checked
  <2>3. f = [f1 EXCEPT !.tmr = Inc(e.retries)]
    OBVIOUS
  <2> HIDE DEF f
  <2>4. Inc(e.retries) \in Byte
    BY <1>2, ByteSteps
  <2>5. /\ f1 \in Entry /\ f1.state = "ASKING" /\ f1.name = e.name /\ f1.buf = e.buf
        /\ f1.found = e.found
    BY <1>7, <2>4 DEF Entry
  <2> HIDE DEF f1
  <2>6. /\ f \in Entry /\ f.state = "ASKING" /\ f.name = e.name /\ f.buf = e.buf
        /\ f.found = e.found
    BY <2>3, <2>4, <2>5 DEF Entry
  <2>7. CheckResult(e, r)
    BY <1>7, <2>2, <2>6 DEF CheckResult, Busy
  <2> QED
    BY <2>7 DEF r
<1>8. CASE e.state = "ASKING" /\ e.tmr = 1 /\ Inc(e.retries) = DNS_MAX_RETRIES
  <2>1. CASE e.numdns + 1 < NumServers
    <3> DEFINE f1 == [e EXCEPT !.numdns = @ + 1]
               f == [e EXCEPT !.numdns = @ + 1, !.retries = 0]
    <3>1. r = Checked(f, FALSE, FALSE)
      BY Zenon, <1>8, <2>1 DEF dns_check_entry
    <3> HIDE DEF r
    <3>2. r.entry = f /\ r.fail = FALSE
      BY <3>1 DEF Checked
    <3>3. f = [f1 EXCEPT !.retries = 0]
      OBVIOUS
    <3> HIDE DEF f
    <3>4. e.numdns + 1 \in 0 .. NumServers - 1
      BY <1>2, <2>1, DnsAssumption
    <3>5. /\ f1 \in Entry /\ f1.state = "ASKING" /\ f1.name = e.name /\ f1.buf = e.buf
          /\ f1.found = e.found
      BY <1>8, <3>4 DEF Entry
    <3> HIDE DEF f1
    <3>6. /\ f \in Entry /\ f.state = "ASKING" /\ f.name = e.name /\ f.buf = e.buf
          /\ f.found = e.found
      BY <1>n, <3>3, <3>5 DEF Entry
    <3>7. CheckResult(e, r)
      BY <1>8, <3>2, <3>6 DEF CheckResult, Busy
    <3> QED
      BY <3>7 DEF r
  <2>2. CASE ~ e.numdns + 1 < NumServers
    <3> DEFINE g == Flushed(e)
               f1 == [g EXCEPT !.tmr = 0]
               f == [g EXCEPT !.tmr = 0, !.retries = DNS_MAX_RETRIES]
    <3>1. r = Checked(f, FALSE, e.found # NULL)
      BY Zenon, <1>8, <2>2 DEF dns_check_entry, TimedOut
    <3> HIDE DEF r
    <3>2. r.entry = f
      BY <3>1 DEF Checked
    <3>3. f = [f1 EXCEPT !.retries = DNS_MAX_RETRIES]
      OBVIOUS
    <3>4. /\ g \in Entry /\ g.state = "UNUSED" /\ g.found = NULL
          /\ g.name = e.name /\ g.buf = e.buf
      BY FlushedEffect
    <3> HIDE DEF f, g
    <3>5. /\ f1 \in Entry /\ f1.state = "UNUSED" /\ f1.found = NULL
          /\ f1.name = e.name /\ f1.buf = e.buf
      BY <1>n, <3>4 DEF Entry
    <3> HIDE DEF f1
    <3>6. /\ f \in Entry /\ f.state = "UNUSED" /\ f.found = NULL
          /\ f.name = e.name /\ f.buf = e.buf
      BY <1>n, <3>3, <3>5 DEF Entry
    <3>7. CheckResult(e, r)
      BY <1>8, <3>2, <3>6, NullAssumption DEF CheckResult
    <3> QED
      BY <3>7 DEF r
  <2> QED
    BY <2>1, <2>2
<1> QED
  BY <1>1, <1>3, <1>4, <1>5, <1>6, <1>7, <1>8

-----------------------------------------------------------------------------
(* dns_check_entry over the table.                                         *)

LEMMA CheckTable ==
    ASSUME IInv, NEW I, I \subseteq Entries, CheckEntries(I)
    PROVE  /\ dns_table' \in [Entries -> Entry]
           /\ net' \subseteq [id : Entries, name : Names \cup {<<>>}]
           /\ \A i \in Entries :
                /\ dns_table'[i].name = dns_table[i].name
                /\ dns_table'[i].buf = dns_table[i].buf
                /\ dns_table'[i].state = "NEW" => dns_table'[i] = dns_table[i] /\ i \notin I
                /\ dns_table'[i].state = "ASKING" =>
                     /\ dns_table[i].state \in Busy
                     /\ dns_table'[i].found = dns_table[i].found
                /\ dns_table'[i].state = "DONE" =>
                     dns_table[i].state = "DONE" /\ dns_table'[i].addr = dns_table[i].addr
                /\ dns_table'[i].found = "live" => dns_table[i].found = "live"
           /\ \/ ip' = ip
              \/ ip' = flash /\ pc \in Calling /\ \A i \in Entries : dns_table'[i].state \notin Busy
           /\ deadWrite' \in BOOLEAN /\ (~ torn => deadWrite' = deadWrite)
<1> DEFINE r == [i \in I |-> dns_check_entry(dns_table[i])]
           failed == {i \in I : r[i].fail}
           caller == IF \E i \in failed : dns_table[i].found = "live" THEN "live"
                     ELSE IF failed # {} THEN "dead" ELSE NULL
<1>1. dns_table \in [Entries -> Entry] /\ deadWrite \in BOOLEAN
  BY DEF IInv, TypeOK
<1>2. /\ dns_table' = [i \in Entries |-> IF i \in I THEN r[i].entry ELSE dns_table[i]]
      /\ \/ net' = net \cup {Query(i, r[i].entry) : i \in {j \in I : r[j].send}}
         \/ net' = net
      /\ ip' = IF caller = "live" THEN flash ELSE ip
      /\ deadWrite' = (deadWrite \/ caller = "dead")
  BY Zenon DEF CheckEntries, dns_send, do_dns
<1>3. \A i \in I : CheckResult(dns_table[i], r[i])
  BY <1>1, CheckEffect
<1> HIDE DEF r
<1>4. \A i \in Entries : dns_table'[i] = IF i \in I THEN r[i].entry ELSE dns_table[i]
  BY <1>2
<1>5. \A i \in I : r[i].entry \in Entry /\ r[i].entry.name \in Names \cup {<<>>}
  BY <1>3 DEF CheckResult, Entry
<1>6. dns_table' \in [Entries -> Entry]
  BY <1>1, <1>2, <1>5
<1>7. net' \subseteq [id : Entries, name : Names \cup {<<>>}]
  <2>1. net \subseteq [id : Entries, name : Names \cup {<<>>}]
    BY DEF IInv, TypeOK
  <2>2. \A i \in I : Query(i, r[i].entry) \in [id : Entries, name : Names \cup {<<>>}]
    BY <1>5 DEF Query
  <2> QED
    BY <1>2, <2>1, <2>2
<1>8. ASSUME NEW i \in Entries
      PROVE  /\ dns_table'[i].name = dns_table[i].name
             /\ dns_table'[i].buf = dns_table[i].buf
             /\ dns_table'[i].state = "NEW" => dns_table'[i] = dns_table[i] /\ i \notin I
             /\ dns_table'[i].state = "ASKING" =>
                  /\ dns_table[i].state \in Busy
                  /\ dns_table'[i].found = dns_table[i].found
             /\ dns_table'[i].state = "DONE" =>
                  dns_table[i].state = "DONE" /\ dns_table'[i].addr = dns_table[i].addr
             /\ dns_table'[i].found = "live" => dns_table[i].found = "live"
  <2>1. CASE i \in I
    BY <1>3, <1>4, <2>1 DEF CheckResult
  <2>2. CASE i \notin I
    BY <1>4, <2>2 DEF Busy
  <2> QED
    BY <2>1, <2>2
<1>9. \A i \in failed : i \in I /\ i \in Entries /\ dns_table[i].state = "ASKING"
                      /\ dns_table'[i].state = "UNUSED"
  BY <1>3, <1>4 DEF CheckResult
<1> HIDE DEF failed
<1>10. ip' = ip \/ (ip' = flash /\ pc \in Calling /\ \A i \in Entries : dns_table'[i].state \notin Busy)
  <2>1. CASE \E i \in failed : dns_table[i].found = "live"
    <3>1. PICK i \in failed : dns_table[i].found = "live"
      BY <2>1
    <3>2. i = slot /\ pc \in Calling /\ dns_table'[i].state = "UNUSED"
      BY <1>9, <3>1 DEF IInv, SlotInv
    <3>3. ASSUME NEW j \in Entries, dns_table'[j].state \in Busy
          PROVE  FALSE
      <4>1. dns_table[j].state \in Busy
        BY <1>8, <3>3 DEF Busy
      <4>2. j = slot
        BY <4>1 DEF IInv, SlotInv
      <4> QED
        BY <3>2, <3>3, <4>2 DEF Busy
    <3> QED
      BY <1>2, <2>1, <3>2, <3>3
  <2>2. CASE ~ \E i \in failed : dns_table[i].found = "live"
    <3>1. caller # "live"
      BY <2>2, NullAssumption
    <3> QED
      BY <1>2, <3>1
  <2> QED
    BY <2>1, <2>2
<1>11. deadWrite' \in BOOLEAN /\ (~ torn => deadWrite' = deadWrite)
  <2>1. ASSUME ~ torn
        PROVE  caller # "dead"
    <3>1. \A i \in failed : dns_table[i].found = "live"
      BY <1>9, <2>1 DEF IInv, FilledInv
    <3> QED
      BY <3>1, NullAssumption
  <2> QED
    BY <1>1, <1>2, <2>1
<1> QED
  BY <1>6, <1>7, <1>8, <1>10, <1>11

\* The entries after dns_check_entry, when none of them is new any more and
\* the entry of connect() was filled, or else the timer has come too early.
LEMMA CheckKeeps ==
    ASSUME IInv, NEW I, I \subseteq Entries, CheckEntries(I),
           UNCHANGED <<host, slot>>, pc' = pc \/ (pc = "named" /\ pc' = "dns_wait"),
           ticked' \in BOOLEAN, torn' \in BOOLEAN, ~ torn' => ~ torn /\ ~ Filling,
           \A i \in Entries : dns_table[i].state = "NEW" => i \in I
    PROVE  IInv'
<1> USE DEF IInv
<1>1. /\ dns_table' \in [Entries -> Entry]
      /\ net' \subseteq [id : Entries, name : Names \cup {<<>>}]
      /\ \A i \in Entries :
           /\ dns_table'[i].name = dns_table[i].name
           /\ dns_table'[i].buf = dns_table[i].buf
           /\ dns_table'[i].state = "NEW" => dns_table'[i] = dns_table[i] /\ i \notin I
           /\ dns_table'[i].state = "ASKING" =>
                /\ dns_table[i].state \in Busy
                /\ dns_table'[i].found = dns_table[i].found
           /\ dns_table'[i].state = "DONE" =>
                dns_table[i].state = "DONE" /\ dns_table'[i].addr = dns_table[i].addr
           /\ dns_table'[i].found = "live" => dns_table[i].found = "live"
      /\ \/ ip' = ip
         \/ ip' = flash /\ pc \in Calling /\ \A i \in Entries : dns_table'[i].state \notin Busy
      /\ deadWrite' \in BOOLEAN /\ (~ torn => deadWrite' = deadWrite)
  BY CheckTable
<1>n. \A i \in Entries : dns_table'[i].state # "NEW"
  BY <1>1
<1>2. TypeOK'
  <2>1. ip' \in Addr
    BY <1>1 DEF TypeOK, Addr
  <2> QED
    BY <1>1, <2>1 DEF TypeOK
<1>3. EntryInv'
  BY <1>1, Primes DEF EntryInv
<1>4. SlotInv'
  BY <1>1, <1>n DEF SlotInv, Busy, Calling
<1>5. FilledInv'
  <2> SUFFICES ASSUME ~ torn'
               PROVE  FilledInv'
    BY DEF FilledInv
  <2>1. ~ torn /\ pc \notin {"fill", "found"} /\ pc' \notin {"fill", "found"} /\ ~ Filling'
    BY DEF Filling
  <2>2. ASSUME NEW i \in Entries
        PROVE  /\ dns_table'[i].state = "ASKING" => dns_table'[i].found = "live"
               /\ dns_table'[i].found = "live" => dns_table'[i].name = host'
               /\ dns_table'[i].state = "DONE" =>
                    dns_table'[i].addr = any \/ Related(dns_table'[i].addr, dns_table'[i].name)
    <3>1. dns_table[i].state \in Busy => dns_table[i].found = "live"
      BY <2>1 DEF FilledInv, SlotInv, Busy
    <3>2. dns_table[i].found = "live" => dns_table[i].name = host
      BY <2>1 DEF FilledInv
    <3>3. dns_table[i].state = "DONE" =>
            dns_table[i].addr = any \/ Related(dns_table[i].addr, dns_table[i].name)
      BY <2>1 DEF FilledInv
    <3> QED
      BY <1>1, <3>1, <3>2, <3>3
  <2> QED
    BY <1>n, <2>1, <2>2, Primes
<1>6. AnswerForHost'
  BY <1>1, Primes DEF AnswerForHost
<1>7. CallbackHasCaller'
  BY <1>1 DEF CallbackHasCaller
<1> QED
  BY <1>2, <1>3, <1>4, <1>5, <1>6, <1>7

LEMMA TmrStep ==
    ASSUME IInv, dns_tmr
    PROVE  IInv'
<1>1. /\ CheckEntries(Entries) /\ UNCHANGED <<pc, host, slot>>
      /\ ticked' = Enqueuing /\ torn' = (torn \/ Filling)
  BY DEF dns_tmr
<1>2. ticked' \in BOOLEAN /\ torn' \in BOOLEAN /\ (~ torn' => ~ torn /\ ~ Filling)
  <2>1. torn \in BOOLEAN
    BY DEF IInv, TypeOK
  <2> QED
    BY Zenon, <1>1, <2>1 DEF Enqueuing, Filling
<1> QED
  BY <1>1, <1>2, CheckKeeps

LEMMA CheckAgain ==
    ASSUME IInv, pc = "named", dns_table[slot].state # "NEW", CheckEntries({slot}),
           pc' = "dns_wait", UNCHANGED <<host, slot, ticked, torn>>
    PROVE  IInv'
<1>1. /\ {slot} \subseteq Entries /\ ticked' \in BOOLEAN /\ torn' \in BOOLEAN
      /\ ~ torn' => ~ torn /\ ~ Filling
  BY DEF IInv, TypeOK, Filling
<1>2. \A i \in Entries : dns_table[i].state = "NEW" => i \in {slot}
  BY DEF IInv, SlotInv, Busy
<1> QED
  BY <1>1, <1>2, CheckKeeps

-----------------------------------------------------------------------------
(* An answer.                                                              *)

\* A completed entry: the address and the time to live, the rest as it was.
LEMMA CompletedEffect ==
    ASSUME NEW e \in Entry, NEW a \in Addr, NEW t \in 0 .. TtlMod - 1
    PROVE  /\ Completed(e, a, t) \in Entry /\ Completed(e, a, t).state = "DONE"
           /\ Completed(e, a, t).addr = a /\ Completed(e, a, t).found = e.found
           /\ Completed(e, a, t).name = e.name /\ Completed(e, a, t).buf = e.buf
<1> DEFINE f1 == [e EXCEPT !.state = "DONE"]
           f2 == [f1 EXCEPT !.addr = a]
<1>0. Completed(e, a, t) = [f2 EXCEPT !.ttl = t]
  BY DEF Completed
<1>1. /\ f1 \in Entry /\ f1.state = "DONE"
      /\ f1.found = e.found /\ f1.name = e.name /\ f1.buf = e.buf
  BY DEF Entry
<1> HIDE DEF f1
<1>2. /\ f2 \in Entry /\ f2.state = "DONE" /\ f2.addr = a
      /\ f2.found = e.found /\ f2.name = e.name /\ f2.buf = e.buf
  BY <1>1 DEF Entry
<1> HIDE DEF f2
<1> QED
  BY <1>0, <1>2 DEF Entry

LEMMA RecvStep ==
    ASSUME IInv, NEW q \in net, NEW a \in Answers(q), dns_recv(q, a)
    PROVE  IInv'
<1> DEFINE e == dns_table[q.id]
           f == dns_table'[q.id]
           good == a.kind = "A" /\ dns_compare_name(e.buf, q.name)
           t == Min({a.ttl, DNS_MAX_TTL})
<1>1. /\ e.state = "ASKING" /\ UNCHANGED <<net, pc, host, slot, ticked, torn>>
      /\ dns_table' = [dns_table EXCEPT ![q.id] =
              IF good THEN Completed(@, a.addr, t) ELSE Flushed(@)]
      /\ ip' = IF e.found = "live" THEN (IF good THEN a.addr ELSE none) ELSE ip
      /\ deadWrite' = (deadWrite \/ e.found = "dead")
  BY DEF dns_recv, do_dns
<1>2. /\ q.id \in Entries /\ q.name \in Names \cup {<<>>}
      /\ dns_table \in [Entries -> Entry] /\ e \in Entry
  BY DEF IInv, TypeOK
<1>3. a.kind = "A" => a.addr \in {q.name, any} /\ a.ttl \in 0 .. TtlMod - 1
  BY Zenon, DnsAssumption DEF Answers
<1>4. a.kind = "A" => t \in 0 .. TtlMod - 1
  <2> SUFFICES ASSUME a.kind = "A"
               PROVE  t \in 0 .. TtlMod - 1
    OBVIOUS
  <2>1. PICK l \in 0 .. TtlMod - 1 : l = a.ttl
    BY <1>3
  <2>2. {l, DNS_MAX_TTL} \subseteq Nat /\ {l, DNS_MAX_TTL} # {}
    BY DnsAssumption
  <2>3. t \in {l, DNS_MAX_TTL}
    BY <2>1, <2>2, MinEntry
  <2> QED
    BY <2>3, DnsAssumption
<1> HIDE DEF t
<1>5. \A i \in Entries \ {q.id} : dns_table'[i] = dns_table[i]
  BY <1>1, <1>2
<1>6. good => Related(q.name, e.name)
  <2> SUFFICES ASSUME good
               PROVE  Related(q.name, e.name)
    OBVIOUS
  <2>1. Holds(e.buf, e.name) /\ dns_compare_name(e.buf, q.name)
    BY <1>2 DEF IInv, EntryInv
  <2>2. e.name \in Names \cup {<<>>}
    BY <1>2 DEF Entry
  <2> QED
    BY Zenon, <1>2, <2>1, <2>2, ComparedRelated
<1>7. /\ f \in Entry /\ f.name = e.name /\ f.buf = e.buf
      /\ f.found = "live" => e.found = "live"
      /\ \/ f.state = "UNUSED"
         \/ f.state = "DONE" /\ (f.addr = any \/ Related(f.addr, e.name))
  <2>1. CASE good
    <3>1. f = Completed(e, a.addr, t)
      BY <1>1, <1>2, <2>1
    <3>2. a.addr \in {q.name, any} /\ a.addr \in Addr /\ t \in 0 .. TtlMod - 1
      BY <1>2, <1>3, <1>4, <2>1 DEF Addr
    <3> HIDE DEF good, e, f
    <3>3. /\ f \in Entry /\ f.state = "DONE" /\ f.addr = a.addr
          /\ f.found = e.found /\ f.name = e.name /\ f.buf = e.buf
      BY <1>2, <3>1, <3>2, CompletedEffect
    <3> QED
      BY <1>6, <2>1, <3>2, <3>3
  <2>2. CASE ~ good
    <3>1. f = Flushed(e)
      BY <1>1, <1>2, <2>2
    <3> HIDE DEF e, f, good
    <3> QED
      BY <1>2, <3>1, FlushedEffect, NullAssumption
  <2> QED
    BY <2>1, <2>2
<1>8. \/ ip' = ip
      \/ e.found = "live" /\ ip' \in {any, none}
      \/ e.found = "live" /\ ip' = q.name /\ Related(ip', e.name)
  BY <1>1, <1>3, <1>6
<1> HIDE DEF good
<1>9. q.id = slot /\ pc \notin {"idle", "unused", "oldest"} /\ ip = any
  BY <1>1, <1>2 DEF IInv, SlotInv, Busy
<1>10. \A i \in Entries \ {q.id} : dns_table[i].state \notin Busy
  BY <1>9 DEF IInv, SlotInv
<1>11. \A i \in Entries : dns_table'[i].state \notin Busy
  BY <1>5, <1>7, <1>10 DEF Busy
<1>12. ~ torn => ~ Filling /\ pc # "found" /\ e.found = "live" /\ e.name = host
  <2> SUFFICES ASSUME ~ torn
               PROVE  ~ Filling /\ pc # "found" /\ e.found = "live" /\ e.name = host
    OBVIOUS
  <2>1. ~ Filling
    BY <1>1, <1>9 DEF IInv, FilledInv
  <2>2. pc # "found"
    BY <2>1 DEF Filling
  <2>3. e.found = "live"
    BY <1>1, <1>2 DEF IInv, FilledInv
  <2> QED
    BY <1>2, <2>1, <2>2, <2>3 DEF IInv, FilledInv
<1>13. TypeOK'
  <2>1. dns_table' \in [Entries -> Entry]
    BY <1>1, <1>2, <1>7
  <2>2. ip' \in Addr
    BY <1>2, <1>8 DEF IInv, TypeOK, Addr
  <2>3. deadWrite' \in BOOLEAN
    BY <1>1 DEF IInv, TypeOK
  <2> QED
    BY <1>1, <2>1, <2>2, <2>3 DEF IInv, TypeOK
<1>14. EntryInv'
  <2>1. \A i \in Entries : dns_table'[i].name = dns_table[i].name
                         /\ dns_table'[i].buf = dns_table[i].buf
    BY <1>5, <1>7
  <2> QED
    BY <2>1, Primes DEF IInv, EntryInv
<1>15. SlotInv'
  <2>1. \A i \in Entries : dns_table'[i].found = "live" => dns_table[i].found = "live"
    BY <1>5, <1>7
  <2> QED
    BY <1>1, <1>9, <1>11, <2>1 DEF IInv, SlotInv, Busy
<1>16. FilledInv'
  <2> SUFFICES ASSUME ~ torn'
               PROVE  FilledInv'
    BY DEF FilledInv
  <2>1. ~ torn /\ ~ Filling' /\ pc' # "found"
    BY <1>1, <1>12 DEF Filling
  <2>2. ASSUME NEW i \in Entries
        PROVE  /\ dns_table'[i].found = "live" => dns_table'[i].name = host'
               /\ dns_table'[i].state = "DONE" =>
                    dns_table'[i].addr = any \/ Related(dns_table'[i].addr, dns_table'[i].name)
    <3>1. CASE i = q.id
      BY <1>1, <1>7, <1>12, <2>1, <3>1
    <3>2. CASE i # q.id
      BY <1>1, <1>5, <1>12, <2>1, <3>2 DEF IInv, FilledInv
    <3> QED
      BY <3>1, <3>2
  <2> QED
    BY <1>11, <2>1, <2>2, Primes DEF Busy
<1>17. AnswerForHost'
  <2>1. ~ torn => ip' \in {any, none} \/ Related(ip', host')
    BY <1>1, <1>8, <1>9, <1>12
  <2> QED
    BY <1>1, <2>1, Primes
<1>18. CallbackHasCaller'
  BY ZenonT(60), <1>1, <1>12 DEF IInv, CallbackHasCaller
<1> QED
  BY <1>13, <1>14, <1>15, <1>16, <1>17, <1>18 DEF IInv

-----------------------------------------------------------------------------
(* connect().                                                              *)

\* While no lookup is under way.
LEMMA IdleTable ==
    ASSUME IInv, pc \in {"idle", "unused", "oldest"}, NEW i \in Entries
    PROVE  /\ dns_table[i].state \in {"UNUSED", "DONE"} /\ dns_table[i].found # "live"
           /\ dns_table[i] \in Entry
<1>1. dns_table[i] \in Entry
  BY DEF IInv, TypeOK
<1>2. dns_table[i].state \in {"UNUSED", "NEW", "ASKING", "DONE"}
  BY <1>1 DEF Entry
<1> QED
  BY <1>1, <1>2 DEF IInv, SlotInv, Busy, Calling

\* A step that leaves the table as it is, while no lookup is under way.
LEMMA IdleKeeps ==
    ASSUME IInv, pc \in {"idle", "unused", "oldest"},
           pc' \in {"unused", "oldest", "dns_wait"}, UNCHANGED <<dns_table, net, torn, deadWrite>>,
           host' \in Names \cup {<<>>}, slot' \in Entries, ticked' \in BOOLEAN, ip' \in Addr,
           pc' \in {"unused", "oldest"} => ip' = any,
           ~ torn => ip' = any \/ Related(ip', host')
    PROVE  IInv'
<1>1. TypeOK'
  BY DEF IInv, TypeOK
<1>2. EntryInv'
  BY Primes DEF IInv, EntryInv
<1>3. \A i \in Entries : dns_table'[i].state \in {"UNUSED", "DONE"} /\ dns_table'[i].found # "live"
  BY IdleTable
<1>4. SlotInv'
  BY <1>3 DEF SlotInv, Busy
<1>5. FilledInv'
  <2> SUFFICES ASSUME ~ torn
               PROVE  FilledInv'
    BY DEF FilledInv
  <2>1. \A i \in Entries : dns_table'[i].state = "DONE" =>
          dns_table'[i].addr = any \/ Related(dns_table'[i].addr, dns_table'[i].name)
    BY DEF IInv, FilledInv
  <2>2. ~ Filling' /\ pc' # "found"
    BY DEF Filling
  <2> QED
    BY <1>3, <2>1, <2>2, Primes
<1>6. AnswerForHost'
  BY Primes
<1>7. CallbackHasCaller'
  BY DEF IInv, CallbackHasCaller
<1> QED
  BY <1>1, <1>2, <1>4, <1>5, <1>6, <1>7 DEF IInv

LEMMA ConnectKnown ==
    ASSUME IInv, pc = "idle", NEW n \in Names, host' = n, pc' = "dns_wait",
           ticked' = FALSE,
           UNCHANGED <<dns_table, slot, net, torn, deadWrite>>,
           n = <<>> \/ n \in Dotted \/ Cached(n) # {},
           ip' = IF n = <<>> THEN any
                 ELSE IF n \in Dotted THEN n ELSE dns_table[Min(Cached(n))].addr
    PROVE  IInv'
<1>1. Cached(n) # {} => /\ Min(Cached(n)) \in Entries
                        /\ dns_table[Min(Cached(n))].state = "DONE"
                        /\ dns_table[Min(Cached(n))].name = n
                        /\ dns_table[Min(Cached(n))].addr \in Addr
  <2> SUFFICES ASSUME Cached(n) # {}
               PROVE  /\ Min(Cached(n)) \in Entries
                      /\ dns_table[Min(Cached(n))].state = "DONE"
                      /\ dns_table[Min(Cached(n))].name = n
                      /\ dns_table[Min(Cached(n))].addr \in Addr
    OBVIOUS
  <2>1. Cached(n) \subseteq Nat
    BY DnsAssumption DEF Cached, InState, Entries
  <2>2. PICK c \in Cached(n) : c = Min(Cached(n))
    BY <2>1, MinEntry
  <2>3. c \in Entries /\ dns_table[c].state = "DONE" /\ dns_table[c].name = n
    BY DEF Cached, InState
  <2>4. dns_table[c] \in Entry
    BY <2>3 DEF IInv, TypeOK
  <2> QED
    BY <2>2, <2>3, <2>4 DEF Entry
<1>2. /\ ip' \in Addr
      /\ ~ torn => ip' = any \/ Related(ip', n)
  <2>1. CASE n = <<>>
    BY <2>1 DEF Addr
  <2>2. CASE n # <<>> /\ n \in Dotted
    <3>1. Len(n) \in Nat
      BY NameSeq
    <3> QED
      BY <2>2, <3>1, RelatedSelf DEF Addr
  <2>3. CASE n # <<>> /\ n \notin Dotted
    BY <1>1, <2>3 DEF IInv, FilledInv
  <2> QED
    BY <2>1, <2>2, <2>3
<1>3. slot' \in Entries
  BY DEF IInv, TypeOK
<1> QED
  BY <1>2, <1>3, IdleKeeps

\* The entry the scan ends with.
LEMMA FreeEntries == Free \subseteq Entries
<1>1. 0 \in Entries
  BY DnsAssumption DEF Entries
<1> QED
  BY <1>1 DEF Free, InState

LEMMA ConnectStep ==
    ASSUME IInv, NEW n \in Names, connect_host(n)
    PROVE  IInv'
<1>1. pc = "idle" /\ host' = n /\ ticked' = FALSE /\ UNCHANGED <<dns_table, net, torn, deadWrite>>
  BY DEF connect_host
<1>2. CASE n = <<>> \/ n \in Dotted \/ Cached(n) # {}
  <2>1. /\ ip' = IF n = <<>> THEN any
                 ELSE IF n \in Dotted THEN n ELSE dns_table[Min(Cached(n))].addr
        /\ pc' = "dns_wait" /\ UNCHANGED slot
    BY <1>2 DEF connect_host
  <2> QED
    BY <1>1, <1>2, <2>1, ConnectKnown
<1>3. CASE ~ (n = <<>> \/ n \in Dotted \/ Cached(n) # {})
  <2>1. PICK i \in Free : /\ slot' = i /\ ip' = any
                          /\ pc' = IF dns_table[i].state = "UNUSED" THEN "unused" ELSE "oldest"
    BY <1>3 DEF connect_host
  <2>2. slot' \in Entries /\ pc' \in {"unused", "oldest"} /\ ip' \in Addr
    BY <2>1, FreeEntries DEF Addr
  <2> QED
    BY <1>1, <2>1, <2>2, IdleKeeps
<1> QED
  BY <1>2, <1>3

LEMMA TakeStep ==
    ASSUME IInv, takeEntry
    PROVE  IInv'
<1> DEFINE e == dns_table[slot]
           f == dns_table'[slot]
<1>1. pc \in {"unused", "oldest"} /\ UNCHANGED <<net, host, ip, slot, ticked, torn, deadWrite>>
  BY DEF takeEntry
<1>2. /\ dns_table \in [Entries -> Entry] /\ slot \in Entries /\ e \in Entry
      /\ ip = any
  BY <1>1 DEF IInv, TypeOK, SlotInv
<1>3. CASE pc = "oldest" /\ e.state # "DONE"
  <2>1. pc' = "dns_wait" /\ UNCHANGED dns_table
    BY <1>3 DEF takeEntry
  <2>2. host' \in Names \cup {<<>>} /\ slot' \in Entries /\ ticked' \in BOOLEAN /\ ip' \in Addr
    BY <1>1 DEF IInv, TypeOK
  <2> QED
    BY <1>1, <1>2, <2>1, <2>2, IdleKeeps
<1>4. CASE ~ (pc = "oldest" /\ e.state # "DONE")
  <2>1. pc' = "fill" /\ dns_table' = [dns_table EXCEPT ![slot].state = "NEW"]
    BY <1>4 DEF takeEntry
  <2>2. /\ f = [e EXCEPT !.state = "NEW"]
        /\ \A j \in Entries \ {slot} : dns_table'[j] = dns_table[j]
    BY <1>2, <2>1
  <2>3. /\ f \in Entry /\ f.state = "NEW" /\ f.found = e.found
        /\ f.name = e.name /\ f.buf = e.buf
    <3> HIDE DEF e, f
    <3> QED
      BY Zenon, <1>2, <2>2 DEF Entry
  <2>4. \A j \in Entries : /\ dns_table'[j].found = dns_table[j].found
                          /\ dns_table'[j].name = dns_table[j].name
                          /\ dns_table'[j].buf = dns_table[j].buf
    BY <2>2, <2>3
  <2>5. TypeOK'
    <3>1. dns_table' \in [Entries -> Entry]
      BY <1>2, <2>1, <2>3
    <3> QED
      BY <1>1, <2>1, <3>1 DEF IInv, TypeOK
  <2>6. EntryInv'
    BY <2>4, Primes DEF IInv, EntryInv
  <2>7. \A j \in Entries \ {slot} : dns_table'[j].state \in {"UNUSED", "DONE"}
    BY <1>1, <2>2, IdleTable
  <2>8. \A j \in Entries : dns_table'[j].found # "live"
    BY <1>1, <2>4, IdleTable
  <2>9. SlotInv'
    BY <1>1, <1>2, <2>1, <2>7, <2>8 DEF SlotInv, Busy
  <2>10. FilledInv'
    <3> SUFFICES ASSUME ~ torn
                 PROVE  FilledInv'
      BY <1>1 DEF FilledInv
    <3>1. \A j \in Entries : dns_table[j].state = "DONE" =>
            dns_table[j].addr = any \/ Related(dns_table[j].addr, dns_table[j].name)
      BY DEF IInv, FilledInv
    <3>2. \A j \in Entries : dns_table'[j].state = "DONE" =>
            dns_table'[j].addr = any \/ Related(dns_table'[j].addr, dns_table'[j].name)
      BY <2>2, <2>3, <3>1
    <3> QED
      BY <1>1, <2>1, <2>3, <2>7, <2>8, <3>2, Primes
  <2>11. AnswerForHost'
    BY <1>1, <1>2, Primes
  <2>12. CallbackHasCaller'
    BY <1>1 DEF IInv, CallbackHasCaller
  <2> QED
    BY <2>5, <2>6, <2>9, <2>10, <2>11, <2>12 DEF IInv
<1> QED
  BY <1>3, <1>4

LEMMA FoundStep ==
    ASSUME IInv, fillFound
    PROVE  IInv'
<1> DEFINE e == dns_table[slot]
           f == dns_table'[slot]
<1>1. /\ pc = "fill" /\ pc' = "found" /\ UNCHANGED <<net, host, ip, slot, ticked, torn, deadWrite>>
      /\ dns_table' = [dns_table EXCEPT ![slot].found = "live"]
  BY DEF fillFound
<1>2. dns_table \in [Entries -> Entry] /\ slot \in Entries /\ e \in Entry
  BY DEF IInv, TypeOK
<1>3. /\ f = [e EXCEPT !.found = "live"]
      /\ \A j \in Entries \ {slot} : dns_table'[j] = dns_table[j]
  BY <1>1, <1>2
<1>4. /\ f \in Entry /\ f.found = "live" /\ f.state = e.state /\ f.name = e.name
      /\ f.buf = e.buf /\ f.addr = e.addr
  <2> HIDE DEF e, f
  <2> QED
    BY Zenon, <1>2, <1>3 DEF Entry
<1>5. \A j \in Entries : /\ dns_table'[j].state = dns_table[j].state
                        /\ dns_table'[j].name = dns_table[j].name
                        /\ dns_table'[j].buf = dns_table[j].buf
                        /\ dns_table'[j].addr = dns_table[j].addr
  BY ZenonT(60), <1>3, <1>4
<1>6. TypeOK'
  <2>1. dns_table' \in [Entries -> Entry]
    BY <1>1, <1>2, <1>4
  <2> QED
    BY <1>1, <2>1 DEF IInv, TypeOK
<1>7. EntryInv'
  BY <1>5, Primes DEF IInv, EntryInv
<1>8. \A j \in Entries \ {slot} : dns_table'[j].found # "live" /\ dns_table'[j].state \notin Busy
  BY <1>1, <1>3 DEF IInv, SlotInv
<1>9. SlotInv'
  BY <1>1, <1>5, <1>8 DEF IInv, SlotInv, Busy, Calling
<1>10. FilledInv'
  <2> SUFFICES ASSUME ~ torn
               PROVE  FilledInv'
    BY <1>1 DEF FilledInv
  <2>1. e.state = "NEW"
    BY <1>1 DEF IInv, FilledInv, Filling
  <2>2. \A j \in Entries : dns_table'[j].state = "DONE" =>
          dns_table'[j].addr = any \/ Related(dns_table'[j].addr, dns_table'[j].name)
    BY <1>5 DEF IInv, FilledInv
  <2>3. f.state = "NEW"
    BY <1>4, <2>1
  <2> QED
    BY <1>1, <1>4, <1>8, <2>2, <2>3, Primes DEF Busy
<1>11. AnswerForHost'
  BY <1>1, Primes DEF IInv, AnswerForHost
<1>12. CallbackHasCaller'
  BY <1>1 DEF IInv, CallbackHasCaller
<1> QED
  BY <1>6, <1>7, <1>9, <1>10, <1>11, <1>12 DEF IInv

LEMMA NameStep ==
    ASSUME IInv, fillName
    PROVE  IInv'
<1> DEFINE e == dns_table[slot]
           f == dns_table'[slot]
           b == host \o <<NUL>> \o SubSeq(e.buf, Len(host) + 2, Len(e.buf))
           u == [e EXCEPT !.name = host]
<1>1. /\ pc = "found" /\ pc' = "named" /\ UNCHANGED <<net, host, ip, slot, ticked, torn, deadWrite>>
      /\ dns_table' = [dns_table EXCEPT
           ![slot].name = host,
           ![slot].buf = host \o <<NUL>> \o SubSeq(@, Len(host) + 2, Len(@))]
  BY DEF fillName
<1>2. /\ dns_table \in [Entries -> Entry] /\ slot \in Entries /\ e \in Entry
      /\ host \in Names \cup {<<>>}
  BY DEF IInv, TypeOK
<1>b. b \in Text /\ Holds(b, host)
  <2>1. e.buf \in Text
    BY <1>2 DEF Entry
  <2> QED
    BY <1>2, <2>1, CopiedName
<1>3. /\ f = [u EXCEPT !.buf = b]
      /\ \A j \in Entries \ {slot} : dns_table'[j] = dns_table[j]
  BY <1>1, <1>2
<1> HIDE DEF b
<1>4. /\ f \in Entry /\ f.found = e.found /\ f.state = e.state /\ f.name = host
      /\ f.buf = b
  <2> HIDE DEF e, f
  <2>1. u \in Entry /\ u.found = e.found /\ u.state = e.state /\ u.name = host
    BY Zenon, <1>2 DEF Entry
  <2> HIDE DEF u
  <2> QED
    BY <1>b, <1>3, <2>1 DEF Entry
<1>5. \A j \in Entries : /\ dns_table'[j].state = dns_table[j].state
                        /\ dns_table'[j].found = dns_table[j].found
  BY Zenon, <1>3, <1>4
<1>6. TypeOK'
  <2>1. dns_table' \in [Entries -> Entry]
    <3>1. dns_table' = [dns_table EXCEPT ![slot] = f]
      BY Zenon, <1>1, <1>2
    <3> QED
      BY <1>2, <1>4, <3>1
  <2> QED
    BY <1>1, <2>1 DEF IInv, TypeOK
<1>7. EntryInv'
  <2>1. ASSUME NEW j \in Entries
        PROVE  Holds(dns_table'[j].buf, dns_table'[j].name)
    <3>1. CASE j = slot
      BY <1>b, <1>4, <3>1
    <3>2. CASE j # slot
      BY <1>3, <3>2 DEF IInv, EntryInv
    <3> QED
      BY <3>1, <3>2
  <2> QED
    BY <2>1, Primes
<1>9. SlotInv'
  BY <1>1, <1>5 DEF IInv, SlotInv, Busy, Calling
<1>10. FilledInv'
  <2> SUFFICES ASSUME ~ torn
               PROVE  FilledInv'
    BY Zenon, <1>1 DEF FilledInv
  <2>1. f.state = "NEW" /\ f.found = "live" /\ f.name = host'
    BY <1>1, <1>4 DEF IInv, FilledInv, Filling
  <2>2. ASSUME NEW j \in Entries \ {slot}
        PROVE  /\ dns_table'[j].found # "live" /\ dns_table'[j].state \notin Busy
               /\ dns_table'[j].state = "DONE" =>
                    dns_table'[j].addr = any \/ Related(dns_table'[j].addr, dns_table'[j].name)
    BY <1>3 DEF IInv, SlotInv, FilledInv
  <2> QED
    BY <1>1, <2>1, <2>2, Primes DEF Filling, Busy
<1>11. AnswerForHost'
  BY <1>1, Primes DEF IInv, AnswerForHost
<1>12. CallbackHasCaller'
  BY <1>1 DEF IInv, CallbackHasCaller
<1> QED
  BY <1>6, <1>7, <1>9, <1>10, <1>11, <1>12 DEF IInv

\* The assignments of dns_check_entry to the entry it makes ask.
LEMMA AskKeeps ==
    ASSUME IInv, pc \in {"named", "asking", "numdns", "tmr"},
           pc' \in {"asking", "numdns", "tmr", "dns_wait"},
           UNCHANGED <<host, ip, slot, ticked, torn, deadWrite>>,
           net' \subseteq [id : Entries, name : Names \cup {<<>>}],
           NEW f \in Entry, dns_table' = [dns_table EXCEPT ![slot] = f],
           f.found = dns_table[slot].found, f.name = dns_table[slot].name,
           f.buf = dns_table[slot].buf, f.addr = dns_table[slot].addr,
           \/ pc # "named" /\ f.state = dns_table[slot].state
           \/ pc = "named" /\ dns_table[slot].state = "NEW" /\ f.state = "ASKING"
    PROVE  IInv'
<1>1. dns_table \in [Entries -> Entry] /\ slot \in Entries
  BY DEF IInv, TypeOK
<1>2. /\ dns_table'[slot] = f
      /\ \A j \in Entries \ {slot} : dns_table'[j] = dns_table[j]
  BY <1>1
<1>3. \A j \in Entries : /\ dns_table'[j].found = dns_table[j].found
                        /\ dns_table'[j].name = dns_table[j].name
                        /\ dns_table'[j].buf = dns_table[j].buf
                        /\ dns_table'[j].addr = dns_table[j].addr
  BY <1>2
<1>4. \A j \in Entries :
        /\ dns_table'[j].state # "NEW"
        /\ \/ dns_table'[j].state = dns_table[j].state
           \/ /\ j = slot /\ pc = "named"
              /\ dns_table[j].state = "NEW" /\ dns_table'[j].state = "ASKING"
  BY <1>1, <1>2 DEF IInv, SlotInv, Busy
<1>5. TypeOK'
  <2>1. dns_table' \in [Entries -> Entry]
    BY <1>1
  <2> QED
    BY <2>1 DEF IInv, TypeOK
<1>6. EntryInv'
  BY <1>3, Primes DEF IInv, EntryInv
<1>7. SlotInv'
  BY <1>3, <1>4 DEF IInv, SlotInv, Busy, Calling
<1>8. FilledInv'
  <2> SUFFICES ASSUME ~ torn
               PROVE  FilledInv'
    BY DEF FilledInv
  <2>1. ~ Filling' /\ pc' \notin {"found", "named"} /\ pc # "found"
    BY DEF Filling
  <2>2. ASSUME NEW j \in Entries
        PROVE  /\ dns_table'[j].state = "ASKING" => dns_table'[j].found = "live"
               /\ dns_table'[j].found = "live" => dns_table'[j].name = host'
               /\ dns_table'[j].state = "DONE" =>
                    dns_table'[j].addr = any \/ Related(dns_table'[j].addr, dns_table'[j].name)
    BY <1>3, <1>4, <2>1 DEF IInv, FilledInv
  <2> QED
    BY <2>1, <2>2, Primes
<1>9. AnswerForHost'
  BY Primes DEF IInv, AnswerForHost
<1>10. CallbackHasCaller'
  BY DEF IInv, CallbackHasCaller
<1> QED
  BY <1>5, <1>6, <1>7, <1>8, <1>9, <1>10 DEF IInv

LEMMA CheckNewStep ==
    ASSUME IInv, checkNew
    PROVE  IInv'
<1> DEFINE e == dns_table[slot]
           f == [e EXCEPT !.state = "ASKING"]
<1>1. pc = "named" /\ UNCHANGED <<host, slot, ticked, torn>>
  BY DEF checkNew
<1>2. e \in Entry
  BY DEF IInv, TypeOK
<1>3. CASE e.state = "NEW"
  <2>1. /\ dns_table' = [dns_table EXCEPT ![slot] = f]
        /\ pc' = "asking" /\ UNCHANGED <<net, ip, deadWrite>>
    BY <1>3 DEF checkNew
  <2>2. /\ f \in Entry /\ f.state = "ASKING" /\ f.found = e.found
        /\ f.name = e.name /\ f.buf = e.buf /\ f.addr = e.addr
    <3> HIDE DEF e
    <3> QED
      BY <1>2 DEF Entry
  <2>3. net' \subseteq [id : Entries, name : Names \cup {<<>>}]
    BY <2>1 DEF IInv, TypeOK
  <2> HIDE DEF f
  <2> QED
    BY <1>1, <1>3, <2>1, <2>2, <2>3, AskKeeps
<1>4. CASE e.state # "NEW"
  <2>1. CheckEntries({slot}) /\ pc' = "dns_wait"
    BY <1>4 DEF checkNew
  <2> QED
    BY <1>1, <1>4, <2>1, CheckAgain
<1> QED
  BY <1>3, <1>4

LEMMA SetNumdnsStep ==
    ASSUME IInv, setNumdns
    PROVE  IInv'
<1> DEFINE e == dns_table[slot]
           f == [e EXCEPT !.numdns = 0]
<1>1. /\ pc = "asking" /\ pc' = "numdns" /\ dns_table' = [dns_table EXCEPT ![slot] = f]
      /\ UNCHANGED <<host, ip, slot, ticked, torn, deadWrite>>
  BY DEF setNumdns
<1>2. e \in Entry /\ 0 \in 0 .. NumServers - 1 /\ 0 \in Byte /\ 1 \in Byte
  BY DnsAssumption DEF IInv, TypeOK, Byte
<1>3. /\ f \in Entry /\ f.state = e.state /\ f.found = e.found
      /\ f.name = e.name /\ f.buf = e.buf /\ f.addr = e.addr
  <2> HIDE DEF e
  <2> QED
    BY <1>2 DEF Entry
<1>4. net' \subseteq [id : Entries, name : Names \cup {<<>>}]
  BY DEF setNumdns, IInv, TypeOK
<1> HIDE DEF f
<1> QED
  BY <1>1, <1>3, <1>4, AskKeeps

LEMMA SetTmrStep ==
    ASSUME IInv, setTmr
    PROVE  IInv'
<1> DEFINE e == dns_table[slot]
           f == [e EXCEPT !.tmr = 1]
<1>1. /\ pc = "numdns" /\ pc' = "tmr" /\ dns_table' = [dns_table EXCEPT ![slot] = f]
      /\ UNCHANGED <<host, ip, slot, ticked, torn, deadWrite>>
  BY DEF setTmr
<1>2. e \in Entry /\ 0 \in 0 .. NumServers - 1 /\ 0 \in Byte /\ 1 \in Byte
  BY DnsAssumption DEF IInv, TypeOK, Byte
<1>3. /\ f \in Entry /\ f.state = e.state /\ f.found = e.found
      /\ f.name = e.name /\ f.buf = e.buf /\ f.addr = e.addr
  <2> HIDE DEF e
  <2> QED
    BY <1>2 DEF Entry
<1>4. net' \subseteq [id : Entries, name : Names \cup {<<>>}]
  BY DEF setTmr, IInv, TypeOK
<1> HIDE DEF f
<1> QED
  BY <1>1, <1>3, <1>4, AskKeeps

LEMMA SendNewStep ==
    ASSUME IInv, sendNew
    PROVE  IInv'
<1> DEFINE e == dns_table[slot]
           f == [e EXCEPT !.retries = 0]
<1>1. /\ pc = "tmr" /\ pc' = "dns_wait" /\ dns_table' = [dns_table EXCEPT ![slot] = f]
      /\ UNCHANGED <<host, ip, slot, ticked, torn, deadWrite>>
  BY DEF sendNew
<1>2. e \in Entry /\ 0 \in 0 .. NumServers - 1 /\ 0 \in Byte /\ 1 \in Byte
  BY DnsAssumption DEF IInv, TypeOK, Byte
<1>3. /\ f \in Entry /\ f.state = e.state /\ f.found = e.found
      /\ f.name = e.name /\ f.buf = e.buf /\ f.addr = e.addr
  <2> HIDE DEF e
  <2> QED
    BY <1>2 DEF Entry
<1>4. net' \subseteq [id : Entries, name : Names \cup {<<>>}]
  <2>1. \/ net' = net \cup {Query(slot, e)}
        \/ net' = net
    BY Zenon DEF sendNew, dns_send
  <2>2. net \subseteq [id : Entries, name : Names \cup {<<>>}] /\ slot \in Entries
    BY DEF IInv, TypeOK
  <2>3. Query(slot, e) \in [id : Entries, name : Names \cup {<<>>}]
    BY <1>2, <2>2 DEF Query, Entry
  <2> QED
    BY <2>1, <2>2, <2>3
<1> HIDE DEF f
<1> QED
  BY <1>1, <1>3, <1>4, AskKeeps

LEMMA WaitStep ==
    ASSUME IInv, dns_wait
    PROVE  IInv'
<1>1. /\ pc = "dns_wait" /\ ip # any /\ pc' = "idle"
      /\ host' = <<>> /\ ip' = any /\ slot' = 0 /\ UNCHANGED <<net, ticked, torn, deadWrite>>
      /\ dns_table' = [i \in Entries |->
           [dns_table[i] EXCEPT !.found = IF @ = "live" THEN "dead" ELSE @]]
  BY DEF dns_wait
<1>2. \A j \in Entries : dns_table[j] \in Entry
  BY DEF IInv, TypeOK
<1>3. ASSUME NEW j \in Entries
      PROVE  /\ dns_table'[j] \in Entry /\ dns_table'[j].found # "live"
             /\ dns_table'[j].state = dns_table[j].state
             /\ dns_table'[j].name = dns_table[j].name
             /\ dns_table'[j].buf = dns_table[j].buf
             /\ dns_table'[j].addr = dns_table[j].addr
  <2> DEFINE e == dns_table[j]
             f == dns_table'[j]
             v == IF e.found = "live" THEN "dead" ELSE e.found
  <2>1. f = [e EXCEPT !.found = v]
    BY <1>1
  <2>2. v \in {NULL, "live", "dead"} /\ v # "live" /\ e \in Entry
    BY <1>2 DEF Entry
  <2> HIDE DEF e, f, v
  <2>3. /\ f \in Entry /\ f.found = v /\ f.state = e.state /\ f.name = e.name
        /\ f.buf = e.buf /\ f.addr = e.addr
    BY <2>1, <2>2 DEF Entry
  <2> QED
    BY <2>2, <2>3 DEF e, f
<1>4. \A j \in Entries : dns_table[j].state \notin Busy
  BY <1>1 DEF IInv, SlotInv
<1>5. TypeOK'
  <2>1. dns_table' \in [Entries -> Entry]
    <3>1. dns_table' = [j \in Entries |-> dns_table'[j]]
      BY <1>1
    <3> QED
      BY <1>3, <3>1
  <2>2. 0 \in Entries
    BY DnsAssumption DEF Entries
  <2> QED
    BY <1>1, <2>1, <2>2 DEF IInv, TypeOK, Addr
<1>6. EntryInv'
  BY <1>3, Primes DEF IInv, EntryInv
<1>7. SlotInv'
  BY <1>1, <1>3, <1>4 DEF SlotInv, Busy
<1>8. FilledInv'
  <2> SUFFICES ASSUME ~ torn
               PROVE  FilledInv'
    BY <1>1 DEF FilledInv
  <2>1. \A j \in Entries : dns_table'[j].state = "DONE" =>
          dns_table'[j].addr = any \/ Related(dns_table'[j].addr, dns_table'[j].name)
    BY <1>3 DEF IInv, FilledInv
  <2> QED
    BY <1>1, <1>3, <1>4, <2>1, Primes DEF Filling, Busy
<1>9. AnswerForHost'
  BY <1>1, Primes
<1>10. CallbackHasCaller'
  BY <1>1 DEF IInv, CallbackHasCaller
<1> QED
  BY <1>5, <1>6, <1>7, <1>8, <1>9, <1>10 DEF IInv

-----------------------------------------------------------------------------
(* The invariant, and what follows from it.                                *)

LEMMA InitIInv == Init => IInv
<1> SUFFICES ASSUME Init
             PROVE  IInv
  OBVIOUS
<1>1. \A i \in Entries : dns_table[i] = Empty
  BY DEF Init
<1>2. /\ Empty.state = "UNUSED" /\ Empty.found = NULL /\ Empty.name = <<>>
      /\ Empty.buf = <<>>
  BY DEF Empty
<1>3. TypeOK
  <2>1. dns_table \in [Entries -> Entry]
    BY EmptyEntry DEF Init
  <2>2. 0 \in Entries
    BY DnsAssumption DEF Entries
  <2> QED
    BY <2>1, <2>2 DEF Init, TypeOK, Addr
<1>4. EntryInv
  <2>1. Holds(<<>>, <<>>)
    BY DEF Holds, At
  <2> QED
    BY <1>1, <1>2, <2>1 DEF EntryInv
<1>5. SlotInv /\ FilledInv
  BY <1>1, <1>2, NullAssumption DEF SlotInv, FilledInv, Busy, Init, Filling
<1>6. AnswerForHost /\ CallbackHasCaller
  BY DEF Init, AnswerForHost, CallbackHasCaller
<1> QED
  BY <1>3, <1>4, <1>5, <1>6 DEF IInv

LEMMA NextIInv == IInv /\ [Next]_vars => IInv'
<1> SUFFICES ASSUME IInv, [Next]_vars
             PROVE  IInv'
  OBVIOUS
<1>1. CASE UNCHANGED vars
  <2>1. UNCHANGED <<dns_table, net, pc, host, ip, slot, ticked, torn, deadWrite>>
    BY <1>1 DEF vars
  <2>2. TypeOK' /\ EntryInv' /\ SlotInv'
    BY <2>1, Primes DEF IInv, TypeOK, EntryInv, SlotInv
  <2>3. FilledInv'
    BY <2>1, Primes DEF IInv, FilledInv, Filling
  <2>4. AnswerForHost' /\ CallbackHasCaller'
    BY <2>1, Primes DEF IInv, AnswerForHost, CallbackHasCaller
  <2> QED
    BY <2>2, <2>3, <2>4 DEF IInv
<1> QED
  BY <1>1, TmrStep, RecvStep, ConnectStep, TakeStep, FoundStep, NameStep, CheckNewStep,
     SetNumdnsStep, SetTmrStep, SendNewStep, WaitStep
     DEF Next, Sketch, Lookup, Interrupt

\* The inductive invariant.
THEOREM Inductive == Spec => []IInv
  BY InitIInv, NextIInv, PTL DEF Spec

\* The fields of every table entry stay in range, also when dns_tmr comes between
\* the assignments of dns_check_entry and counts on with old counters: numdns
\* never passes the last server, and the bytes and the time to live wrap around.
THEOREM DnsTypeOK == Spec => []TypeOK
<1>1. IInv => TypeOK
  BY DEF IInv
<1> QED
  BY <1>1, Inductive, PTL

\* The address connect(host) goes on with was given for its host or for a name
\* that dns_compare_name takes for it: one with the same characters, but for
\* separators of that name, as far as both go.  It holds for all names over any
\* characters, whatever answers come late or twice, as long as dns_tmr finds no
\* entry half filled.
THEOREM DnsAnswerForHost == Spec => []AnswerForHost
<1>1. IInv => AnswerForHost
  BY DEF IInv
<1> QED
  BY <1>1, Inductive, PTL

\* do_dns never writes through the address of a variable that is gone, unless
\* dns_tmr found an entry half filled.
THEOREM DnsCallbackHasCaller == Spec => []CallbackHasCaller
<1>1. IInv => CallbackHasCaller
  BY DEF IInv
<1> QED
  BY <1>1, Inductive, PTL

\* Between two calls every entry is unused or completed, so that the scan of
\* dns_enqueue ends with one it may take, however small the table is.
THEOREM DnsTableHasRoom == Spec => []TableHasRoom
<1>1. IInv => TableHasRoom
  <2> SUFFICES ASSUME IInv, pc = "idle"
               PROVE  InState("UNUSED") \cup InState("DONE") = Entries
    BY DEF TableHasRoom
  <2> QED
    BY IdleTable DEF InState
<1> QED
  BY <1>1, Inductive, PTL
=============================================================================
