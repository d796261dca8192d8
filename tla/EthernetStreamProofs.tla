------------------------ MODULE EthernetStreamProofs ------------------------
(***************************************************************************)
(* Proofs about EthernetStream, for windows, segments and pbufs of any     *)
(* size.                                                                   *)
(***************************************************************************)
EXTENDS EthernetStream, TLAPS, WellFoundedInduction

\* A chain with one reference on each pbuf, whose bytes are the last of the
\* first n that were sent: each pbuf has those that its tot_len reaches back to.
Chain(c, n) ==
    \A k \in 1 .. Len(c) :
        /\ c[k].ref = 1
        /\ c[k].tot_len = Len(c[k].data) + (IF k < Len(c) THEN c[k + 1].tot_len ELSE 0)
        /\ c[k].tot_len <= n
        /\ \A j \in 1 .. Len(c[k].data) : c[k].data[j] = n - c[k].tot_len + j

ChainInv ==
    /\ ~ cpcb => p = <<>>
    /\ pool = Len(p)
    /\ Chain(p, sent)

\* The read position is in the chain, and in its first pbuf unless flush() moved
\* it to the end or that pbuf is empty.
ReadInv ==
    /\ cpcb /\ p = <<>> => read = 0
    /\ p # <<>> => read <= tot_len(p)
    /\ p # <<>> /\ ~ flushed /\ p[1].data # <<>> => read < Len(p[1].data)

\* What the window lacks is in the chain.
WindowInv ==
    /\ cpcb /\ p = <<>> => rcv_wnd = TCP_WND
    /\ cpcb /\ p # <<>> => rcv_wnd + tot_len(p) >= TCP_WND

IInv == TypeOK /\ ChainInv /\ ReadInv /\ WindowInv /\ CloseIsClean

-----------------------------------------------------------------------------
(* Chains of pbufs.                                                        *)

LEMMA ElementOf ==
    ASSUME NEW S, NEW s \in Seq(S), NEW i \in 1 .. Len(s)
    PROVE  s[i] \in S
  OBVIOUS

LEMMA NonEmpty ==
    ASSUME NEW S, NEW s \in Seq(S), s # <<>>
    PROVE  Len(s) \in Nat /\ Len(s) >= 1
  OBVIOUS

LEMMA PbufFields ==
    ASSUME NEW x \in Pbuf
    PROVE  /\ x.data \in Seq(1 .. MaxBytes) /\ Len(x.data) \in Nat
           /\ x.tot_len \in 0 .. MaxBytes /\ x.tot_len \in Nat /\ x.ref \in Nat
<1>1. /\ x.data \in Seq(1 .. MaxBytes) /\ x.tot_len \in 0 .. MaxBytes /\ x.ref \in Nat
  BY DEF Pbuf
<1> QED
  BY <1>1, LimitsAssumption

LEMMA PbufMade ==
    ASSUME NEW d \in Seq(1 .. MaxBytes), NEW t \in 0 .. MaxBytes
    PROVE  /\ pbuf(d, t) \in Pbuf /\ pbuf(d, t).data = d
           /\ pbuf(d, t).tot_len = t /\ pbuf(d, t).ref = 1
  BY DEF pbuf, Pbuf

\* The next bytes of the connection, as data of a pbuf.
LEMMA Bytes ==
    ASSUME NEW a \in Nat, NEW l \in Nat, a + l <= MaxBytes
    PROVE  /\ [k \in 1 .. l |-> a + k] \in Seq(1 .. MaxBytes)
           /\ Len([k \in 1 .. l |-> a + k]) = l
           /\ \A j \in 1 .. l : [k \in 1 .. l |-> a + k][j] = a + j
  BY LimitsAssumption

LEMMA FreshChain ==
    ASSUME sent \in Nat, NEW n \in Nat, NEW m \in 1 .. n, sent + n <= MaxBytes
    PROVE  /\ Fresh(n, m) \in Seq(Pbuf) /\ Len(Fresh(n, m)) \in 1 .. 2
           /\ Fresh(n, m)[1].tot_len = n /\ Chain(Fresh(n, m), sent + n)
<1>1. CASE m = n
  <2> DEFINE d == [k \in 1 .. n |-> sent + k]
             x == pbuf(d, n)
  <2>1. Fresh(n, m) = <<x>>
    BY <1>1 DEF Fresh
  <2>2. /\ d \in Seq(1 .. MaxBytes) /\ Len(d) = n /\ \A j \in 1 .. n : d[j] = sent + j
    BY Zenon, Bytes
  <2> HIDE DEF d
  <2>3. n \in 0 .. MaxBytes
    BY LimitsAssumption
  <2>4. x \in Pbuf /\ x.data = d /\ x.tot_len = n /\ x.ref = 1
    BY <2>2, <2>3, PbufMade
  <2> HIDE DEF x
  <2>5. /\ <<x>> \in Seq(Pbuf) /\ Len(<<x>>) = 1 /\ <<x>>[1] = x
    BY <2>4
  <2>6. Chain(<<x>>, sent + n)
    BY <2>2, <2>4, <2>5 DEF Chain
  <2> QED
    BY <2>1, <2>4, <2>5, <2>6
<1>2. CASE m # n
  <2> DEFINE d == [k \in 1 .. m |-> sent + k]
             e == [k \in 1 .. n - m |-> sent + m + k]
             x == pbuf(d, n)
             y == pbuf(e, n - m)
  <2>1. Fresh(n, m) = <<x, y>>
    BY <1>2 DEF Fresh
  <2>2. /\ d \in Seq(1 .. MaxBytes) /\ Len(d) = m /\ \A j \in 1 .. m : d[j] = sent + j
    BY Bytes
  <2>3. /\ e \in Seq(1 .. MaxBytes) /\ Len(e) = n - m
        /\ \A j \in 1 .. n - m : e[j] = sent + m + j
    <3>1. PICK a \in Nat, l \in Nat : a = sent + m /\ l = n - m /\ a + l <= MaxBytes
      OBVIOUS
    <3>2. e = [k \in 1 .. l |-> a + k]
      BY <3>1
    <3> HIDE DEF e
    <3> QED
      BY Zenon, <3>1, <3>2, Bytes
  <2> HIDE DEF d, e
  <2>4. n \in 0 .. MaxBytes /\ n - m \in 0 .. MaxBytes
    BY LimitsAssumption
  <2>5. x \in Pbuf /\ x.data = d /\ x.tot_len = n /\ x.ref = 1
    BY <2>2, <2>4, PbufMade
  <2>6. y \in Pbuf /\ y.data = e /\ y.tot_len = n - m /\ y.ref = 1
    BY <2>3, <2>4, PbufMade
  <2> HIDE DEF x, y
  <2> DEFINE c == <<x, y>>
  <2>7. /\ c \in Seq(Pbuf) /\ Len(c) = 2 /\ c[1] = x /\ c[2] = y
    BY <2>5, <2>6
  <2> HIDE DEF c
  <2>8. Chain(c, sent + n)
    <3> PICK z \in Nat : z = sent + n
      OBVIOUS
    <3>1. /\ z - (n - m) = sent + m /\ m + (n - m) = n
          /\ z - n = sent /\ n <= z /\ n - m <= z /\ n - m + 0 = n - m
      BY <1>2
    <3>2. /\ x.ref = 1 /\ x.tot_len = Len(x.data) + y.tot_len
          /\ x.tot_len <= z
          /\ \A j \in 1 .. Len(x.data) : x.data[j] = z - x.tot_len + j
      BY <2>2, <2>5, <2>6, <3>1
    <3>3. /\ y.ref = 1 /\ y.tot_len = Len(y.data) + 0
          /\ y.tot_len <= z
          /\ \A j \in 1 .. Len(y.data) : y.data[j] = z - y.tot_len + j
      BY <2>3, <2>6, <3>1
    <3>4. SUFFICES ASSUME NEW k \in 1 .. Len(c)
          PROVE  /\ c[k].ref = 1
                 /\ c[k].tot_len = Len(c[k].data) + (IF k < Len(c) THEN c[k + 1].tot_len ELSE 0)
                 /\ c[k].tot_len <= z
                 /\ \A j \in 1 .. Len(c[k].data) : c[k].data[j] = z - c[k].tot_len + j
      BY DEF Chain
    <3>5. CASE k = 1
      <4>1. k < Len(c) /\ c[k] = x /\ c[k + 1] = y
        BY <2>7, <3>5
      <4> QED
        BY <3>2, <4>1
    <3>6. CASE k = 2
      <4>1. ~ (k < Len(c)) /\ c[k] = y
        BY <2>7, <3>6
      <4> QED
        BY <3>3, <4>1
    <3> QED
      BY <2>7, <3>5, <3>6
  <2> QED
    BY <2>1, <2>5, <2>7, <2>8 DEF c
<1> QED
  BY <1>1, <1>2

LEMMA ConcatPbuf ==
    ASSUME NEW c \in Seq(Pbuf), NEW t \in Seq(Pbuf)
    PROVE  /\ c \o t \in Seq(Pbuf) /\ Len(c \o t) = Len(c) + Len(t)
           /\ \A k \in 1 .. Len(c) : (c \o t)[k] = c[k]
           /\ \A k \in 1 .. Len(t) : (c \o t)[Len(c) + k] = t[k]
  OBVIOUS

LEMMA TailPbuf ==
    ASSUME NEW c \in Seq(Pbuf), c # <<>>
    PROVE  /\ Len(c) \in Nat /\ Len(c) >= 1 /\ c[1] \in Pbuf
           /\ Tail(c) \in Seq(Pbuf) /\ Len(Tail(c)) = Len(c) - 1
           /\ \A k \in 1 .. Len(c) - 1 : Tail(c)[k] = c[k + 1]
  OBVIOUS

\* Without its first pbuf a chain holds the same last bytes.
LEMMA TailChain ==
    ASSUME NEW c \in Seq(Pbuf), c # <<>>, NEW n \in Nat, Chain(c, n)
    PROVE  Chain(Tail(c), n)
<1> DEFINE t == Tail(c)
<1>1. /\ Len(c) \in Nat /\ Len(t) = Len(c) - 1
      /\ \A k \in 1 .. Len(c) - 1 : t[k] = c[k + 1]
  BY TailPbuf
<1> HIDE DEF t
<1>2. SUFFICES ASSUME NEW k \in 1 .. Len(t)
      PROVE  /\ t[k].ref = 1
             /\ t[k].tot_len = Len(t[k].data) + (IF k < Len(t) THEN t[k + 1].tot_len ELSE 0)
             /\ t[k].tot_len <= n
             /\ \A j \in 1 .. Len(t[k].data) : t[k].data[j] = n - t[k].tot_len + j
  BY DEF Chain, t
<1>3. PICK i \in 1 .. Len(c) : i = k + 1
  BY <1>1
<1>4. t[k] = c[i] /\ (k < Len(t) <=> i < Len(c)) /\ (i < Len(c) => t[k + 1] = c[i + 1])
  BY <1>1, <1>3
<1>5. /\ c[i].ref = 1
      /\ c[i].tot_len = Len(c[i].data) + (IF i < Len(c) THEN c[i + 1].tot_len ELSE 0)
      /\ c[i].tot_len <= n
      /\ \A j \in 1 .. Len(c[i].data) : c[i].data[j] = n - c[i].tot_len + j
  BY DEF Chain
<1> QED
  BY <1>4, <1>5

\* What a field update of pbuf_cat makes of a pbuf.
LEMMA Lengthened ==
    ASSUME NEW x \in Pbuf, NEW m \in Nat, x.tot_len + m <= MaxBytes
    PROVE  LET y == [x EXCEPT !.tot_len = @ + m]
           IN  y \in Pbuf /\ y.data = x.data /\ y.tot_len = x.tot_len + m /\ y.ref = x.ref
<1> DEFINE y == [x EXCEPT !.tot_len = @ + m]
<1>1. /\ x = [data |-> x.data, tot_len |-> x.tot_len, ref |-> x.ref]
      /\ x.data \in Seq(1 .. MaxBytes) /\ x.tot_len \in Nat
  BY LimitsAssumption DEF Pbuf
<1>2. y = [data |-> x.data, tot_len |-> x.tot_len + m, ref |-> x.ref]
  BY SMTT(30), <1>1
<1>3. x.tot_len + m \in 0 .. MaxBytes
  BY <1>1, LimitsAssumption
<1> QED
  BY SMTT(60), <1>1, <1>2, <1>3, LimitsAssumption DEF Pbuf

\* pbuf_cat: the bytes of a chain are followed by the next ones.
LEMMA CatChain ==
    ASSUME NEW c \in Seq(Pbuf), c # <<>>, NEW t \in Seq(Pbuf), t # <<>>,
           NEW n \in Nat, NEW m \in Nat, n + m <= MaxBytes,
           Chain(c, n), Chain(t, n + m), t[1].tot_len = m
    PROVE  /\ pbuf_cat(c, t) \in Seq(Pbuf) /\ Len(pbuf_cat(c, t)) = Len(c) + Len(t)
           /\ pbuf_cat(c, t)[1].tot_len = c[1].tot_len + m
           /\ pbuf_cat(c, t)[1].data = c[1].data
           /\ Chain(pbuf_cat(c, t), n + m)
<1> DEFINE u == [i \in DOMAIN c |-> [c[i] EXCEPT !.tot_len = @ + m]]
           v == u \o t
<1>1. pbuf_cat(c, t) = v
  BY DEF pbuf_cat, tot_len
<1>2. Len(c) \in Nat /\ Len(c) >= 1 /\ DOMAIN c = 1 .. Len(c) /\ Len(t) \in Nat /\ Len(t) >= 1
  OBVIOUS
<1>3. \A k \in 1 .. Len(c) : /\ c[k] \in Pbuf /\ c[k].ref = 1
                              /\ c[k].tot_len = Len(c[k].data)
                                                 + (IF k < Len(c) THEN c[k + 1].tot_len ELSE 0)
                              /\ c[k].tot_len <= n
                              /\ \A j \in 1 .. Len(c[k].data) :
                                   c[k].data[j] = n - c[k].tot_len + j
  BY DEF Chain
<1>4. \A k \in 1 .. Len(c) : /\ u[k] \in Pbuf /\ u[k].data = c[k].data
                              /\ u[k].tot_len = c[k].tot_len + m /\ u[k].ref = c[k].ref
  <2> TAKE k \in 1 .. Len(c)
  <2>1. c[k] \in Pbuf /\ c[k].tot_len + m <= MaxBytes
    BY SMTT(60), <1>3, PbufFields, LimitsAssumption
  <2>2. u[k] = [c[k] EXCEPT !.tot_len = @ + m]
    BY <1>2
  <2> QED
    BY <2>1, <2>2, Lengthened
<1>5. u \in Seq(Pbuf) /\ Len(u) = Len(c)
  <2>1. u \in [1 .. Len(c) -> Pbuf]
    BY Zenon, <1>2, <1>4
  <2> QED
    BY <1>2, <2>1
<1> HIDE DEF u
<1>6. /\ v \in Seq(Pbuf) /\ Len(v) = Len(c) + Len(t)
      /\ \A k \in 1 .. Len(c) : v[k] = u[k]
      /\ \A k \in 1 .. Len(t) : v[Len(c) + k] = t[k]
  <2>1. /\ u \o t \in Seq(Pbuf) /\ Len(u \o t) = Len(u) + Len(t)
        /\ \A k \in 1 .. Len(u) : (u \o t)[k] = u[k]
        /\ \A k \in 1 .. Len(t) : (u \o t)[Len(u) + k] = t[k]
    BY Zenon, <1>5, ConcatPbuf
  <2> QED
    BY <1>5, <2>1
<1> HIDE DEF v
<1>7. Chain(v, n + m)
  <2>1. SUFFICES ASSUME NEW k \in 1 .. Len(v)
        PROVE  /\ v[k].ref = 1
               /\ v[k].tot_len = Len(v[k].data) + (IF k < Len(v) THEN v[k + 1].tot_len ELSE 0)
               /\ v[k].tot_len <= n + m
               /\ \A j \in 1 .. Len(v[k].data) : v[k].data[j] = (n + m) - v[k].tot_len + j
    BY Zenon DEF Chain
  <2>2. CASE k <= Len(c)
    <3>1. k \in 1 .. Len(c) /\ k < Len(v)
      BY <1>2, <1>6, <2>2
    <3>2. v[k].data = c[k].data /\ v[k].tot_len = c[k].tot_len + m /\ v[k].ref = 1
      BY ZenonT(60), <1>3, <1>4, <1>6, <3>1
    <3>3. /\ c[k].tot_len \in Nat /\ Len(c[k].data) \in Nat
      BY <1>3, <3>1, PbufFields
    <3>4. v[k].tot_len <= n + m
      <4>1. c[k].tot_len <= n
        BY <1>3, <3>1
      <4> QED
        BY <3>2, <3>3, <4>1
    <3>5. \A j \in 1 .. Len(v[k].data) : v[k].data[j] = (n + m) - v[k].tot_len + j
      <4>1. \A j \in 1 .. Len(c[k].data) : c[k].data[j] = (n + m) - (c[k].tot_len + m) + j
        BY SMTT(60), <1>3, <3>1, <3>3
      <4> QED
        BY Zenon, <3>2, <4>1
    <3>6. v[k].tot_len = Len(v[k].data) + v[k + 1].tot_len
      <4>1. CASE k < Len(c)
        <5>1. PICK i \in 1 .. Len(c) : i = k + 1
          BY <1>2, <4>1
        <5>2. v[i].tot_len = c[i].tot_len + m /\ c[i].tot_len \in Nat
          BY Zenon, <1>3, <1>4, <1>6, PbufFields
        <5>3. c[k].tot_len = Len(c[k].data) + c[i].tot_len
          BY <1>3, <3>1, <4>1, <5>1
        <5>4. \A a, b \in Nat : a + b + m = a + (b + m)
          OBVIOUS
        <5>5. Len(c[k].data) + c[i].tot_len + m = Len(c[k].data) + (c[i].tot_len + m)
          BY ZenonT(60), <3>3, <5>2, <5>4
        <5> QED
          BY Zenon, <3>2, <5>1, <5>2, <5>3, <5>5
      <4>2. CASE k = Len(c)
        <5>1. v[k + 1] = t[1]
          BY <1>2, <1>6, <4>2
        <5>2. c[k].tot_len = Len(c[k].data) + 0
          BY <1>3, <3>1, <4>2
        <5>3. c[k].tot_len = Len(c[k].data)
          BY <3>3, <5>2
        <5> QED
          BY Zenon, <3>2, <5>1, <5>3
      <4>3. k < Len(c) \/ k = Len(c)
        <5>1. \A a, b \in Nat : a <= b => a < b \/ a = b
          OBVIOUS
        <5>2. k \in Nat /\ Len(c) \in Nat
          BY <1>2, <3>1
        <5> QED
          BY Zenon, <2>2, <5>1, <5>2
      <4> QED
        BY <4>1, <4>2, <4>3
    <3> QED
      BY Zenon, <3>1, <3>2, <3>4, <3>5, <3>6
  <2>3. CASE k > Len(c)
    <3>1. PICK i \in 1 .. Len(t) : k = Len(c) + i
      <4>1. k - Len(c) \in 1 .. Len(t) /\ k = Len(c) + (k - Len(c))
        BY <1>2, <1>6, <2>3
      <4> QED
        BY Zenon, <4>1
    <3>2. v[k] = t[i] /\ (k < Len(v) <=> i < Len(t))
      BY <1>2, <1>6, <3>1
    <3>3. i < Len(t) => v[k + 1] = t[i + 1]
      <4> HAVE i < Len(t)
      <4>1. PICK h \in 1 .. Len(t) : h = i + 1
        BY <1>2
      <4>2. v[Len(c) + h] = t[h] /\ k + 1 = Len(c) + h
        BY <1>2, <1>6, <3>1, <4>1
      <4> QED
        BY <4>1, <4>2
    <3>4. /\ t[i].ref = 1
          /\ t[i].tot_len = Len(t[i].data) + (IF i < Len(t) THEN t[i + 1].tot_len ELSE 0)
          /\ t[i].tot_len <= n + m
          /\ \A j \in 1 .. Len(t[i].data) : t[i].data[j] = (n + m) - t[i].tot_len + j
      BY DEF Chain
    <3> QED
      BY <3>2, <3>3, <3>4
  <2> QED
    BY <1>2, <1>6, <2>2, <2>3
<1>8. 1 \in 1 .. Len(c)
  BY <1>2
<1> QED
  BY Zenon, <1>1, <1>4, <1>6, <1>7, <1>8

\* A segment as tcp_receive passes it on: pbufs it has emptied, then the rest.
LEMMA SegmentChain ==
    ASSUME sent \in Nat, NEW e \in Nat, NEW n \in Nat, NEW m \in 1 .. n, sent + n <= MaxBytes
    PROVE  /\ Segment(e, n, m) \in Seq(Pbuf) /\ Len(Segment(e, n, m)) \in Nat \ {0}
           /\ Segment(e, n, m)[1].tot_len = n /\ Chain(Segment(e, n, m), sent + n)
<1> DEFINE t == Fresh(n, m)
           c == [k \in 1 .. e |-> pbuf(<<>>, 0)]
           u == [k \in 1 .. e |-> pbuf(<<>>, n)]
<1>1. /\ t \in Seq(Pbuf) /\ Len(t) \in 1 .. 2 /\ t[1].tot_len = n /\ Chain(t, sent + n)
  BY FreshChain
<1> HIDE DEF t
<1>2. Segment(e, n, m) = u \o t
  BY DEF Segment, t
<1>3. CASE e = 0
  <2>1. u = <<>>
    BY <1>3
  <2>2. u \o t = t
    BY <1>1, <2>1
  <2>3. Segment(e, n, m) = t
    BY Zenon, <1>2, <2>2
  <2>4. Len(t) \in Nat \ {0}
    BY <1>1
  <2> HIDE DEF c, u
  <2> QED
    BY Zenon, <1>1, <2>3, <2>4
<1>4. CASE e # 0
  <2>1. /\ pbuf(<<>>, 0) \in Pbuf /\ pbuf(<<>>, 0).data = <<>>
        /\ pbuf(<<>>, 0).tot_len = 0 /\ pbuf(<<>>, 0).ref = 1
    <3>1. <<>> \in Seq(1 .. MaxBytes) /\ 0 \in 0 .. MaxBytes
      BY LimitsAssumption
    <3> QED
      BY Zenon, <3>1, PbufMade
  <2>2. /\ c \in Seq(Pbuf) /\ Len(c) = e /\ DOMAIN c = 1 .. e /\ c # <<>>
        /\ \A k \in 1 .. e : c[k] = pbuf(<<>>, 0)
    BY <1>4, <2>1
  <2>3. Chain(c, sent)
    <3>1. /\ Len(<<>>) = 0 /\ 0 + 0 = 0 /\ 0 <= sent /\ 1 .. 0 = {}
      OBVIOUS
    <3>2. \A k \in 1 .. e : k < e => k + 1 \in 1 .. e
      OBVIOUS
    <3>3. \A k \in 1 .. e : (IF k < e THEN c[k + 1].tot_len ELSE 0) = 0
      BY <2>1, <2>2, <3>2
    <3> HIDE DEF c
    <3> QED
      BY Zenon, <2>1, <2>2, <3>1, <3>3 DEF Chain
  <2>5. u \o t = pbuf_cat(c, t)
    <3>1. \A k \in 1 .. e : [c[k] EXCEPT !.tot_len = @ + n] = pbuf(<<>>, n)
      BY DEF pbuf
    <3>2. [k \in DOMAIN c |-> [c[k] EXCEPT !.tot_len = @ + n]] = u
      BY <2>2, <3>1
    <3> QED
      BY <1>1, <3>2 DEF pbuf_cat, tot_len
  <2> HIDE DEF c
  <2>6. t # <<>>
    BY <1>1
  <2>7. /\ pbuf_cat(c, t) \in Seq(Pbuf) /\ Len(pbuf_cat(c, t)) = Len(c) + Len(t)
        /\ pbuf_cat(c, t)[1].tot_len = c[1].tot_len + n
        /\ Chain(pbuf_cat(c, t), sent + n)
    <3>1. c \in Seq(Pbuf) /\ c # <<>>
      BY <2>2
    <3>2. t \in Seq(Pbuf) /\ t[1].tot_len = n /\ Chain(t, sent + n)
      BY <1>1
    <3> HIDE DEF u
    <3> QED
      BY SMTT(60), <2>3, <2>6, <3>1, <3>2, CatChain
  <2>8. c[1].tot_len + n = n
    BY <1>4, <2>1, <2>2
  <2>9. Len(c) + Len(t) \in Nat \ {0}
    BY <1>1, <2>2
  <2> QED
    BY <1>2, <2>5, <2>7, <2>8, <2>9
<1> QED
  BY <1>3, <1>4

LEMMA SamePbufs ==
    ASSUME NEW s \in Seq(Pbuf), NEW t \in Seq(Pbuf), Len(s) = Len(t),
           \A k \in 1 .. Len(s) : s[k] = t[k]
    PROVE  s = t
  OBVIOUS

LEMMA EmptyChain ==
    ASSUME NEW s \in Seq(Pbuf)
    PROVE  s = <<>> <=> Len(s) = 0
  OBVIOUS

LEMMA NewHead ==
    ASSUME NEW s \in Seq(Pbuf), Len(s) >= 1, NEW x \in Pbuf
    PROVE  /\ [s EXCEPT ![1] = x] \in Seq(Pbuf) /\ Len([s EXCEPT ![1] = x]) = Len(s)
           /\ [s EXCEPT ![1] = x][1] = x
           /\ \A k \in 2 .. Len(s) : [s EXCEPT ![1] = x][k] = s[k]
  OBVIOUS

LEMMA Referenced ==
    ASSUME NEW x \in Pbuf
    PROVE  LET y == [x EXCEPT !.ref = @ + 1]
           IN  y \in Pbuf /\ y.ref = x.ref + 1 /\ [y EXCEPT !.ref = @ - 1] = x
<1> DEFINE y == [x EXCEPT !.ref = @ + 1]
           z == [y EXCEPT !.ref = @ - 1]
<1>1. /\ y \in Pbuf /\ y.ref = x.ref + 1 /\ y.data = x.data /\ y.tot_len = x.tot_len
      /\ x.ref \in Nat
  BY DEF Pbuf
<1> HIDE DEF y
<1>2. z \in Pbuf /\ z.ref = y.ref - 1 /\ z.data = y.data /\ z.tot_len = y.tot_len
  BY <1>1 DEF Pbuf
<1> HIDE DEF z
<1>3. z = x
  BY <1>1, <1>2 DEF Pbuf
<1> QED
  BY <1>1, <1>3 DEF y, z

LEMMA FreedIs ==
    ASSUME NEW c \in Seq(Pbuf), NEW n \in 0 .. Len(c),
           \A j \in 1 .. n : c[j].ref = 1, n < Len(c) => c[n + 1].ref # 1
    PROVE  FreedCount(c) = n
<1> DEFINE S == {k \in 0 .. Len(c) : \A j \in 1 .. k : c[j].ref = 1}
<1>1. n \in S /\ S \subseteq Nat
  OBVIOUS
<1>2. \A k \in S : n >= k
  OBVIOUS
<1> HIDE DEF S
<1>3. \A x \in S : (\A k \in S : x >= k) => x = n
  BY <1>1, <1>2
<1> QED
  BY <1>1, <1>2, <1>3 DEF FreedCount, Max, S

\* The close paths free the whole chain.
LEMMA FreesAll ==
    ASSUME NEW c \in Seq(Pbuf), NEW n \in Nat, Chain(c, n)
    PROVE  FreedCount(c) = Len(c)
<1>1. Len(c) \in 0 .. Len(c) /\ ~ (Len(c) < Len(c))
  OBVIOUS
<1>2. \A j \in 1 .. Len(c) : c[j].ref = 1
  BY DEF Chain
<1> QED
  BY <1>1, <1>2, FreedIs

\* read() frees the first pbuf and no other: pbuf_ref holds the rest.
LEMMA FreesFirst ==
    ASSUME NEW q \in Seq(Pbuf), q # <<>>, NEW n \in Nat, Chain(q, n)
    PROVE  LET c == IF Len(q) > 1 THEN <<q[1]>> \o pbuf_ref(Tail(q)) ELSE q
           IN  FreedCount(c) = 1 /\ Tail(pbuf_free(c)) = Tail(q)
<1>1. /\ Len(q) \in Nat /\ Len(q) >= 1 /\ q[1] \in Pbuf
      /\ Tail(q) \in Seq(Pbuf) /\ Len(Tail(q)) = Len(q) - 1
      /\ \A k \in 1 .. Len(q) - 1 : Tail(q)[k] = q[k + 1]
  BY TailPbuf
<1>2. \A j \in 1 .. Len(q) : q[j] \in Pbuf /\ q[j].ref = 1
  BY DEF Chain
<1>3. CASE Len(q) = 1
  <2>1. FreedCount(q) = 1
    BY Zenon, <1>2, <1>3, FreesAll
  <2>2. /\ pbuf_free(q) = [k \in 1 .. 1 |-> [q[k] EXCEPT !.ref = IF k <= 2 THEN @ - 1 ELSE @]]
    BY <1>3, <2>1 DEF pbuf_free
  <2>3. Tail(pbuf_free(q)) = <<>>
    BY <2>2
  <2>4. Tail(q) = <<>>
    <3>1. Tail(q) \in Seq(Pbuf) /\ Len(Tail(q)) = 0
      BY <1>1, <1>3
    <3> QED
      BY Zenon, <3>1, EmptyChain
  <2>5. ~ (Len(q) > 1)
    BY <1>3
  <2> QED
    BY Zenon, <2>1, <2>3, <2>4, <2>5
<1>4. CASE Len(q) > 1
  <2> DEFINE y == [q[2] EXCEPT !.ref = @ + 1]
             t == Tail(q)
             u == pbuf_ref(t)
             c == <<q[1]>> \o u
             f == pbuf_free(c)
  <2>1. q[1] \in Pbuf /\ q[1].ref = 1 /\ q[2] \in Pbuf /\ q[2].ref = 1
    BY <1>2, <1>4
  <2>2. y \in Pbuf /\ y.ref = 2 /\ [y EXCEPT !.ref = @ - 1] = q[2]
    <3>1. 1 + 1 = 2
      OBVIOUS
    <3> QED
      BY Zenon, <2>1, <3>1, Referenced
  <2>3. /\ t \in Seq(Pbuf) /\ Len(t) = Len(q) - 1 /\ t[1] = q[2]
        /\ \A k \in 1 .. Len(q) - 1 : t[k] = q[k + 1]
    BY <1>1, <1>4
  <2>4. u = [t EXCEPT ![1] = y]
    BY <2>3 DEF pbuf_ref
  <2> HIDE DEF y, t
  <2>5. /\ u \in Seq(Pbuf) /\ Len(u) = Len(q) - 1 /\ u[1] = y
        /\ \A k \in 2 .. Len(q) - 1 : u[k] = q[k + 1]
    <3>1. Len(t) >= 1
      BY <1>1, <1>4, <2>3
    <3>2. /\ u \in Seq(Pbuf) /\ Len(u) = Len(t) /\ u[1] = y
          /\ \A k \in 2 .. Len(t) : u[k] = t[k]
      BY <2>2, <2>3, <2>4, <3>1, NewHead
    <3> HIDE DEF u
    <3>3. \A k \in 2 .. Len(q) - 1 : k \in 1 .. Len(q) - 1
      BY <1>1
    <3> QED
      BY <2>3, <3>2, <3>3
  <2> HIDE DEF u
  <2>6. /\ c \in Seq(Pbuf) /\ Len(c) = Len(q) /\ c[1] = q[1] /\ c[2] = y
        /\ \A k \in 1 .. Len(q) - 1 : c[k + 1] = u[k]
    <3> DEFINE o == <<q[1]>>
    <3>1. o \in Seq(Pbuf) /\ Len(o) = 1 /\ o[1] = q[1]
      BY <2>1
    <3> HIDE DEF o
    <3>2. /\ o \o u \in Seq(Pbuf) /\ Len(o \o u) = Len(o) + Len(u)
          /\ \A k \in 1 .. Len(o) : (o \o u)[k] = o[k]
          /\ \A k \in 1 .. Len(u) : (o \o u)[Len(o) + k] = u[k]
      BY Zenon, <2>5, <3>1, ConcatPbuf
    <3>3. c = o \o u
      BY DEF o
    <3> HIDE DEF c
    <3>4. /\ c \in Seq(Pbuf) /\ Len(c) = Len(q) /\ c[1] = q[1]
          /\ \A k \in 1 .. Len(q) - 1 : c[k + 1] = u[k]
      <4>1. c \in Seq(Pbuf) /\ Len(c) = 1 + (Len(q) - 1) /\ c[1] = q[1]
        BY <2>5, <3>1, <3>2, <3>3
      <4>2. 1 + (Len(q) - 1) = Len(q) /\ \A k \in 1 .. Len(q) - 1 : k + 1 = 1 + k
        BY <1>1
      <4>3. \A k \in 1 .. Len(q) - 1 : c[1 + k] = u[k]
        BY <2>5, <3>1, <3>2, <3>3
      <4> QED
        BY <4>1, <4>2, <4>3
    <3>5. c[2] = y
      <4>1. PICK k \in 1 .. Len(q) - 1 : k = 1
        BY <1>1, <1>4
      <4> QED
        BY <2>5, <3>4, <4>1
    <3> QED
      BY <3>4, <3>5
  <2> HIDE DEF c
  <2>7. FreedCount(c) = 1
    BY <1>1, <1>4, <2>1, <2>2, <2>6, FreedIs
  <2>8. f = [k \in 1 .. Len(q) |-> [c[k] EXCEPT !.ref = IF k <= 2 THEN @ - 1 ELSE @]]
    BY <2>6, <2>7 DEF pbuf_free
  <2>9. ASSUME NEW k \in 1 .. Len(q) - 1
        PROVE  f[k + 1] = q[k + 1]
    <3>1. CASE k = 1
      BY <1>1, <1>4, <2>2, <2>6, <2>8, <3>1
    <3>2. CASE k # 1
      <4>1. f[k + 1] = [c[k + 1] EXCEPT !.ref = @]
        BY SMTT(60), <1>1, <2>8, <3>2
      <4>2. c[k + 1] = q[k + 1] /\ q[k + 1] \in Pbuf
        <5>1. k \in 2 .. Len(q) - 1 /\ k + 1 \in 1 .. Len(q)
          BY <1>1, <3>2
        <5> QED
          BY <1>2, <2>5, <2>6, <5>1
      <4>3. [q[k + 1] EXCEPT !.ref = @] = q[k + 1]
        BY Zenon, <4>2 DEF Pbuf
      <4> QED
        BY <4>1, <4>2, <4>3
    <3> QED
      BY <3>1, <3>2
  <2>10. Tail(f) = Tail(q)
    <3> DEFINE g == [k \in 1 .. Len(q) - 1 |-> f[k + 1]]
    <3>1. Tail(f) = g
      BY <1>1, <1>4, <2>8
    <3> HIDE DEF f
    <3>2. g \in Seq(Pbuf) /\ Len(g) = Len(q) - 1
      <4>1. \A k \in 1 .. Len(q) - 1 : f[k + 1] \in Pbuf
        <5> TAKE k \in 1 .. Len(q) - 1
        <5>1. k + 1 \in 1 .. Len(q)
          BY <1>1
        <5> QED
          BY <1>2, <2>9, <5>1
      <4>2. g \in [1 .. Len(q) - 1 -> Pbuf]
        BY <4>1
      <4>3. PICK l \in Nat : l = Len(q) - 1
        <5>1. Len(q) - 1 \in Nat
          BY <1>1
        <5> QED
          BY <5>1
      <4>4. g \in [1 .. l -> Pbuf]
        BY <4>2, <4>3
      <4> HIDE DEF g
      <4> QED
        BY <4>3, <4>4
    <3>3. \A k \in 1 .. Len(q) - 1 : g[k] = t[k]
      BY <2>3, <2>9
    <3> HIDE DEF g
    <3>4. g = t
      BY <2>3, <3>2, <3>3, SamePbufs
    <3> QED
      BY <3>1, <3>4 DEF t
  <2> QED
    BY <1>4, <2>7, <2>10 DEF c, u, t
<1> QED
  BY <1>1, <1>3, <1>4

-----------------------------------------------------------------------------
(* The window.                                                             *)

LEMMA RecvedIs ==
    ASSUME rcv_wnd \in 0 .. TCP_WND, NEW n \in Nat
    PROVE  tcp_recved(n) = IF rcv_wnd + n <= TCP_WND THEN rcv_wnd + n ELSE TCP_WND
<1>1. PICK a \in Nat : a = rcv_wnd + n
  OBVIOUS
<1>2. PICK w \in Nat : w = TCP_WND
  BY WindowAssumption
<1>3. Min({a, w}) = IF a <= w THEN a ELSE w
  BY DEF Min
<1> QED
  BY <1>1, <1>2, <1>3 DEF tcp_recved

LEMMA Recved ==
    ASSUME rcv_wnd \in 0 .. TCP_WND, NEW n \in Nat
    PROVE  /\ tcp_recved(n) \in 0 .. TCP_WND /\ tcp_recved(n) >= rcv_wnd
           /\ rcv_wnd + n >= TCP_WND => tcp_recved(n) = TCP_WND
  BY RecvedIs, WindowAssumption

-----------------------------------------------------------------------------
(* Every step keeps the invariant.                                         *)

LEMMA InitInv == Init => IInv
<1> SUFFICES ASSUME Init PROVE IInv
  OBVIOUS
<1>1. p = <<>> /\ Len(p) = 0 /\ p \in Seq(Pbuf) /\ got = <<>> /\ got \in Seq(0 .. MaxBytes)
  BY DEF Init
<1>2. TypeOK
  <2>1. cpcb \in BOOLEAN /\ flushed \in BOOLEAN
    BY Zenon DEF Init
  <2>2. /\ read \in 0 .. MaxBytes /\ rcv_wnd \in 0 .. TCP_WND /\ pool \in Nat
        /\ sent \in 0 .. MaxBytes /\ conns \in 0 .. MaxConns
    BY WindowAssumption, LimitsAssumption DEF Init
  <2> QED
    BY <1>1, <2>1, <2>2 DEF Init, TypeOK
<1>3. ChainInv
  BY <1>1 DEF Init, ChainInv, Chain
<1> QED
  BY <1>1, <1>2, <1>3 DEF Init, IInv, ReadInv, WindowInv, CloseIsClean

LEMMA AcceptStep == IInv /\ do_accept => IInv'
<1> SUFFICES ASSUME IInv, do_accept PROVE IInv'
  OBVIOUS
<1>1. p' = <<>> /\ Len(p') = 0 /\ p' \in Seq(Pbuf)' /\ got' \in Seq(0 .. MaxBytes)
  BY DEF do_accept
<1>2. TypeOK'
  <2>1. cpcb' \in BOOLEAN /\ flushed' \in BOOLEAN
    BY Zenon DEF do_accept
  <2>2. /\ read' \in 0 .. MaxBytes /\ rcv_wnd' \in 0 .. TCP_WND /\ pool' \in Nat
        /\ sent' \in 0 .. MaxBytes /\ conns' \in 0 .. MaxConns
    BY WindowAssumption, LimitsAssumption DEF do_accept, IInv, TypeOK
  <2>3. state' = "ESTABLISHED"
    BY DEF do_accept
  <2> QED
    BY <1>1, <2>1, <2>2, <2>3 DEF TypeOK
<1>3. ChainInv'
  <2>1. pool = 0
    BY DEF IInv, TypeOK, ChainInv, do_accept
  <2> QED
    BY <1>1, <2>1 DEF do_accept, ChainInv, Chain
<1>4. ReadInv'
  BY <1>1 DEF do_accept, ReadInv
<1>5. WindowInv'
  BY <1>1 DEF do_accept, WindowInv
<1> QED
  BY <1>2, <1>3, <1>4, <1>5 DEF do_accept, IInv, CloseIsClean

\* The facts about the chain that each step of the invariant proof uses.
LEMMA HeadFacts ==
    ASSUME IInv, p # <<>>
    PROVE  /\ Len(p) \in Nat /\ Len(p) >= 1 /\ p[1] \in Pbuf
           /\ p[1].data \in Seq(1 .. MaxBytes) /\ Len(p[1].data) \in Nat
           /\ tot_len(p) = p[1].tot_len /\ tot_len(p) \in 0 .. MaxBytes
           /\ tot_len(p) \in Nat /\ tot_len(p) <= sent
           /\ Len(p) = 1 => tot_len(p) = Len(p[1].data)
           /\ Len(p) > 1 => tot_len(p) = Len(p[1].data) + p[2].tot_len
<1>1. p \in Seq(Pbuf) /\ Chain(p, sent)
  BY DEF IInv, TypeOK, ChainInv
<1>2. Len(p) \in Nat /\ Len(p) >= 1 /\ p[1] \in Pbuf
  BY <1>1, TailPbuf
<1>3. /\ p[1].data \in Seq(1 .. MaxBytes) /\ Len(p[1].data) \in Nat
      /\ p[1].tot_len \in 0 .. MaxBytes /\ p[1].tot_len \in Nat
  BY <1>2, PbufFields
<1>4. PICK k \in 1 .. Len(p) : k = 1
  BY <1>2
<1>5. /\ p[k].tot_len = Len(p[k].data) + (IF k < Len(p) THEN p[k + 1].tot_len ELSE 0)
      /\ p[k].tot_len <= sent
  BY <1>1 DEF Chain
<1>6. Len(p) = 1 => p[1].tot_len = Len(p[1].data)
  BY <1>3, <1>4, <1>5
<1>7. Len(p) > 1 => p[1].tot_len = Len(p[1].data) + p[2].tot_len
  BY <1>2, <1>4, <1>5
<1> QED
  BY <1>2, <1>3, <1>4, <1>5, <1>6, <1>7 DEF tot_len

\* What do_recv makes of the chain.
LEMMA RecvEffect ==
    ASSUME NEW e \in 0 .. MaxEmpty, NEW n \in 1 .. MaxSeg, NEW m \in 1 .. n,
           IInv, do_recv(e, n, m)
    PROVE  /\ n \in Nat /\ n >= 1 /\ sent' = sent + n /\ sent + n <= MaxBytes
           /\ p' \in Seq(Pbuf) /\ p' # <<>> /\ pool' = Len(p') /\ Chain(p', sent + n)
           /\ p'[1].tot_len = (IF p = <<>> THEN n ELSE tot_len(p) + n)
           /\ p # <<>> => p'[1].data = p[1].data
<1> DEFINE g == Segment(e, n, m)
<1>1. /\ n \in Nat /\ n >= 1 /\ sent \in Nat /\ sent + n <= MaxBytes /\ p \in Seq(Pbuf)
      /\ sent' = sent + n
  BY WindowAssumption, LimitsAssumption DEF IInv, TypeOK, do_recv
<1>2. g \in Seq(Pbuf) /\ Len(g) \in Nat \ {0} /\ g[1].tot_len = n /\ Chain(g, sent + n)
  <2>1. e \in Nat
    BY LimitsAssumption
  <2> QED
    BY Zenon, <1>1, <2>1, SegmentChain
<1>3. /\ p' = (IF p # <<>> THEN pbuf_cat(p, g) ELSE g) /\ pool' = pool + Len(g)
  BY DEF do_recv
<1> HIDE DEF g
<1>4. /\ p' \in Seq(Pbuf) /\ p' # <<>> /\ Len(p') = Len(p) + Len(g) /\ Chain(p', sent + n)
      /\ p'[1].tot_len = (IF p = <<>> THEN n ELSE tot_len(p) + n)
      /\ p # <<>> => p'[1].data = p[1].data
  <2>1. CASE p = <<>>
    BY <1>2, <1>3, <2>1
  <2>2. CASE p # <<>>
    <3>1. g # <<>> /\ Chain(p, sent)
      BY <1>2 DEF IInv, ChainInv
    <3>2. /\ pbuf_cat(p, g) \in Seq(Pbuf) /\ Len(pbuf_cat(p, g)) = Len(p) + Len(g)
          /\ pbuf_cat(p, g)[1].tot_len = p[1].tot_len + n
          /\ pbuf_cat(p, g)[1].data = p[1].data
          /\ Chain(pbuf_cat(p, g), sent + n)
      BY <1>1, <1>2, <2>2, <3>1, CatChain
    <3>3. p' = pbuf_cat(p, g)
      BY <1>3, <2>2
    <3>4. p' \in Seq(Pbuf) /\ Len(p') = Len(p) + Len(g) /\ Len(p) \in Nat
      BY <1>1, <3>2, <3>3
    <3>5. p' # <<>>
      BY <1>2, <3>4
    <3> QED
      BY <2>2, <3>2, <3>3, <3>5 DEF tot_len
  <2> QED
    BY <2>1, <2>2
<1>5. pool' = Len(p')
  BY <1>3, <1>4 DEF IInv, ChainInv
<1> QED
  BY <1>1, <1>4, <1>5

LEMMA RecvStep ==
    ASSUME NEW e \in 0 .. MaxEmpty, NEW n \in 1 .. MaxSeg, NEW m \in 1 .. n
    PROVE  IInv /\ do_recv(e, n, m) => IInv'
<1> SUFFICES ASSUME IInv, do_recv(e, n, m) PROVE IInv'
  OBVIOUS
<1>1. /\ n \in Nat /\ n >= 1 /\ sent' = sent + n /\ sent + n <= MaxBytes /\ sent \in Nat
  BY RecvEffect, LimitsAssumption DEF IInv, TypeOK
<1>4. /\ p' \in Seq(Pbuf) /\ p' # <<>> /\ pool' = Len(p') /\ Chain(p', sent + n)
      /\ p'[1].tot_len = (IF p = <<>> THEN n ELSE tot_len(p) + n)
      /\ p # <<>> => p'[1].data = p[1].data
  BY RecvEffect
<1>5. TypeOK'
  <2>1. /\ cpcb' \in BOOLEAN /\ flushed' \in BOOLEAN /\ got' \in Seq(0 .. MaxBytes)
        /\ state' \in {"ESTABLISHED", "CLOSING", "RESET"}
    BY DEF do_recv, IInv, TypeOK
  <2>2. /\ read' \in 0 .. MaxBytes /\ conns' \in 0 .. MaxConns
    BY DEF do_recv, IInv, TypeOK
  <2>3. rcv_wnd' \in 0 .. TCP_WND /\ sent' \in 0 .. MaxBytes
    BY <1>1, WindowAssumption, LimitsAssumption DEF do_recv, IInv, TypeOK
  <2>4. pool' \in Nat
    BY <1>4
  <2>5. p' \in Seq(Pbuf)'
    BY <1>4 DEF Pbuf
  <2> QED
    BY <2>1, <2>2, <2>3, <2>4, <2>5 DEF TypeOK
<1>6. ChainInv'
  BY SMTT(60), <1>1, <1>4 DEF ChainInv, Chain, do_recv
<1>7. ReadInv'
  <2>1. read' = read /\ flushed' = flushed /\ cpcb
    BY DEF do_recv
  <2>2. CASE p = <<>>
    <3>1. read = 0
      BY <2>1, <2>2 DEF IInv, ReadInv
    <3>2. p'[1].data \in Seq(1 .. MaxBytes)
      <4>1. 1 \in 1 .. Len(p')
        BY <1>4
      <4> QED
        BY <1>4, <4>1, ElementOf, PbufFields
    <3>3. p'[1].tot_len = n
      BY <1>4, <2>2
    <3>4. read' <= p'[1].tot_len
      BY <1>1, <2>1, <3>1, <3>3
    <3>5. p'[1].data # <<>> => read' < Len(p'[1].data)
      BY <2>1, <3>1, <3>2, NonEmpty
    <3> QED
      BY <1>4, <3>4, <3>5 DEF ReadInv, tot_len
  <2>3. CASE p # <<>>
    <3>1. /\ tot_len(p) \in Nat /\ read \in Nat /\ read <= tot_len(p)
          /\ ~ flushed /\ p[1].data # <<>> => read < Len(p[1].data)
      BY <2>3, HeadFacts, LimitsAssumption DEF IInv, TypeOK, ReadInv
    <3>2. p'[1].tot_len = tot_len(p) + n /\ p'[1].data = p[1].data
      BY <1>4, <2>3
    <3>3. read' <= p'[1].tot_len
      BY <1>1, <2>1, <3>1, <3>2
    <3> QED
      BY <1>4, <2>1, <3>1, <3>2, <3>3 DEF ReadInv, tot_len
  <2> QED
    BY <2>2, <2>3
<1>8. WindowInv'
  <2>1. rcv_wnd' = rcv_wnd - n /\ cpcb /\ rcv_wnd \in Nat /\ rcv_wnd' + n = rcv_wnd
    BY <1>1, WindowAssumption DEF IInv, TypeOK, do_recv
  <2>2. CASE p = <<>>
    <3>1. rcv_wnd = TCP_WND /\ p'[1].tot_len = n
      BY <1>4, <2>1, <2>2 DEF IInv, WindowInv
    <3>2. rcv_wnd' + p'[1].tot_len >= TCP_WND
      BY <2>1, <3>1, WindowAssumption
    <3> QED
      BY <1>4, <3>2 DEF WindowInv, tot_len
  <2>3. CASE p # <<>>
    <3>1. rcv_wnd + tot_len(p) >= TCP_WND /\ tot_len(p) \in Nat
      BY <2>1, <2>3, HeadFacts DEF IInv, WindowInv
    <3>2. rcv_wnd' + (tot_len(p) + n) >= TCP_WND
      BY <1>1, <2>1, <3>1, WindowAssumption
    <3>3. p'[1].tot_len = tot_len(p) + n
      BY <1>4, <2>3
    <3> QED
      BY <1>4, <3>2, <3>3 DEF WindowInv, tot_len
  <2> QED
    BY <2>2, <2>3
<1> QED
  BY <1>5, <1>6, <1>7, <1>8 DEF do_recv, IInv, CloseIsClean

LEMMA GotTyped == IInv /\ readLocked => got' \in Seq(0 .. MaxBytes)
<1> SUFFICES ASSUME IInv, readLocked PROVE got' \in Seq(0 .. MaxBytes)
  OBVIOUS
<1>1. p # <<>>
  BY DEF readLocked, available
<1>2. p[1].data \in Seq(1 .. MaxBytes) /\ Len(p[1].data) \in Nat /\ read \in Nat
  BY <1>1, HeadFacts, LimitsAssumption DEF IInv, TypeOK
<1>3. NextByte \in 0 .. MaxBytes
  <2>1. CASE read < Len(p[1].data)
    <3>1. p[1].data[read + 1] \in 1 .. MaxBytes
      <4>1. read + 1 \in 1 .. Len(p[1].data)
        BY <1>2, <2>1
      <4> QED
        BY Zenon, <1>2, <4>1, ElementOf
    <3> QED
      BY <2>1, <3>1, LimitsAssumption DEF NextByte
  <2>2. CASE ~ (read < Len(p[1].data))
    BY <2>2, LimitsAssumption DEF NextByte, Garbage
  <2> QED
    BY <2>1, <2>2
<1>4. got \in Seq(0 .. MaxBytes) /\ got' = Append(got, NextByte)
  BY DEF IInv, TypeOK, readLocked
<1> QED
  BY <1>3, <1>4

\* read() that leaves the first pbuf in place.
LEMMA ReadOnStep == IInv /\ readLocked /\ read + 1 # Len(p[1].data) => IInv'
<1> SUFFICES ASSUME IInv, readLocked, read + 1 # Len(p[1].data) PROVE IInv'
  OBVIOUS
<1>1. p # <<>> /\ tot_len(p) - read # 0
  BY DEF readLocked, available
<1>2. /\ tot_len(p) \in 0 .. MaxBytes /\ tot_len(p) <= sent /\ Len(p[1].data) \in Nat
  BY <1>1, HeadFacts
<1>3. /\ read \in 0 .. MaxBytes /\ read <= tot_len(p) /\ rcv_wnd \in 0 .. TCP_WND /\ cpcb
      /\ ~ flushed /\ p[1].data # <<>> => read < Len(p[1].data)
  BY <1>1 DEF IInv, TypeOK, ReadInv, ChainInv
<1>4. read' = read + 1 /\ p' = p /\ pool' = pool /\ rcv_wnd' = tcp_recved(read + 1)
  BY <1>3 DEF readLocked, Credit
<1>5. UNCHANGED <<cpcb, state, sent, flushed, conns>>
  BY DEF readLocked
<1>6. read + 1 <= tot_len(p) /\ read + 1 \in 0 .. MaxBytes
  BY <1>1, <1>2, <1>3, LimitsAssumption
<1>7. rcv_wnd' \in 0 .. TCP_WND /\ rcv_wnd' >= rcv_wnd
  <2>1. read + 1 \in Nat
    BY <1>3, LimitsAssumption
  <2> QED
    BY <1>3, <1>4, <2>1, Recved
<1>8. got' \in Seq(0 .. MaxBytes)
  BY GotTyped
<1>9. TypeOK'
  <2>1. /\ cpcb' \in BOOLEAN /\ flushed' \in BOOLEAN
        /\ state' \in {"ESTABLISHED", "CLOSING", "RESET"}
    BY <1>5 DEF IInv, TypeOK
  <2>2. p' \in Seq(Pbuf)'
    BY <1>4 DEF IInv, TypeOK, Pbuf
  <2>3. /\ pool' \in Nat /\ sent' \in 0 .. MaxBytes /\ conns' \in 0 .. MaxConns
    BY <1>4, <1>5 DEF IInv, TypeOK
  <2> QED
    BY <1>4, <1>6, <1>7, <1>8, <2>1, <2>2, <2>3 DEF TypeOK
<1>10. ChainInv'
  BY <1>4, <1>5 DEF IInv, ChainInv, Chain
<1>11. ReadInv'
  <2>1. ~ flushed /\ p[1].data # <<>> => read + 1 < Len(p[1].data)
    BY <1>2, <1>3, LimitsAssumption
  <2> QED
    BY <1>1, <1>4, <1>5, <1>6, <2>1 DEF ReadInv, tot_len
<1>12. WindowInv'
  <2>1. rcv_wnd + tot_len(p) >= TCP_WND
    BY <1>1, <1>3 DEF IInv, WindowInv
  <2>2. rcv_wnd' + tot_len(p) >= TCP_WND
    BY <1>2, <1>3, <1>7, <2>1, WindowAssumption, LimitsAssumption
  <2> QED
    BY <1>1, <1>4, <2>2 DEF WindowInv, tot_len
<1> QED
  BY <1>5, <1>9, <1>10, <1>11, <1>12 DEF IInv, CloseIsClean

\* read() of the last byte of the first pbuf takes that pbuf off the chain.
LEMMA ReadOffEffect ==
    ASSUME IInv, readLocked, read + 1 = Len(p[1].data)
    PROVE  /\ p # <<>> /\ cpcb /\ p' = Tail(p) /\ read' = 0 /\ pool' = pool - 1
           /\ rcv_wnd' = tcp_recved(read + 1)
           /\ Tail(p) \in Seq(Pbuf) /\ Len(Tail(p)) = Len(p) - 1 /\ Chain(Tail(p), sent)
           /\ Tail(p) = <<>> <=> Len(p) = 1
           /\ Tail(p) = <<>> => tot_len(p) = read + 1
           /\ Tail(p) # <<>> => /\ Tail(p)[1] \in Pbuf
                                /\ tot_len(p) = (read + 1) + Tail(p)[1].tot_len
<1>1. p # <<>>
  BY DEF readLocked, available
<1>2. /\ tot_len(p) \in Nat /\ tot_len(p) <= sent /\ Len(p) \in Nat /\ Len(p) >= 1
      /\ Len(p) = 1 => tot_len(p) = Len(p[1].data)
      /\ Len(p) > 1 => tot_len(p) = Len(p[1].data) + p[2].tot_len
  BY <1>1, HeadFacts
<1>3. /\ read \in 0 .. MaxBytes /\ rcv_wnd \in 0 .. TCP_WND /\ cpcb /\ sent \in Nat
      /\ p \in Seq(Pbuf) /\ Chain(p, sent) /\ pool = Len(p)
  BY <1>1, LimitsAssumption DEF IInv, TypeOK, ChainInv
<1>4. /\ read' = 0 /\ p' = Tail(p) /\ pool' = pool - 1 /\ rcv_wnd' = tcp_recved(read + 1)
  <2> DEFINE c == IF Len(p) > 1 THEN <<p[1]>> \o pbuf_ref(Tail(p)) ELSE p
  <2>1. FreedCount(c) = 1 /\ Tail(pbuf_free(c)) = Tail(p)
    BY Zenon, <1>1, <1>3, FreesFirst
  <2>2. read' = 0 /\ p' = Tail(pbuf_free(c)) /\ pool' = pool - FreedCount(c)
    BY Zenon DEF readLocked
  <2>3. rcv_wnd' = tcp_recved(read + 1)
    BY <1>3 DEF readLocked, Credit
  <2> HIDE DEF c
  <2> QED
    BY <2>1, <2>2, <2>3
<1>6. /\ Tail(p) \in Seq(Pbuf) /\ Len(Tail(p)) = Len(p) - 1 /\ Chain(Tail(p), sent)
      /\ Len(p) > 1 => Tail(p)[1] = p[2]
  <2>1. /\ Tail(p) \in Seq(Pbuf) /\ Len(Tail(p)) = Len(p) - 1 /\ Chain(Tail(p), sent)
        /\ \A k \in 1 .. Len(p) - 1 : Tail(p)[k] = p[k + 1]
    BY <1>1, <1>3, TailPbuf, TailChain
  <2>2. Len(p) > 1 => 1 \in 1 .. Len(p) - 1 /\ 1 + 1 = 2
    BY <1>2
  <2> QED
    BY <2>1, <2>2
<1>9. Tail(p) = <<>> <=> Len(p) = 1
  <2>1. Tail(p) = <<>> <=> Len(Tail(p)) = 0
    BY <1>6, EmptyChain
  <2> QED
    BY <1>2, <1>6, <2>1
<1>10. Tail(p) # <<>> => Len(p) > 1 /\ Tail(p)[1] \in Pbuf
  <2> HAVE Tail(p) # <<>>
  <2>1. Len(p) \in Nat /\ Len(p) >= 1 /\ Len(p) # 1
    BY <1>2, <1>9
  <2>2. \A l \in Nat : l >= 1 /\ l # 1 => l > 1
    OBVIOUS
  <2>3. Len(p) > 1
    BY <2>1, <2>2
  <2> QED
    BY <1>6, <2>3, TailPbuf
<1> QED
  BY Zenon, <1>1, <1>2, <1>3, <1>4, <1>6, <1>9, <1>10

\* read() of the last byte of the first pbuf.
LEMMA ReadOffStep == IInv /\ readLocked /\ read + 1 = Len(p[1].data) => IInv'
<1> SUFFICES ASSUME IInv, readLocked, read + 1 = Len(p[1].data) PROVE IInv'
  OBVIOUS
<1>1. /\ p # <<>> /\ cpcb /\ p' = Tail(p) /\ read' = 0 /\ pool' = pool - 1
      /\ rcv_wnd' = tcp_recved(read + 1)
  BY ReadOffEffect
<1>2. /\ Tail(p) \in Seq(Pbuf) /\ Len(Tail(p)) = Len(p) - 1 /\ Chain(Tail(p), sent)
      /\ Tail(p) = <<>> => tot_len(p) = read + 1
      /\ Tail(p) # <<>> => /\ Tail(p)[1] \in Pbuf
                           /\ tot_len(p) = (read + 1) + Tail(p)[1].tot_len
  BY ReadOffEffect
<1>3. /\ read \in 0 .. MaxBytes /\ rcv_wnd \in 0 .. TCP_WND /\ sent \in Nat
      /\ pool = Len(p) /\ Len(p) \in Nat /\ Len(p) >= 1
  BY <1>1, HeadFacts, LimitsAssumption DEF IInv, TypeOK, ChainInv
<1>5. UNCHANGED <<cpcb, state, sent, flushed, conns>>
  BY DEF readLocked
<1>7. /\ rcv_wnd' \in 0 .. TCP_WND /\ rcv_wnd' >= rcv_wnd
      /\ rcv_wnd + (read + 1) >= TCP_WND => rcv_wnd' = TCP_WND
  <2>1. read + 1 \in Nat
    BY <1>3, LimitsAssumption
  <2> QED
    BY <1>1, <1>3, <2>1, Recved
<1>8. got' \in Seq(0 .. MaxBytes)
  BY GotTyped
<1>10. TypeOK'
  <2>1. /\ cpcb' \in BOOLEAN /\ flushed' \in BOOLEAN
        /\ state' \in {"ESTABLISHED", "CLOSING", "RESET"}
    BY <1>5 DEF IInv, TypeOK
  <2>2. p' \in Seq(Pbuf)'
    BY <1>1, <1>2 DEF Pbuf
  <2>3. /\ sent' \in 0 .. MaxBytes /\ conns' \in 0 .. MaxConns
    BY <1>5 DEF IInv, TypeOK
  <2>4. pool' \in Nat /\ read' \in 0 .. MaxBytes
    BY <1>1, <1>3, LimitsAssumption
  <2> QED
    BY <1>7, <1>8, <2>1, <2>2, <2>3, <2>4 DEF TypeOK
<1>11. ChainInv'
  BY ZenonT(60), <1>1, <1>2, <1>3, <1>5 DEF ChainInv, Chain
<1>12. ReadInv'
  <2>1. SUFFICES ASSUME p' # <<>>
                 PROVE  /\ read' <= p'[1].tot_len
                        /\ p'[1].data # <<>> => read' < Len(p'[1].data)
    BY <1>1 DEF ReadInv, tot_len
  <2>2. p'[1] \in Pbuf /\ 1 \in 1 .. Len(p')
    BY <1>1, <1>2, <2>1
  <2>3. p'[1].data \in Seq(1 .. MaxBytes) /\ p'[1].tot_len \in Nat
    BY <2>2, PbufFields
  <2>4. p'[1].data # <<>> => Len(p'[1].data) \in Nat /\ Len(p'[1].data) >= 1
    BY Zenon, <2>3, NonEmpty
  <2>5. read' = 0
    BY <1>1
  <2> QED
    BY <2>3, <2>4, <2>5
<1>13. WindowInv'
  <2>1. rcv_wnd + tot_len(p) >= TCP_WND
    BY <1>1 DEF IInv, WindowInv
  <2>2. CASE p' = <<>>
    <3>1. rcv_wnd' = TCP_WND
      BY <1>1, <1>2, <1>7, <2>1, <2>2
    <3> QED
      BY <2>2, <3>1 DEF WindowInv
  <2>3. CASE p' # <<>>
    <3>1. tot_len(p) = (read + 1) + p'[1].tot_len /\ p'[1].tot_len \in Nat
      BY <1>1, <1>2, <2>3, PbufFields
    <3>2. PICK h \in Nat, l \in Nat, w \in Nat, v \in Nat, z \in Nat :
                 h = read + 1 /\ l = p'[1].tot_len /\ w = rcv_wnd /\ v = rcv_wnd' /\ z = TCP_WND
      <4>1. read + 1 \in Nat
        BY <1>3
      <4>2. rcv_wnd \in Nat /\ rcv_wnd' \in Nat /\ TCP_WND \in Nat
        BY <1>3, <1>7, WindowAssumption
      <4> QED
        BY Zenon, <3>1, <4>1, <4>2
    <3>3. tcp_recved(h) = (IF w + h <= z THEN w + h ELSE z)
      BY <1>3, <3>2, RecvedIs
    <3>4. w + (h + l) >= z /\ v = (IF w + h <= z THEN w + h ELSE z)
      BY Zenon, <1>1, <2>1, <3>1, <3>2, <3>3
    <3>5. v + l >= z
      BY <3>4
    <3> QED
      BY <2>3, <3>2, <3>5 DEF WindowInv, tot_len
  <2> QED
    BY <2>2, <2>3
<1> QED
  BY <1>5, <1>10, <1>11, <1>12, <1>13 DEF IInv, CloseIsClean

LEMMA FlushStep == IInv /\ flush => IInv'
<1> SUFFICES ASSUME IInv, flush PROVE IInv'
  OBVIOUS
<1>1. p # <<>>
  BY DEF flush, available
<1>2. tot_len(p) \in 0 .. MaxBytes /\ tot_len(p) \in Nat
  BY <1>1, HeadFacts
<1>3. rcv_wnd \in 0 .. TCP_WND /\ cpcb
  BY <1>1 DEF IInv, TypeOK, ChainInv
<1>4. /\ read' = tot_len(p) /\ flushed' = TRUE /\ rcv_wnd' = tcp_recved(0)
      /\ UNCHANGED <<cpcb, p, state, pool, sent, got, conns>>
  BY DEF flush
<1>5. rcv_wnd' \in 0 .. TCP_WND /\ rcv_wnd' >= rcv_wnd
  BY <1>3, <1>4, Recved
<1>6. TypeOK'
  <2>1. /\ cpcb' \in BOOLEAN /\ flushed' \in BOOLEAN
        /\ state' \in {"ESTABLISHED", "CLOSING", "RESET"}
    BY <1>4 DEF IInv, TypeOK
  <2>2. p' \in Seq(Pbuf)' /\ got' \in Seq(0 .. MaxBytes)
    BY <1>4 DEF IInv, TypeOK, Pbuf
  <2>3. /\ pool' \in Nat /\ sent' \in 0 .. MaxBytes /\ conns' \in 0 .. MaxConns
    BY <1>4 DEF IInv, TypeOK
  <2> QED
    BY <1>2, <1>4, <1>5, <2>1, <2>2, <2>3 DEF TypeOK
<1>7. ChainInv'
  BY <1>4 DEF IInv, ChainInv, Chain
<1>8. ReadInv'
  BY <1>1, <1>2, <1>4 DEF ReadInv, tot_len
<1>9. WindowInv'
  <2>1. rcv_wnd + tot_len(p) >= TCP_WND
    BY <1>1, <1>3 DEF IInv, WindowInv
  <2>2. rcv_wnd' + tot_len(p) >= TCP_WND
    BY <1>2, <1>3, <1>5, <2>1, WindowAssumption
  <2> QED
    BY <1>1, <1>4, <2>2 DEF WindowInv, tot_len
<1> QED
  BY <1>4, <1>6, <1>7, <1>8, <1>9 DEF IInv, CloseIsClean

\* What the window lacks is in the chain, so the rest of it opens the window
\* wholly.
LEMMA RestOpens == IInv /\ cpcb => CreditRest = TCP_WND
<1> SUFFICES ASSUME IInv, cpcb PROVE CreditRest = TCP_WND
  OBVIOUS
<1>1. CASE p = <<>>
  BY <1>1 DEF CreditRest, IInv, WindowInv
<1>2. CASE p # <<>>
  <2>1. rcv_wnd \in 0 .. TCP_WND /\ tot_len(p) \in Nat /\ rcv_wnd + tot_len(p) >= TCP_WND
    BY <1>2, HeadFacts DEF IInv, TypeOK, WindowInv
  <2> QED
    BY <1>2, <2>1, Recved DEF CreditRest
<1> QED
  BY <1>1, <1>2

\* Each way a connection ends frees the chain and leaves the slot empty.
LEMMA Emptied ==
    ASSUME IInv, cpcb' = FALSE, p' = <<>>, pool' = pool - FreedCount(p),
           state' = "CLOSING", rcv_wnd' \in 0 .. TCP_WND, read' \in 0 .. MaxBytes,
           UNCHANGED <<sent, got, flushed, conns>>
    PROVE  IInv'
<1>1. p \in Seq(Pbuf) /\ Chain(p, sent) /\ pool = Len(p) /\ sent \in Nat /\ Len(p) \in Nat
  BY LimitsAssumption DEF IInv, TypeOK, ChainInv
<1>2. pool' = 0
  <2>1. FreedCount(p) = Len(p)
    BY <1>1, FreesAll
  <2> QED
    BY <1>1, <2>1
<1>3. Len(p') = 0 /\ p' \in Seq(Pbuf)'
  OBVIOUS
<1>4. TypeOK'
  <2>1. /\ cpcb' \in BOOLEAN /\ flushed' \in BOOLEAN
        /\ state' \in {"ESTABLISHED", "CLOSING", "RESET"}
    BY Zenon DEF IInv, TypeOK
  <2>2. got' \in Seq(0 .. MaxBytes) /\ sent' \in 0 .. MaxBytes /\ conns' \in 0 .. MaxConns
    BY DEF IInv, TypeOK
  <2>3. pool' \in Nat
    BY <1>2
  <2> QED
    BY <1>3, <2>1, <2>2, <2>3 DEF TypeOK
<1>5. ChainInv'
  BY <1>2, <1>3 DEF ChainInv, Chain
<1> QED
  BY <1>4, <1>5 DEF IInv, ReadInv, WindowInv, CloseIsClean

LEMMA CloseSlotStep ==
    ASSUME IInv, CloseSlot, read' \in 0 .. MaxBytes
    PROVE  IInv'
<1>1. /\ cpcb' = FALSE /\ p' = <<>> /\ pool' = pool - FreedCount(p)
      /\ UNCHANGED <<sent, got, flushed, conns>>
  BY DEF CloseSlot
<1>2. rcv_wnd' = TCP_WND
  BY RestOpens DEF CloseSlot
<1>3. state' = "CLOSING"
  BY <1>2 DEF CloseSlot, tcp_close
<1>4. rcv_wnd' \in 0 .. TCP_WND
  BY <1>2, WindowAssumption
<1> QED
  BY Zenon, <1>1, <1>3, <1>4, Emptied

LEMMA CloseStep == IInv /\ do_close => IInv'
<1>1. do_close => CloseSlot /\ read' \in 0 .. MaxBytes
  BY LimitsAssumption DEF do_close
<1> QED
  BY <1>1, CloseSlotStep

LEMMA StopStep == IInv /\ stop => IInv'
<1>1. IInv /\ stop => CloseSlot /\ read' \in 0 .. MaxBytes
  BY DEF stop, IInv, TypeOK
<1> QED
  BY <1>1, CloseSlotStep

LEMMA ErrStep == IInv /\ do_err => IInv'
<1> SUFFICES ASSUME IInv, do_err PROVE IInv'
  OBVIOUS
<1>1. /\ cpcb' = FALSE /\ p' = <<>> /\ pool' = pool - FreedCount(p) /\ state' = "CLOSING"
      /\ UNCHANGED <<sent, got, flushed, conns>>
  BY DEF do_err
<1>2. rcv_wnd' \in 0 .. TCP_WND /\ read' \in 0 .. MaxBytes
  BY LimitsAssumption DEF do_err, IInv, TypeOK
<1> QED
  BY ZenonT(60), <1>1, <1>2, Emptied

LEMMA StutterStep == IInv /\ UNCHANGED vars => IInv'
<1> SUFFICES ASSUME IInv, UNCHANGED vars PROVE IInv'
  OBVIOUS
<1>1. TypeOK'
  BY DEF IInv, TypeOK, Pbuf, vars
<1>2. ChainInv' /\ ReadInv' /\ WindowInv' /\ CloseIsClean'
  BY DEF IInv, ChainInv, Chain, ReadInv, WindowInv, CloseIsClean, tot_len, vars
<1> QED
  BY <1>1, <1>2 DEF IInv

\* Each callback of lwIP and each call of the sketch keeps the chain, the read
\* position, the window and the reference counts consistent with each other.
LEMMA NextStep == IInv /\ [Next]_vars => IInv'
<1> SUFFICES ASSUME IInv, [Next]_vars PROVE IInv'
  OBVIOUS
<1>1. CASE do_accept
  BY <1>1, AcceptStep
<1>2. CASE \E e \in 0 .. MaxEmpty, n \in 1 .. MaxSeg : \E m \in 1 .. n : do_recv(e, n, m)
  BY <1>2, RecvStep
<1>3. CASE readLocked
  BY <1>3, ReadOnStep, ReadOffStep
<1>4. CASE flush
  BY <1>4, FlushStep
<1>5. CASE do_close
  BY <1>5, CloseStep
<1>6. CASE stop
  BY <1>6, StopStep
<1>7. CASE do_err
  BY <1>7, ErrStep
<1>8. CASE UNCHANGED vars
  BY <1>8, StutterStep
<1> QED
  BY <1>1, <1>2, <1>3, <1>4, <1>5, <1>6, <1>7, <1>8 DEF Next

\* So they are consistent on every behaviour of the slot.
THEOREM Inductive == Spec => []IInv
  BY InitInv, NextStep, PTL DEF Spec

\* The variables of the slot keep their types on every behaviour; with them
\* the window never exceeds TCP_WND, which tcp_recved clamps.
THEOREM StreamTypeOK == Spec => []TypeOK
<1>1. IInv => TypeOK
  BY DEF IInv
<1> QED
  BY <1>1, Inductive, PTL

\* What the slot lets go of is given back: however segments are split into
\* pbufs, pbuf_ref and pbuf_free leave one reference on each pbuf of the chain
\* and none outside it, and a connection whose data has all been read offers
\* the whole window.
THEOREM StreamBuffersReturned == Spec => []BuffersReturned
<1>1. IInv => BuffersReturned
  <2> SUFFICES ASSUME IInv PROVE BuffersReturned
    OBVIOUS
  <2>1. DOMAIN p = 1 .. Len(p)
    BY DEF IInv, TypeOK
  <2> QED
    BY <2>1 DEF IInv, ChainInv, Chain, WindowInv, BuffersReturned
<1> QED
  BY <1>1, Inductive, PTL

\* do_close and stop() never make tcp_close reset the connection, whatever
\* was read, flushed or left unread before.
THEOREM StreamCloseIsClean == Spec => []CloseIsClean
<1>1. IInv => CloseIsClean
  BY DEF IInv
<1> QED
  BY <1>1, Inductive, PTL

-----------------------------------------------------------------------------
(* The chain implements ByteStream.                                        *)

\* tot_len falls along a chain, by what each pbuf holds.
LEMMA LinkFacts ==
    ASSUME NEW c \in Seq(Pbuf), NEW n \in Nat, Chain(c, n), NEW k \in 1 .. Len(c)
    PROVE  /\ c[k].tot_len \in Nat /\ Len(c[k].data) \in Nat
           /\ c[k].tot_len <= n
           /\ k = Len(c) => c[k].tot_len = Len(c[k].data)
           /\ k < Len(c) => /\ c[k].tot_len = Len(c[k].data) + c[k + 1].tot_len
                            /\ k + 1 \in 1 .. Len(c) /\ c[k + 1].tot_len \in Nat
           /\ \A j \in 1 .. Len(c[k].data) : c[k].data[j] = n - c[k].tot_len + j
<1>1. \A i \in 1 .. Len(c) : c[i] \in Pbuf
  OBVIOUS
<1>2. c[k].tot_len \in Nat /\ Len(c[k].data) \in Nat
  BY <1>1, PbufFields
<1>3. /\ c[k].tot_len <= n
      /\ c[k].tot_len = Len(c[k].data) + (IF k < Len(c) THEN c[k + 1].tot_len ELSE 0)
      /\ \A j \in 1 .. Len(c[k].data) : c[k].data[j] = n - c[k].tot_len + j
  BY DEF Chain
<1>4. k < Len(c) => k + 1 \in 1 .. Len(c)
  OBVIOUS
<1>5. k < Len(c) => c[k + 1].tot_len \in Nat
  BY <1>1, <1>4, PbufFields
<1>6. k = Len(c) => c[k].tot_len = Len(c[k].data)
  BY <1>2, <1>3
<1> QED
  BY <1>2, <1>3, <1>4, <1>5, <1>6

LEMMA LeastNat ==
    ASSUME NEW T, T \subseteq Nat, T # {}
    PROVE  Min(T) \in T /\ \A x \in T : Min(T) <= x
<1>1. PICK x \in T : \A y \in T : ~ (<<y, x>> \in OpToRel(<, Nat))
  BY Zenon, WFMin, NatLessThanWellFounded
<1>2. \A y \in T : ~ y < x
  BY Zenon, <1>1 DEF OpToRel
<1>3. \E z \in T : \A y \in T : z <= y
  BY <1>2
<1> QED
  BY Zenon, <1>3 DEF Min

\* Byte i of a chain is byte i of the last ones sent, whichever pbuf it is in.
LEMMA ByteIs ==
    ASSUME NEW c \in Seq(Pbuf), c # <<>>, NEW n \in Nat, Chain(c, n),
           NEW i \in 1 .. c[1].tot_len
    PROVE  ByteAt(c, i) = n - c[1].tot_len + i
<1> DEFINE t == c[1].tot_len
           B(k) == t - c[k].tot_len
           S == {j \in DOMAIN c : i <= Before(c, j) + Len(c[j].data)}
<1>1. /\ Len(c) \in Nat /\ Len(c) >= 1 /\ DOMAIN c = 1 .. Len(c)
      /\ 1 \in 1 .. Len(c) /\ Len(c) \in 1 .. Len(c)
  OBVIOUS
<1>2. t \in Nat /\ t <= n
  BY <1>1, LinkFacts
<1>3. \A k \in 1 .. Len(c) : Before(c, k) = B(k)
  BY DEF Before, tot_len
<1>4. Len(c) \in S
  <2>1. c[Len(c)].tot_len = Len(c[Len(c)].data) /\ c[Len(c)].tot_len \in Nat
    BY Zenon, <1>1, LinkFacts
  <2>2. B(Len(c)) + Len(c[Len(c)].data) = t
    BY <1>2, <2>1
  <2>3. i <= Before(c, Len(c)) + Len(c[Len(c)].data)
    BY <1>1, <1>2, <1>3, <2>2
  <2> QED
    BY <1>1, <2>3
<1>5. S \subseteq Nat
  BY <1>1
<1>6. PICK k \in S : k = Min(S) /\ \A x \in S : k <= x
  <2> HIDE DEF S
  <2> QED
    BY Zenon, <1>4, <1>5, LeastNat
<1>7. k \in 1 .. Len(c) /\ i <= B(k) + Len(c[k].data)
  BY <1>1, <1>3
<1>8. /\ c[k].tot_len \in Nat /\ Len(c[k].data) \in Nat /\ c[k].tot_len <= n
      /\ \A j \in 1 .. Len(c[k].data) : c[k].data[j] = n - c[k].tot_len + j
  BY <1>7, LinkFacts
<1>9. B(k) < i
  <2>1. CASE k = 1
    BY <1>2, <2>1
  <2>2. CASE k # 1
    <3>1. PICK h \in 1 .. Len(c) : h + 1 = k /\ h < k /\ h < Len(c)
      <4>1. k - 1 \in 1 .. Len(c) /\ (k - 1) + 1 = k /\ k - 1 < k /\ k - 1 < Len(c)
        BY <1>1, <1>7, <2>2
      <4> QED
        BY <4>1
    <3>2. h \notin S
      <4> HIDE DEF S
      <4>1. h \in S => k <= h
        BY <1>6
      <4>2. ~ (k <= h)
        BY <1>7, <3>1
      <4> QED
        BY <4>1, <4>2
    <3>3. ~ (i <= B(h) + Len(c[h].data))
      BY <1>1, <1>3, <3>2
    <3>4. /\ c[h].tot_len = Len(c[h].data) + c[k].tot_len
          /\ c[h].tot_len \in Nat /\ Len(c[h].data) \in Nat
      BY <3>1, LinkFacts
    <3> QED
      BY SMTT(60), <1>2, <1>8, <3>3, <3>4
  <2> QED
    BY <2>1, <2>2
<1>10. i - B(k) \in 1 .. Len(c[k].data)
  BY SMTT(60), <1>2, <1>7, <1>8, <1>9
<1>11. ByteAt(c, i) = c[k].data[i - B(k)]
  BY <1>3, <1>6, <1>7 DEF ByteAt
<1>12. n - c[k].tot_len + (i - B(k)) = n - t + i
  BY <1>2, <1>8
<1> QED
  BY <1>8, <1>10, <1>11, <1>12

\* What is unread is the last bytes sent.
LEMMA UnreadIs ==
    IInv => /\ available \in Nat /\ available <= sent
            /\ Unread = [i \in 1 .. available |-> sent - available + i]
            /\ p # <<>> => available = tot_len(p) - read
            /\ p = <<>> => available = 0
<1> SUFFICES ASSUME IInv
             PROVE  /\ available \in Nat /\ available <= sent
                    /\ Unread = [i \in 1 .. available |-> sent - available + i]
                    /\ p # <<>> => available = tot_len(p) - read
                    /\ p = <<>> => available = 0
  OBVIOUS
<1>1. sent \in Nat /\ read \in Nat /\ p \in Seq(Pbuf) /\ Chain(p, sent)
  BY LimitsAssumption DEF IInv, TypeOK, ChainInv
<1>2. CASE p = <<>>
  <2>1. available = 0
    BY <1>2 DEF available
  <2>2. 1 .. available = {}
    BY <2>1
  <2> QED
    BY <1>1, <1>2, <2>1, <2>2 DEF Unread
<1>3. CASE p # <<>>
  <2>1. tot_len(p) \in Nat /\ tot_len(p) <= sent /\ tot_len(p) = p[1].tot_len /\ read <= tot_len(p)
    BY <1>3, HeadFacts DEF IInv, ReadInv
  <2>2. available = tot_len(p) - read
    BY <1>3 DEF available
  <2>3. available \in Nat /\ available <= sent
    BY <1>1, <2>1, <2>2
  <2>4. ASSUME NEW i \in 1 .. available
        PROVE  ByteAt(p, read + i) = sent - available + i
    <3>1. read + i \in 1 .. p[1].tot_len
      BY <1>1, <2>1, <2>2
    <3>2. ByteAt(p, read + i) = sent - p[1].tot_len + (read + i)
      BY <1>1, <1>3, <3>1, ByteIs
    <3> QED
      BY SMTT(60), <1>1, <2>1, <2>2, <3>2
  <2> QED
    BY <1>3, <2>2, <2>3, <2>4 DEF Unread
<1> QED
  BY <1>2, <1>3

LEMMA UnreadNext ==
    IInv' => /\ available' \in Nat /\ available' <= sent'
             /\ Unread' = [i \in 1 .. available' |-> sent' - available' + i]
             /\ p' # <<>> => available' = tot_len(p)' - read'
             /\ p' = <<>> => available' = 0
<1>1. (IInv => /\ available \in Nat /\ available <= sent
               /\ Unread = [i \in 1 .. available |-> sent - available + i]
               /\ p # <<>> => available = tot_len(p) - read
               /\ p = <<>> => available = 0)'
  BY UnreadIs, PTL
<1> QED
  BY <1>1

LEMMA SameInts ==
    ASSUME NEW s \in Seq(Int), NEW t \in Seq(Int), Len(s) = Len(t),
           \A k \in 1 .. Len(s) : s[k] = t[k]
    PROVE  s = t
  OBVIOUS

LEMMA TailIs ==
    ASSUME NEW s \in Seq(Int), Len(s) >= 1
    PROVE  Tail(s) = [i \in 1 .. Len(s) - 1 |-> s[i + 1]]
<1>1. PICK l \in Nat : Len(s) = l + 1
  <2>1. Len(s) - 1 \in Nat /\ Len(s) = (Len(s) - 1) + 1
    OBVIOUS
  <2> QED
    BY Zenon, <2>1
<1> DEFINE g == [i \in 1 .. l |-> s[i + 1]]
<1>2. \A i \in 1 .. l : s[i + 1] \in Int
  BY <1>1
<1>3. g \in Seq(Int) /\ Len(g) = l /\ \A i \in 1 .. l : g[i] = s[i + 1]
  BY <1>2
<1> HIDE DEF g
<1>4. Tail(s) \in Seq(Int) /\ Len(Tail(s)) = l /\ \A i \in 1 .. l : Tail(s)[i] = s[i + 1]
  BY <1>1
<1>6. Tail(s) = g
  BY <1>3, <1>4, SameInts
<1>7. Len(s) - 1 = l
  BY <1>1
<1> QED
  BY <1>6, <1>7 DEF g

\* Sequences of consecutive numbers.
Run(a, l) == [i \in 1 .. l |-> a + i]

LEMMA RunFacts ==
    ASSUME NEW a \in Int, NEW l \in Nat
    PROVE  /\ Run(a, l) \in Seq(Int) /\ Len(Run(a, l)) = l
           /\ Run(a, l) = <<>> <=> l = 0
           /\ l > 0 => Head(Run(a, l)) = a + 1 /\ Tail(Run(a, l)) = Run(a + 1, l - 1)
           /\ \A m \in 0 .. l : SubSeq(Run(a, l), 1, m) = Run(a, m)
<1>1. Run(a, l) \in Seq(Int) /\ Len(Run(a, l)) = l
  BY DEF Run
<1>2. Run(a, l) = <<>> <=> l = 0
  BY DEF Run
<1>3. l > 0 => Head(Run(a, l)) = a + 1
  BY DEF Run
<1>4. l > 0 => Tail(Run(a, l)) = Run(a + 1, l - 1)
  <2> HAVE l > 0
  <2>1. Tail(Run(a, l)) = [i \in 1 .. l - 1 |-> Run(a, l)[i + 1]]
    BY <1>1, TailIs
  <2>2. \A i \in 1 .. l - 1 : Run(a, l)[i + 1] = (a + 1) + i
    BY DEF Run
  <2> QED
    BY <2>1, <2>2 DEF Run
<1>5. \A m \in 0 .. l : SubSeq(Run(a, l), 1, m) = Run(a, m)
  <2> TAKE m \in 0 .. l
  <2>1. SubSeq(Run(a, l), 1, m) = [i \in 1 .. m |-> Run(a, l)[i]]
    BY <1>1
  <2>2. \A i \in 1 .. m : Run(a, l)[i] = a + i
    BY DEF Run
  <2> QED
    BY <2>1, <2>2 DEF Run
<1> QED
  BY <1>1, <1>2, <1>3, <1>4, <1>5

LEMMA UnreadRun ==
    IInv => /\ available \in Nat /\ sent - available \in Int
            /\ Unread = Run(sent - available, available)
<1> SUFFICES ASSUME IInv
             PROVE  /\ available \in Nat /\ sent - available \in Int
                    /\ Unread = Run(sent - available, available)
  OBVIOUS
<1>1. sent \in Nat
  BY LimitsAssumption DEF IInv, TypeOK
<1> QED
  BY <1>1, UnreadIs DEF Run

LEMMA UnreadRunNext ==
    IInv' => /\ available' \in Nat /\ sent' - available' \in Int
             /\ Unread' = Run(sent' - available', available')
<1> SUFFICES ASSUME IInv'
             PROVE  /\ available' \in Nat /\ sent' - available' \in Int
                    /\ Unread' = Run(sent' - available', available')
  OBVIOUS
<1>1. sent' \in Nat
  BY LimitsAssumption DEF IInv, TypeOK
<1> QED
  BY <1>1, UnreadNext DEF Run

\* With no chain nothing is unread.
LEMMA NothingUnread ==
    ASSUME IInv', p' = <<>> \/ available' = 0
    PROVE  Unread' = <<>>
<1>1. available' = 0 /\ Unread' = Run(sent' - available', available') /\ sent' - available' \in Int
  BY UnreadNext, UnreadRunNext
<1> QED
  BY <1>1, RunFacts

LEMMA InitMaps == Init => Promise!Init
<1> SUFFICES ASSUME Init PROVE Promise!Init
  OBVIOUS
<1>1. Unread = <<>>
  <2>1. IInv /\ p = <<>>
    BY InitInv DEF Init
  <2>2. available = 0 /\ Unread = Run(sent - available, available) /\ sent - available \in Int
    BY <2>1, UnreadIs, UnreadRun
  <2> QED
    BY <2>2, RunFacts
<1> QED
  BY <1>1 DEF Init, Promise!Init

LEMMA AcceptMaps == IInv' /\ do_accept => Promise!Open
<1> SUFFICES ASSUME IInv', do_accept PROVE Promise!Open
  OBVIOUS
<1>1. Unread' = <<>>
  BY NothingUnread DEF do_accept
<1>2. got' = <<>> /\ Len(got') = 0 /\ ~ cpcb /\ cpcb' = TRUE
  BY DEF do_accept
<1> QED
  BY <1>1, <1>2 DEF Promise!Open

LEMMA RecvMaps ==
    ASSUME NEW e \in 0 .. MaxEmpty, NEW n \in 1 .. MaxSeg, NEW m \in 1 .. n
    PROVE  IInv /\ IInv' /\ do_recv(e, n, m) => Promise!Arrive
<1> SUFFICES ASSUME IInv, IInv', do_recv(e, n, m) PROVE Promise!Arrive
  OBVIOUS
<1>1. /\ n \in Nat /\ n >= 1 /\ sent' = sent + n /\ p' # <<>>
      /\ p'[1].tot_len = (IF p = <<>> THEN n ELSE tot_len(p) + n)
  BY RecvEffect
<1>2. cpcb /\ UNCHANGED <<cpcb, read, got>>
  BY DEF do_recv
<1>3. /\ available \in Nat /\ sent \in Nat /\ read \in Nat /\ Unread = Run(sent - available, available)
      /\ p = <<>> => available = 0 /\ read = 0
      /\ p # <<>> => available = tot_len(p) - read /\ tot_len(p) \in Nat
  <2>1. sent \in Nat /\ read \in Nat
    BY LimitsAssumption DEF IInv, TypeOK
  <2>2. available \in Nat /\ Unread = Run(sent - available, available)
    BY <1>2, UnreadRun
  <2>3. p = <<>> => available = 0 /\ read = 0
    BY <1>2 DEF available, IInv, ReadInv
  <2>4. p # <<>> => available = tot_len(p) - read /\ tot_len(p) \in Nat
    BY UnreadIs, HeadFacts
  <2> QED
    BY <2>1, <2>2, <2>3, <2>4
<1>4. available' = p'[1].tot_len - read
  BY <1>1, <1>2, UnreadNext DEF tot_len
<1>5. available' = available + n
  <2>1. CASE p = <<>>
    BY <1>1, <1>3, <1>4, <2>1
  <2>2. CASE p # <<>>
    <3>1. available = tot_len(p) - read /\ available' = (tot_len(p) + n) - read
      BY <1>1, <1>3, <1>4, <2>2
    <3> QED
      BY <1>1, <1>3, <2>2, <3>1
  <2> QED
    BY <2>1, <2>2
<1>6. PICK a \in Int, l \in Nat, h \in Nat : /\ a = sent - available /\ l = available
                                           /\ h = available + n /\ a = sent' - available'
  <2>1. sent' - available' = sent - available
    BY <1>1, <1>3, <1>5
  <2> QED
    BY <1>1, <1>3, <2>1
<1>7. Unread = Run(a, l) /\ Unread' = Run(a, h)
  BY Zenon, <1>3, <1>5, <1>6, UnreadRunNext
<1>8. h > l /\ l \in 0 .. h
  BY <1>1, <1>6
<1>9. Len(Unread') > Len(Unread) /\ SubSeq(Unread', 1, Len(Unread)) = Unread
  <2>1. Len(Run(a, l)) = l /\ Len(Run(a, h)) = h /\ SubSeq(Run(a, h), 1, l) = Run(a, l)
    BY ZenonT(60), <1>8, RunFacts
  <2>2. Len(Unread) = l /\ Len(Unread') = h /\ SubSeq(Unread', 1, l) = Unread
    BY <1>7, <2>1
  <2> QED
    BY <1>8, <2>2
<1> QED
  BY <1>2, <1>9 DEF Promise!Arrive

\* What a read() leaves: one byte fewer.
LEMMA ReadCounts ==
    ASSUME IInv, readLocked
    PROVE  available > 0 /\ available' = available - 1
<1>1. p # <<>> /\ available # 0
  BY DEF readLocked, available
<1>2. read \in Nat /\ tot_len(p) \in Nat /\ available \in Nat /\ available = tot_len(p) - read
  <2>1. read \in Nat
    BY LimitsAssumption DEF IInv, TypeOK
  <2> QED
    BY <1>1, <2>1, HeadFacts, UnreadIs
<1>3. available' = available - 1
  <2>1. CASE read + 1 # Len(p[1].data)
    <3>1. read' = read + 1 /\ p' = p
      BY <2>1 DEF readLocked
    <3>2. available' = tot_len(p) - (read + 1)
      BY <1>1, <3>1 DEF available, tot_len
    <3> QED
      BY <1>2, <3>2
  <2>2. CASE read + 1 = Len(p[1].data)
    <3>1. /\ p' = Tail(p) /\ read' = 0
          /\ Tail(p) = <<>> => tot_len(p) = read + 1
          /\ Tail(p) # <<>> => /\ Tail(p)[1] \in Pbuf
                               /\ tot_len(p) = (read + 1) + Tail(p)[1].tot_len
      BY <2>2, ReadOffEffect
    <3>2. CASE p' = <<>>
      <4>1. available' = 0
        BY <3>2 DEF available
      <4> QED
        BY <1>2, <3>1, <3>2, <4>1
    <3>3. CASE p' # <<>>
      <4>1. available' = p'[1].tot_len - 0
        BY <3>1, <3>3 DEF available, tot_len
      <4>2. p'[1].tot_len \in Nat /\ tot_len(p) = (read + 1) + p'[1].tot_len
        BY <3>1, <3>3, PbufFields
      <4> QED
        BY <1>2, <4>1, <4>2
    <3> QED
      BY <3>2, <3>3
  <2> QED
    BY <2>1, <2>2
<1> QED
  BY <1>1, <1>2, <1>3

LEMMA ReadShrinks ==
    ASSUME IInv, IInv', readLocked
    PROVE  /\ Unread # <<>> /\ Unread' = Tail(Unread)
           /\ Head(Unread) = sent - available + 1
<1>1. available > 0 /\ available' = available - 1 /\ sent' = sent
  BY ReadCounts DEF readLocked
<1>2. sent \in Nat /\ available \in Nat
  BY UnreadIs, LimitsAssumption DEF IInv, TypeOK
<1>3. PICK a \in Int, l \in Nat : a = sent - available /\ l = available
  BY <1>2
<1>4. l > 0 /\ l - 1 \in Nat /\ sent' - available' = a + 1 /\ available' = l - 1
  BY <1>1, <1>2, <1>3
<1>5. Unread = Run(a, l) /\ Unread' = Run(a + 1, l - 1)
  BY <1>3, <1>4, UnreadRun, UnreadRunNext
<1>6. /\ Run(a, l) # <<>> /\ Head(Run(a, l)) = a + 1 /\ Tail(Run(a, l)) = Run(a + 1, l - 1)
  <2>1. l # 0
    BY <1>4
  <2> QED
    BY Zenon, <1>4, <2>1, RunFacts
<1> QED
  BY <1>3, <1>5, <1>6

\* With the read position in the first pbuf the byte returned is the next one.
LEMMA NextByteIs ==
    ASSUME IInv, readLocked, ~ flushed, p[1].data # <<>>
    PROVE  NextByte = sent - available + 1
<1>1. p # <<>>
  BY DEF readLocked, available
<1>2. /\ available \in Nat /\ available = tot_len(p) - read /\ sent \in Nat /\ read \in Nat
      /\ tot_len(p) \in Nat /\ read < Len(p[1].data) /\ Len(p[1].data) \in Nat
      /\ tot_len(p) = p[1].tot_len
  <2>1. read < Len(p[1].data)
    BY <1>1 DEF IInv, ReadInv
  <2>2. sent \in Nat /\ read \in Nat
    BY LimitsAssumption DEF IInv, TypeOK
  <2>3. /\ tot_len(p) \in Nat /\ Len(p[1].data) \in Nat /\ tot_len(p) = p[1].tot_len
    BY <1>1, HeadFacts
  <2>4. available \in Nat /\ available = tot_len(p) - read
    BY <1>1, UnreadIs
  <2> QED
    BY <2>1, <2>2, <2>3, <2>4
<1>3. 1 \in 1 .. Len(p) /\ p \in Seq(Pbuf) /\ Chain(p, sent)
  BY SMTT(60), <1>1, HeadFacts DEF IInv, TypeOK, ChainInv
<1>4. \A j \in 1 .. Len(p[1].data) : p[1].data[j] = sent - p[1].tot_len + j
  <2>1. sent \in Nat
    BY <1>2
  <2> QED
    BY ZenonT(60), <1>3, <2>1, LinkFacts
<1>5. read + 1 \in 1 .. Len(p[1].data)
  BY <1>2
<1>6. p[1].data[read + 1] = sent - tot_len(p) + (read + 1)
  BY <1>2, <1>4, <1>5
<1>7. sent - tot_len(p) + (read + 1) = sent - available + 1
  <2>1. PICK x \in Nat, t \in Nat, r \in Nat, v \in Nat :
               x = sent /\ t = tot_len(p) /\ r = read /\ v = available /\ v = t - r
    BY <1>2
  <2>2. x - t + (r + 1) = x - v + 1
    BY <2>1
  <2> QED
    BY <2>1, <2>2
<1> QED
  BY <1>2, <1>6, <1>7 DEF NextByte

LEMMA ReadMaps ==
    ASSUME IInv, IInv', readLocked, ~ flushed, p[1].data # <<>>
    PROVE  Promise!Take
<1>1. Unread # <<>> /\ Unread' = Tail(Unread) /\ Head(Unread) = NextByte
  BY Zenon, ReadShrinks, NextByteIs
<1>2. UNCHANGED cpcb /\ got' = Append(got, NextByte) /\ got \in Seq(0 .. MaxBytes)
  BY DEF readLocked, IInv, TypeOK
<1>3. NextByte \in Int
  <2>1. sent \in Nat
    BY LimitsAssumption DEF IInv, TypeOK
  <2>2. available \in Nat
    BY Zenon, UnreadIs
  <2>3. NextByte = sent - available + 1
    BY Zenon, NextByteIs
  <2> QED
    BY <2>1, <2>2, <2>3
<1>4. /\ Len(got') = Len(got) + 1 /\ got' # <<>> /\ got'[Len(got')] = NextByte
  <2>1. \A s \in Seq(0 .. MaxBytes), x \in Int :
            /\ Len(Append(s, x)) = Len(s) + 1 /\ Append(s, x) # <<>>
            /\ Append(s, x)[Len(s) + 1] = x
    OBVIOUS
  <2> QED
    BY <1>2, <1>3, <2>1
<1> QED
  BY <1>1, <1>2, <1>4 DEF Promise!Take

LEMMA FlushMaps == IInv /\ IInv' /\ flush => Promise!Discard
<1> SUFFICES ASSUME IInv, IInv', flush PROVE Promise!Discard
  OBVIOUS
<1>1. p # <<>> /\ p' = p /\ read' = tot_len(p) /\ UNCHANGED <<cpcb, got>>
  BY DEF flush, available
<1>2. available' = 0
  <2>1. available' = tot_len(p) - tot_len(p) /\ tot_len(p) \in Nat
    BY <1>1, HeadFacts DEF available, tot_len
  <2> QED
    BY <2>1
<1>3. Unread' = <<>>
  BY <1>2, NothingUnread
<1> QED
  BY <1>1, <1>3 DEF Promise!Discard

LEMMA EndMaps ==
    ASSUME IInv', cpcb, cpcb' = FALSE, p' = <<>>, UNCHANGED got
    PROVE  Promise!Close
<1>1. Unread' = <<>>
  BY NothingUnread
<1> QED
  BY <1>1 DEF Promise!Close

LEMMA StutterMaps == IInv /\ IInv' /\ UNCHANGED vars => UNCHANGED Promise!svars
<1> SUFFICES ASSUME IInv, IInv', UNCHANGED vars PROVE UNCHANGED Promise!svars
  OBVIOUS
<1>1. UNCHANGED <<cpcb, p, read, sent, got>>
  BY DEF vars
<1>2. available' = available
  BY <1>1 DEF available, tot_len
<1>3. Unread' = Unread
  BY <1>1, <1>2, UnreadRun, UnreadRunNext
<1> QED
  BY <1>1, <1>3 DEF Promise!svars

\* The pbuf chain, the read position in it and the reference counts implement
\* ByteStream: for segments of any length, in one pbuf or two and behind any
\* number of empty ones, each byte the peer sent is delivered at most once and in
\* order, also where one pbuf ends and the next begins.  Outside it are the reads
\* after a flush() and those with an empty pbuf at the head of the chain, which
\* use up the next byte but return another value.
THEOREM StreamRefinesByteStream == Spec => RefinesByteStream
<1>1. IInv /\ IInv' /\ [Next]_vars =>
          [Promise!Next \/ PastPayload]_(Promise!svars)
  <2> SUFFICES ASSUME IInv, IInv', [Next]_vars
               PROVE  [Promise!Next \/ PastPayload]_(Promise!svars)
    OBVIOUS
  <2>1. CASE do_accept
    BY <2>1, AcceptMaps DEF Promise!Next
  <2>2. CASE \E e \in 0 .. MaxEmpty, n \in 1 .. MaxSeg : \E m \in 1 .. n : do_recv(e, n, m)
    BY <2>2, RecvMaps DEF Promise!Next
  <2>3. CASE readLocked
    BY <2>3, ReadMaps, ReadShrinks DEF Promise!Next, PastPayload
  <2>4. CASE flush
    BY <2>4, FlushMaps DEF Promise!Next
  <2>5. CASE do_close
    BY Zenon, <2>5, EndMaps DEF do_close, CloseSlot, Promise!Next
  <2>6. CASE stop
    BY Zenon, <2>6, EndMaps DEF stop, CloseSlot, Promise!Next
  <2>7. CASE do_err
    BY Zenon, <2>7, EndMaps DEF do_err, Promise!Next
  <2>8. CASE UNCHANGED vars
    BY <2>8, StutterMaps
  <2> QED
    BY <2>1, <2>2, <2>3, <2>4, <2>5, <2>6, <2>7, <2>8 DEF Next
<1> QED
  BY <1>1, InitMaps, Inductive, PTL DEF Spec, RefinesByteStream
=============================================================================
