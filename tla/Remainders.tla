----------------------------- MODULE Remainders -----------------------------
(***************************************************************************)
(* Facts about % for the ring buffers.  tlapm's arithmetic has no symbolic *)
(* modulus, so they start from the quotient.                               *)
(***************************************************************************)
EXTENDS Integers, TLAPS

LEMMA MulGe ==
    ASSUME NEW n \in Nat \ {0}, NEW x \in Nat \ {0}
    PROVE  n * x >= n
  OBVIOUS

LEMMA MulDiff ==
    ASSUME NEW n \in Nat, NEW x \in Int, NEW y \in Int
    PROVE  n * (x - y) = n * x - n * y
  OBVIOUS

\* Quotients of numbers less than n apart do not differ.
LEMMA QuotientLe ==
    ASSUME NEW n \in Nat \ {0}, NEW p \in Nat, NEW q \in Nat, n * p - n * q < n
    PROVE  p <= q
<1> SUFFICES ASSUME p > q PROVE FALSE
  OBVIOUS
<1>1. n * (p - q) >= n
  BY MulGe
<1>2. n * (p - q) = n * p - n * q
  BY MulDiff
<1>3. n * p \in Int /\ n * q \in Int
  OBVIOUS
<1> QED
  BY <1>1, <1>2, <1>3

LEMMA DivMod ==
    ASSUME NEW n \in Nat, n > 0, NEW a \in Int, NEW q \in Int, q = a \div n
    PROVE  a = n * q + (a % n)
  OBVIOUS

LEMMA Quotient ==
    ASSUME NEW n \in Nat \ {0}, NEW a \in Nat
    PROVE  \E q \in Nat, r \in 0 .. n - 1 : a = n * q + r /\ a % n = r
<1>1. PICK q \in Nat : q = a \div n
  OBVIOUS
<1>2. a % n \in 0 .. n - 1
  OBVIOUS
<1>3. a = n * q + (a % n)
  BY <1>1, DivMod
<1> QED
  BY Zenon, <1>2, <1>3

LEMMA ModUnique ==
    ASSUME NEW n \in Nat \ {0}, NEW a \in Nat, NEW q \in Nat, NEW r \in 0 .. n - 1,
           a = n * q + r
    PROVE  a % n = r
<1>1. PICK p \in Nat, t \in 0 .. n - 1 : a = n * p + t /\ a % n = t
  BY Quotient
<1>2. a = n * p + t /\ n * p \in Int /\ n * q \in Int
  BY <1>1
<1>3. n * p - n * q < n /\ n * q - n * p < n
  BY <1>2
<1>4. p <= q /\ q <= p
  BY <1>3, QuotientLe
<1>5. p = q
  BY <1>4
<1>6. t = r
  BY <1>2, <1>5
<1> QED
  BY <1>1, <1>6

LEMMA ModSmall ==
    ASSUME NEW n \in Nat \ {0}, NEW a \in 0 .. n - 1
    PROVE  a % n = a
  OBVIOUS

LEMMA ModWrap ==
    ASSUME NEW n \in Nat \ {0}, NEW a \in Nat
    PROVE  (a + n) % n = a % n
<1>1. PICK q \in Nat, r \in 0 .. n - 1 : a = n * q + r /\ a % n = r
  BY Zenon, Quotient
<1>2. a = n * q + r /\ n * q \in Int /\ n * (q + 1) = n * q + n
  BY <1>1
<1>3. a + n = n * (q + 1) + r
  BY <1>2
<1>4. a + n \in Nat /\ q + 1 \in Nat
  OBVIOUS
<1>5. (a + n) % n = r
  BY Zenon, <1>3, <1>4, ModUnique
<1> QED
  BY <1>1, <1>5

LEMMA ModNext ==
    ASSUME NEW n \in Nat \ {0}, NEW a \in Nat
    PROVE  (a + 1) % n = IF (a % n) + 1 = n THEN 0 ELSE (a % n) + 1
<1>1. PICK q \in Nat, r \in 0 .. n - 1 : a = n * q + r /\ a % n = r
  BY Zenon, Quotient
<1>2. a = n * q + r /\ n * q \in Int /\ n * (q + 1) = n * q + n
  BY <1>1
<1>3. a + 1 \in Nat /\ q + 1 \in Nat /\ 0 \in 0 .. n - 1
  OBVIOUS
<1>4. CASE r + 1 = n
  <2>1. a + 1 = n * (q + 1) + 0
    BY <1>2, <1>4
  <2>2. (a + 1) % n = 0
    BY Zenon, <1>3, <2>1, ModUnique
  <2> QED
    BY <1>1, <1>4, <2>2
<1>5. CASE r + 1 # n
  <2>1. a + 1 = n * q + (r + 1) /\ r + 1 \in 0 .. n - 1
    BY <1>2, <1>5
  <2>2. (a + 1) % n = r + 1
    BY Zenon, <1>3, <2>1, ModUnique
  <2> QED
    BY <1>1, <1>5, <2>2
<1> QED
  BY <1>4, <1>5

LEMMA ModDistinct ==
    ASSUME NEW n \in Nat \ {0}, NEW b \in Nat, NEW c \in Nat, b - c < n, c - b < n,
           b % n = c % n
    PROVE  b = c
<1>1. PICK p \in Nat, r \in 0 .. n - 1 : b = n * p + r /\ b % n = r
  BY Zenon, Quotient
<1>2. PICK q \in Nat, t \in 0 .. n - 1 : c = n * q + t /\ c % n = t
  BY Zenon, Quotient
<1>3. b = n * p + r /\ c = n * q + r /\ n * p \in Int /\ n * q \in Int
  BY <1>1, <1>2
<1>4. n * p - n * q < n /\ n * q - n * p < n
  BY <1>3
<1>5. p <= q /\ q <= p
  BY <1>4, QuotientLe
<1>6. p = q
  BY <1>5
<1> QED
  BY <1>3, <1>6

\* An index that passed the end of a ring at most once.
LEMMA ModOnce ==
    ASSUME NEW n \in Nat \ {0}, NEW a \in Nat, a < n + n
    PROVE  a % n = IF a < n THEN a ELSE a - n
<1>1. CASE a < n
  BY <1>1, ModSmall
<1>2. CASE ~ a < n
  <2>1. PICK b \in 0 .. n - 1 : b = a - n
    BY <1>2
  <2>2. (b + n) % n = b
    <3>1. b \in Nat /\ b % n = b
      BY ModSmall
    <3> QED
      BY <3>1, ModWrap
  <2>3. b + n = a
    BY <2>1
  <2> QED
    BY <1>2, <2>1, <2>2, <2>3
<1> QED
  BY <1>1, <1>2
=============================================================================
