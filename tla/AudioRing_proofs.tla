--------------------------- MODULE AudioRing_proofs ---------------------------
(***************************************************************************)
(* The ring keeps what is put into it, over its end and its growth, as     *)
(* long as fewer bytes were written than an unsigned int counts; and of    *)
(* the stream the ring is given all but one frame.                         *)
(***************************************************************************)
EXTENDS AudioRing, SequenceTheorems, TLAPS

----------------------------------------------------------------------------
(* Numbers modulo the size of the ring *)

\* A number is a multiple of the size and a rest, the number modulo the size.
LEMMA ModParts ==
    ASSUME NEW k \in Nat \ {0}, NEW x \in Nat
    PROVE  \E q \in Nat, r \in 0 .. k - 1 : x = k * q + r /\ x % k = r
  <1>1. x \div k \in Nat /\ x % k \in 0 .. k - 1 /\ x = k * (x \div k) + (x % k)
    OBVIOUS
  <1>. QED  BY <1>1

LEMMA ModSmall ==
    ASSUME NEW k \in Nat \ {0}, NEW x \in 0 .. k - 1
    PROVE  x % k = x
  OBVIOUS

LEMMA ModOfParts ==
    ASSUME NEW k \in Nat \ {0}, NEW q \in Nat, NEW r \in 0 .. k - 1
    PROVE  (k * q + r) % k = r
  OBVIOUS

LEMMA NextMultiple ==
    ASSUME NEW k \in Nat, NEW q \in Nat
    PROVE  k * (q + 1) = k * q + k
  OBVIOUS

\* The cell that is d cells after cell at, in a ring of k.
Around(k, at, d) == IF at + d < k THEN at + d ELSE at + d - k

\* A counter that goes on by no more than the size goes on by as many cells.
LEMMA ModStep ==
    ASSUME NEW k \in Nat \ {0}, NEW x \in Nat, NEW d \in 0 .. k
    PROVE  (x + d) % k = Around(k, x % k, d)
  <1>1. PICK q \in Nat, r \in 0 .. k - 1 : x = k * q + r /\ x % k = r
    BY ModParts
  <1>2. PICK m \in Nat : m = k * q
    OBVIOUS
  <1>3. x = m + r
    BY <1>1, <1>2
  <1>4. CASE r + d < k
    <2>1. PICK t \in 0 .. k - 1 : t = r + d
      BY <1>4
    <2>2. x + d = k * q + t
      BY <1>2, <1>3, <2>1
    <2>3. (x + d) % k = t
      BY <2>2, ModOfParts
    <2>. QED  BY <1>1, <1>4, <2>1, <2>3 DEF Around
  <1>5. CASE ~(r + d < k)
    <2>1. PICK t \in 0 .. k - 1 : t = r + d - k
      BY <1>5
    <2>2. PICK p \in Nat : p = q + 1
      OBVIOUS
    <2>3. k * p = m + k
      BY <1>2, <2>2, NextMultiple
    <2>4. x + d = m + k + t
      BY <1>3, <2>1
    <2>5. x + d = k * p + t
      BY <2>3, <2>4
    <2>6. (x + d) % k = t
      BY <2>5, ModOfParts
    <2>. QED  BY <1>1, <1>5, <2>1, <2>6 DEF Around
  <1>. QED  BY <1>4, <1>5

LEMMA AroundType ==
    ASSUME NEW k \in Nat \ {0}, NEW at \in 0 .. k - 1, NEW d \in 0 .. k
    PROVE  Around(k, at, d) \in 0 .. k - 1
  BY DEF Around

----------------------------------------------------------------------------
(* The ring as a sequence *)

\* What the buffer of k cells is after n bytes were put at cell w.
Filled(k, w, n, bytes, buf) ==
    LET i == Smaller(n, k - w)
    IN  [p \in 0 .. k - 1 |-> IF p \in w .. w + i - 1 THEN bytes[p - w + 1]
                              ELSE IF p < n - i THEN bytes[i + p + 1]
                              ELSE buf[p]]

\* The cells from cell at on hold s.
HoldsAt(k, at, buf, s) == \A j \in 1 .. Len(s) : buf[Around(k, at, j - 1)] = s[j]

\* The bytes up to the end of the buffer.
LEMMA SplitAt ==
    ASSUME NEW k \in Nat \ {0}, NEW w \in 0 .. k - 1, NEW n \in 0 .. k
    PROVE  \E i \in 0 .. n : i = Smaller(n, k - w) /\ i <= k - w /\ (i = n \/ i = k - w)
  BY DEF Smaller

LEMMA FilledType ==
    ASSUME NEW k \in Nat \ {0}, NEW w \in 0 .. k - 1, NEW n \in 0 .. k,
           NEW bytes \in Seq(Int), n <= Len(bytes), NEW buf \in [0 .. k - 1 -> Int]
    PROVE  Filled(k, w, n, bytes, buf) \in [0 .. k - 1 -> Int]
  <1>1. PICK i \in 0 .. n : i = Smaller(n, k - w) /\ i <= k - w
    BY SplitAt
  <1>2. ASSUME NEW p \in 0 .. k - 1, p \in w .. w + i - 1
        PROVE  bytes[p - w + 1] \in Int
    <2>1. p - w + 1 \in 1 .. Len(bytes)
      BY <1>2
    <2>. QED  BY <2>1
  <1>3. ASSUME NEW p \in 0 .. k - 1, p < n - i
        PROVE  bytes[i + p + 1] \in Int
    <2>1. i + p + 1 \in 1 .. Len(bytes)
      BY <1>3
    <2>. QED  BY <2>1
  <1>. QED  BY <1>1, <1>2, <1>3 DEF Filled

\* The bytes are put one after the other from cell w on.
LEMMA FilledNew ==
    ASSUME NEW k \in Nat \ {0}, NEW w \in 0 .. k - 1, NEW n \in 0 .. k,
           NEW bytes, NEW buf, NEW j \in 1 .. n
    PROVE  Filled(k, w, n, bytes, buf)[Around(k, w, j - 1)] = bytes[j]
  <1>1. PICK i \in 0 .. n : i = Smaller(n, k - w) /\ i <= k - w /\ (i = n \/ i = k - w)
    BY SplitAt
  <1>2. PICK p \in 0 .. k - 1 : p = Around(k, w, j - 1)
    <2>1. j - 1 \in 0 .. k
      OBVIOUS
    <2>. QED  BY <2>1, AroundType
  <1>3. CASE w + (j - 1) < k
    <2>1. p = w + (j - 1)
      BY <1>2, <1>3 DEF Around
    <2>2. p \in w .. w + i - 1 /\ p - w + 1 = j
      BY <1>1, <1>3, <2>1
    <2>. QED  BY <1>1, <1>2, <2>2 DEF Filled
  <1>4. CASE ~(w + (j - 1) < k)
    <2>1. p = w + (j - 1) - k
      BY <1>2, <1>4 DEF Around
    <2>2. p \notin w .. w + i - 1 /\ p < n - i /\ i + p + 1 = j
      BY <1>1, <1>4, <2>1
    <2>. QED  BY <1>1, <1>2, <2>2 DEF Filled
  <1>. QED  BY <1>3, <1>4

\* The cells before cell w, as many as are not to be filled, are left alone.
Untouched(k, at, m, after, before) ==
    \A j \in 1 .. m : after[Around(k, at, j - 1)] = before[Around(k, at, j - 1)]

LEMMA FilledOld ==
    ASSUME NEW k \in Nat \ {0}, NEW at \in 0 .. k - 1, NEW m \in 0 .. k, NEW n \in 0 .. k - m,
           NEW w \in 0 .. k - 1, w = Around(k, at, m), NEW bytes, NEW buf
    PROVE  Untouched(k, at, m, Filled(k, w, n, bytes, buf), buf)
  <1>. SUFFICES ASSUME NEW j \in 1 .. m
                PROVE  Filled(k, w, n, bytes, buf)[Around(k, at, j - 1)] = buf[Around(k, at, j - 1)]
    BY DEF Untouched
  <1>1. PICK i \in 0 .. n : i = Smaller(n, k - w) /\ i <= k - w /\ (i = n \/ i = k - w)
    <2>1. n \in 0 .. k
      OBVIOUS
    <2>. QED  BY <2>1, SplitAt
  <1>2. PICK p \in 0 .. k - 1 : p = Around(k, at, j - 1)
    <2>1. j - 1 \in 0 .. k
      OBVIOUS
    <2>. QED  BY <2>1, AroundType
  <1>3. p \notin w .. w + i - 1 /\ ~(p < n - i)
    BY <1>1, <1>2 DEF Around
  <1>. QED  BY <1>1, <1>2, <1>3 DEF Filled

\* The ring is sound and has s, below the wrap of its counters.
Holds(r, s) ==
    /\ r = [size |-> r.size, front |-> r.front, rear |-> r.rear, buf |-> r.buf]
    /\ r.size \in Nat \ {0} /\ r.front \in Nat /\ r.rear \in Nat
    /\ r.buf \in [0 .. r.size - 1 -> Int]
    /\ s \in Seq(Int)
    /\ r.size < Width /\ r.rear < Width
    /\ r.rear = r.front + Len(s) /\ Len(s) <= r.size
    /\ HoldsAt(r.size, r.front % r.size, r.buf, s)

\* Joined(s, t, u): u is s and then t.
Joined(s, t, u) ==
    /\ u \in Seq(Int) /\ Len(u) = Len(s) + Len(t)
    /\ \A i \in 1 .. Len(s) : u[i] = s[i]
    /\ \A i \in 1 .. Len(t) : u[Len(s) + i] = t[i]

LEMMA JoinedIs ==
    ASSUME NEW s \in Seq(Int), NEW t \in Seq(Int)
    PROVE  Joined(s, t, s \o t)
  BY DEF Joined

\* Sequences of the same length with the same members are one.
LEMMA SameSequence ==
    ASSUME NEW s \in Seq(Int), NEW t \in Seq(Int), Len(s) = Len(t),
           \A i \in 1 .. Len(s) : s[i] = t[i]
    PROVE  s = t
  BY SeqEqual

LEMMA JoinedOnly ==
    ASSUME NEW s \in Seq(Int), NEW t \in Seq(Int), NEW u, Joined(s, t, u)
    PROVE  u = s \o t
  <1>1. PICK v : v = s \o t /\ Joined(s, t, v)
    BY JoinedIs
  <1>2. u \in Seq(Int) /\ v \in Seq(Int) /\ Len(u) = Len(v) /\ Len(u) = Len(s) + Len(t)
    BY <1>1 DEF Joined
  <1>3. ASSUME NEW i \in 1 .. Len(u)
        PROVE  u[i] = v[i]
    <2>1. CASE i <= Len(s)
      <3>1. i \in 1 .. Len(s)
        BY <1>2, <2>1
      <3>. QED  BY <1>1, <3>1 DEF Joined
    <2>2. CASE ~(i <= Len(s))
      <3>1. PICK d \in 1 .. Len(t) : i = Len(s) + d
        <4>1. i - Len(s) \in 1 .. Len(t) /\ i = Len(s) + (i - Len(s))
          BY <1>2, <2>2
        <4>. QED  BY <4>1
      <3>. QED  BY <1>1, <3>1 DEF Joined
    <2>. QED  BY <2>1, <2>2
  <1>4. u = v
    BY <1>2, <1>3, SameSequence
  <1>. QED  BY <1>1, <1>4

LEMMA Associates ==
    ASSUME NEW s \in Seq(Int), NEW t \in Seq(Int), NEW u \in Seq(Int)
    PROVE  (s \o t) \o u = s \o (t \o u)
  <1>1. PICK a, b, w : a = s \o t /\ b = t \o u /\ w = a \o u
    OBVIOUS
  <1>2. Joined(s, t, a) /\ Joined(t, u, b)
    BY <1>1, JoinedIs
  <1>3. a \in Seq(Int) /\ b \in Seq(Int)
    BY <1>2 DEF Joined
  <1>4. Joined(a, u, w)
    BY <1>1, <1>3, JoinedIs
  <1>5. PICK k \in Nat, m \in Nat, n \in Nat : k = Len(s) /\ m = Len(t) /\ n = Len(u)
    BY LenProperties
  <1>6. w \in Seq(Int) /\ Len(w) = k + Len(b) /\ Len(b) = m + n /\ Len(a) = k + m
    BY <1>2, <1>4, <1>5 DEF Joined
  <1>7. ASSUME NEW i \in 1 .. k
        PROVE  w[i] = s[i]
    <2>1. i \in 1 .. Len(a)
      BY <1>6
    <2>. QED  BY <1>2, <1>4, <1>5, <2>1 DEF Joined
  <1>8. ASSUME NEW i \in 1 .. m + n
        PROVE  w[k + i] = b[i]
    <2>1. CASE i <= m
      <3>1. i \in 1 .. m /\ k + i \in 1 .. Len(a)
        BY <1>6, <2>1
      <3>2. w[k + i] = a[k + i] /\ a[k + i] = t[i] /\ b[i] = t[i]
        BY <1>2, <1>4, <1>5, <3>1 DEF Joined
      <3>. QED  BY <3>2
    <2>2. CASE ~(i <= m)
      <3>1. PICK d \in 1 .. n : i = m + d /\ k + i = Len(a) + d
        <4>1. i - m \in 1 .. n /\ i = m + (i - m) /\ k + i = (k + m) + (i - m)
          BY <2>2
        <4>. QED  BY <1>6, <4>1
      <3>2. w[k + i] = u[d] /\ b[i] = u[d]
        BY <1>2, <1>4, <1>5, <3>1 DEF Joined
      <3>. QED  BY <3>2
    <2>. QED  BY <2>1, <2>2
  <1>9. Joined(s, b, w)
    BY <1>5, <1>6, <1>7, <1>8 DEF Joined
  <1>. QED  BY <1>1, <1>3, <1>9, JoinedOnly

LEMMA Counters ==
    ASSUME NEW r, NEW s, Holds(r, s)
    PROVE  /\ s \in Seq(Int) /\ Len(s) \in Nat /\ Len(s) <= r.size
           /\ r.size \in Nat \ {0} /\ r.front \in Nat /\ r.rear \in Nat
           /\ r.buf \in [0 .. r.size - 1 -> Int]
           /\ r.size < Width /\ r.rear < Width /\ r.rear = r.front + Len(s)
           /\ HoldsAt(r.size, r.front % r.size, r.buf, s)
  <1>1. s \in Seq(Int)
    BY DEF Holds
  <1>2. Len(s) \in Nat
    BY <1>1, LenProperties
  <1>. QED  BY <1>1, <1>2 DEF Holds

LEMMA RingLen ==
    ASSUME NEW r, NEW s, Holds(r, s)
    PROVE  ring_buf_len(r) = Len(s) /\ (r.size + r.front - r.rear) % Width = r.size - Len(s)
  <1>1. PICK m \in Nat : m = Len(s)
    BY Counters
  <1>2. PICK k \in Nat, f \in Nat, e \in Nat :
            k = r.size /\ f = r.front /\ e = r.rear /\ e = f + m /\ m <= k /\ k < Width
    BY <1>1, Counters
  <1>3. Width \in Nat \ {0}
    BY <1>2, AudioRingAssumption
  <1>4. /\ e - f = m /\ k + f - e = k - m
        /\ m \in 0 .. Width - 1 /\ k - m \in 0 .. Width - 1
    BY <1>2, <1>3
  <1>5. (e - f) % Width = m /\ (k + f - e) % Width = k - m
    BY <1>3, <1>4, ModSmall
  <1>. QED  BY <1>1, <1>2, <1>5 DEF ring_buf_len

LEMMA CreatedHolds ==
    ASSUME NEW size \in Nat \ {0}, size < Width
    PROVE  Holds(ring_buf_create(size), <<>>) /\ ring_buf_create(size).size = size
           /\ ring_buf_create(size).rear = 0
  <1>1. PICK r : r = ring_buf_create(size)
    OBVIOUS
  <1>2. r = [size |-> size, front |-> 0, rear |-> 0, buf |-> [p \in 0 .. size - 1 |-> 0]]
    BY <1>1 DEF ring_buf_create, NoByte
  <1>3. HoldsAt(r.size, r.front % r.size, r.buf, <<>>)
    BY DEF HoldsAt
  <1>. QED  BY <1>1, <1>2, <1>3 DEF Holds

\* What is put into a ring that has room for it follows what the ring had.
LEMMA PutHolds ==
    ASSUME NEW r, NEW s, Holds(r, s), NEW bytes \in Seq(Int), NEW u, Joined(s, bytes, u),
           Len(u) <= r.size, r.rear + Len(bytes) < Width,
           NEW q, q = ring_buf_put(r, bytes)
    PROVE  Holds(q, u) /\ q.size = r.size /\ q.rear = r.rear + Len(bytes)
  <1>1. PICK k \in Nat \ {0} : k = r.size
    BY Counters
  <1>2. PICK m \in 0 .. k : m = Len(s)
    BY <1>1, Counters
  <1>3. PICK n \in 0 .. k - m : n = Len(bytes) /\ Len(u) = m + n
    <2>1. Len(bytes) \in Nat /\ Len(u) = m + Len(bytes) /\ Len(u) <= k
      BY <1>1, <1>2, LenProperties DEF Joined
    <2>. QED  BY <2>1
  <1>4. PICK f \in Nat : f = r.front /\ r.rear = f + m
    BY <1>2, Counters
  <1>5. PICK at \in 0 .. k - 1 : at = f % k
    BY ModParts
  <1>6. PICK w \in 0 .. k - 1 : w = r.rear % k /\ w = Around(k, at, m)
    BY <1>4, <1>5, ModStep, AroundType
  <1>7. Smaller(Len(bytes), (r.size + r.front - r.rear) % Width) = n
    BY <1>1, <1>2, <1>3, RingLen DEF Smaller
  <1>8. (r.rear + n) % Width = r.rear + n
    <2>1. Width \in Nat \ {0} /\ r.rear + n \in 0 .. Width - 1
      BY <1>3, <1>4, AudioRingAssumption
    <2>. QED  BY <2>1, ModSmall
  <1>9. PICK b : b = Filled(k, w, n, bytes, r.buf)
    OBVIOUS
  <1>10. q = [size |-> k, front |-> f, rear |-> r.rear + n, buf |-> b]
    BY <1>1, <1>4, <1>6, <1>7, <1>8, <1>9 DEF ring_buf_put, Filled, Holds
  <1>11. b \in [0 .. k - 1 -> Int]
    <2>1. r.buf \in [0 .. k - 1 -> Int] /\ n \in 0 .. k /\ n <= Len(bytes)
      BY <1>1, <1>3, Counters
    <2>. QED  BY <1>9, <2>1, FilledType
  <1>12. HoldsAt(k, at, b, u)
    <2>1. ASSUME NEW j \in 1 .. m
          PROVE  b[Around(k, at, j - 1)] = u[j]
      <3>1. Untouched(k, at, m, b, r.buf)
        <4>1. w = Around(k, at, m)
          BY <1>6
        <4>. QED  BY <1>9, <4>1, FilledOld
      <3>2. r.buf[Around(k, at, j - 1)] = s[j]
        BY <1>1, <1>2, <1>4, <1>5 DEF Holds, HoldsAt
      <3>3. u[j] = s[j]
        BY <1>2 DEF Joined
      <3>. QED  BY <3>1, <3>2, <3>3 DEF Untouched
    <2>2. ASSUME NEW j \in 1 .. n
          PROVE  b[Around(k, at, (m + j) - 1)] = u[m + j]
      <3>1. b[Around(k, w, j - 1)] = bytes[j]
        BY <1>9, FilledNew
      <3>2. Around(k, w, j - 1) = Around(k, at, (m + j) - 1)
        BY <1>6 DEF Around
      <3>3. u[m + j] = bytes[j]
        BY <1>2, <1>3 DEF Joined
      <3>. QED  BY <3>1, <3>2, <3>3
    <2>3. ASSUME NEW j \in 1 .. Len(u)
          PROVE  b[Around(k, at, j - 1)] = u[j]
      <3>1. CASE j <= m
        BY <2>1, <3>1
      <3>2. CASE ~(j <= m)
        <4>1. PICK d \in 1 .. n : j = m + d
          <5>1. j - m \in 1 .. n /\ j = m + (j - m)
            BY <1>3, <3>2
          <5>. QED  BY <5>1
        <4>. QED  BY <2>2, <4>1
      <3>. QED  BY <3>1, <3>2
    <2>. QED  BY <2>3 DEF HoldsAt
  <1>13. /\ q.size = k /\ q.front = f /\ q.rear = r.rear + n /\ q.buf = b
         /\ q = [size |-> q.size, front |-> q.front, rear |-> q.rear, buf |-> q.buf]
    BY <1>10
  <1>14. u \in Seq(Int) /\ r.size < Width
    BY DEF Joined, Holds
  <1>15. q.rear \in Nat /\ q.rear < Width /\ q.rear = q.front + Len(u) /\ Len(u) <= q.size
    <2>1. PICK e \in Nat : e = r.rear /\ e = f + m
      BY <1>4
    <2>2. e + n < Width
      BY <1>3, <2>1
    <2>3. e + n \in Nat /\ e + n = f + (m + n)
      BY <2>1
    <2>. QED  BY <1>1, <1>3, <1>13, <2>1, <2>2, <2>3
  <1>. QED  BY <1>1, <1>3, <1>5, <1>11, <1>12, <1>13, <1>14, <1>15 DEF Holds

\* What is read are the first bytes of the ring.
LEMMA GotFirst ==
    ASSUME NEW r, NEW s, Holds(r, s), NEW len \in Nat, NEW n, n = Smaller(len, Len(s))
    PROVE  Got(r, len) = SubSeq(s, 1, n)
  <1>1. PICK k \in Nat \ {0} : k = r.size
    BY Counters
  <1>2. n \in 0 .. k /\ n <= Len(s) /\ s \in Seq(Int)
    BY <1>1, Counters DEF Smaller
  <1>3. PICK at \in 0 .. k - 1 : at = r.front % k
    BY <1>1, ModParts, Counters
  <1>4. Smaller(len, ring_buf_len(r)) = n
    BY RingLen
  <1>5. ASSUME NEW j \in 1 .. n
        PROVE  r.buf[Cell(r, n, j)] = s[j]
    <2>1. PICK i \in 0 .. n : i = Smaller(n, k - at) /\ i <= k - at /\ (i = n \/ i = k - at)
      BY <1>2, SplitAt
    <2>2. Cell(r, n, j) = IF j <= i THEN at + j - 1 ELSE j - i - 1
      BY <1>1, <1>3, <2>1 DEF Cell
    <2>3. Cell(r, n, j) = Around(k, at, j - 1)
      BY <1>2, <2>1, <2>2 DEF Around
    <2>4. j \in 1 .. Len(s)
      BY <1>2, Counters
    <2>5. HoldsAt(k, at, r.buf, s)
      BY <1>1, <1>3, Counters
    <2>6. r.buf[Around(k, at, j - 1)] = s[j]
      BY <2>4, <2>5 DEF HoldsAt
    <2>. QED  BY <2>3, <2>6
  <1>6. Got(r, len) = [j \in 1 .. n |-> s[j]]
    BY <1>4, <1>5 DEF Got
  <1>7. SubSeq(s, 1, n) = [j \in 1 .. n |-> s[j]]
    BY <1>2, Counters
  <1>. QED  BY <1>6, <1>7

LEMMA GotAll ==
    ASSUME NEW r, NEW s, Holds(r, s), NEW len \in Nat, Len(s) <= len
    PROVE  Got(r, len) = s
  <1>1. Smaller(len, Len(s)) = Len(s)
    BY Counters DEF Smaller
  <1>2. SubSeq(s, 1, Len(s)) = s
    <2>1. s \in Seq(Int) /\ Len(s) \in Nat
      BY Counters
    <2>. QED  BY <2>1
  <1>. QED  BY <1>1, <1>2, GotFirst

\* What was read is taken from the ring, and the rest stays.
LEMMA GetHolds ==
    ASSUME NEW r, NEW s, Holds(r, s), NEW len \in Nat
    PROVE  \E rest : /\ Holds(ring_buf_get(r, len), rest)
                     /\ s = Got(r, len) \o rest
                     /\ Got(r, len) \in Seq(Int)
                     /\ ring_buf_get(r, len).rear = r.rear
                     /\ ring_buf_get(r, len).size = r.size
  <1>1. PICK k \in Nat \ {0} : k = r.size
    BY Counters
  <1>2. PICK m \in 0 .. k : m = Len(s)
    BY <1>1, Counters
  <1>3. PICK n \in 0 .. m : n = Smaller(len, Len(s))
    BY <1>2 DEF Smaller
  <1>4. PICK f \in Nat : f = r.front /\ r.rear = f + m
    BY <1>2, Counters
  <1>5. PICK at \in 0 .. k - 1 : at = f % k
    BY ModParts
  <1>6. PICK first : first = SubSeq(s, 1, n) /\ first = Got(r, len)
    BY <1>3, GotFirst
  <1>7. PICK rest : rest = SubSeq(s, n + 1, m)
    OBVIOUS
  <1>8. s \in Seq(Int) /\ Len(s) = m
    BY <1>2, Counters
  <1>9. /\ first \in Seq(Int) /\ Len(first) = n
        /\ rest \in Seq(Int) /\ Len(rest) = m - n
        /\ \A i \in 1 .. n : first[i] = s[i]
        /\ \A i \in 1 .. m - n : rest[i] = s[n + i]
    BY <1>6, <1>7, <1>8
  <1>10. s = first \o rest
    <2>1. Joined(first, rest, s)
      BY <1>8, <1>9 DEF Joined
    <2>. QED  BY <1>9, <2>1, JoinedOnly
  <1>11. PICK q : q = ring_buf_get(r, len)
    OBVIOUS
  <1>12. PICK g \in Nat : g = f + n
    OBVIOUS
  <1>13. g % Width = g
    <2>1. Width \in Nat \ {0} /\ g \in 0 .. Width - 1
      BY <1>4, <1>12, Counters, AudioRingAssumption
    <2>. QED  BY <2>1, ModSmall
  <1>14. q = [size |-> k, front |-> g, rear |-> r.rear, buf |-> r.buf]
    BY <1>1, <1>4, <1>6, <1>9, <1>11, <1>12, <1>13 DEF ring_buf_get, Holds
  <1>15. PICK c \in 0 .. k - 1 : c = g % k /\ c = Around(k, at, n)
    <2>1. n \in 0 .. k
      OBVIOUS
    <2>2. (f + n) % k = Around(k, f % k, n)
      BY <2>1, ModStep
    <2>. QED  BY <1>5, <1>12, <2>1, <2>2, AroundType
  <1>16. HoldsAt(k, c, r.buf, rest)
    <2>1. ASSUME NEW i \in 1 .. m - n
          PROVE  r.buf[Around(k, c, i - 1)] = rest[i]
      <3>1. Around(k, c, i - 1) = Around(k, at, (n + i) - 1)
        BY <1>15 DEF Around
      <3>2. n + i \in 1 .. Len(s)
        BY <1>8
      <3>3. HoldsAt(k, at, r.buf, s)
        BY <1>1, <1>4, <1>5, Counters
      <3>4. r.buf[Around(k, at, (n + i) - 1)] = s[n + i]
        BY <3>2, <3>3 DEF HoldsAt
      <3>. QED  BY <1>9, <3>1, <3>4
    <2>. QED  BY <1>9, <2>1 DEF HoldsAt
  <1>17. /\ q.size = k /\ q.front = g /\ q.rear = r.rear /\ q.buf = r.buf
         /\ q = [size |-> q.size, front |-> q.front, rear |-> q.rear, buf |-> q.buf]
    BY <1>14
  <1>18. /\ r.buf \in [0 .. k - 1 -> Int] /\ k < Width /\ r.rear < Width /\ r.rear \in Nat
    BY <1>1, Counters
  <1>19. r.rear = g + Len(rest) /\ Len(rest) <= k
    BY <1>4, <1>9, <1>12
  <1>20. Holds(q, rest)
    BY <1>9, <1>15, <1>16, <1>17, <1>18, <1>19 DEF Holds
  <1>. QED  BY <1>1, <1>6, <1>9, <1>10, <1>11, <1>17, <1>20

----------------------------------------------------------------------------
(* Writing *)

\* A larger ring has what the old one had, and room for more.
LEMMA GrownHolds ==
    ASSUME NEW r, NEW s, Holds(r, s), NEW len \in Nat,
           NEW q, q = Grown(r, len), NEW size \in Nat, size = r.size + (r.size - Len(s)) + len,
           size < Width
    PROVE  Holds(q, s) /\ q.size = size /\ q.rear = Len(s)
  <1>1. size \in Nat \ {0} /\ Len(s) <= size /\ s \in Seq(Int) /\ Len(s) \in Nat /\ r.size \in Nat
    BY Counters
  <1>2. ring_buf_remain(r) = r.size - Len(s)
    BY RingLen DEF ring_buf_remain
  <1>3. Got(r, size) = s
    BY <1>1, GotAll
  <1>4. PICK e : e = ring_buf_create(size) /\ Holds(e, <<>>) /\ e.size = size /\ e.rear = 0
    BY <1>1, CreatedHolds
  <1>5. q = ring_buf_put(e, s)
    BY <1>2, <1>3, <1>4 DEF Grown, ring_buf_realloc
  <1>6. Joined(<<>>, s, s)
    BY <1>1 DEF Joined
  <1>7. Len(s) <= e.size /\ e.rear + Len(s) < Width
    BY <1>1, <1>4, AudioRingAssumption
  <1>. QED  BY <1>1, <1>4, <1>5, <1>6, <1>7, PutHolds

\* Only growing changes the size.
LEMMA SizePut ==
    ASSUME NEW r, NEW bytes
    PROVE  ring_buf_put(r, bytes).size = r.size
  BY DEF ring_buf_put

LEMMA SizeGrown ==
    ASSUME NEW r, NEW len
    PROVE  Grown(r, len).size = r.size + ring_buf_remain(r) + len
  <1>1. PICK size : size = r.size + ring_buf_remain(r) + len
    OBVIOUS
  <1>2. PICK e : e = ring_buf_create(size)
    OBVIOUS
  <1>3. Grown(r, len) = ring_buf_put(e, Got(r, size))
    BY <1>1, <1>2 DEF Grown, ring_buf_realloc
  <1>4. e.size = size
    BY <1>2 DEF ring_buf_create
  <1>. QED  BY <1>1, <1>3, <1>4, SizePut

LEMMA SizeWritten ==
    ASSUME NEW bytes
    PROVE  \/ writeAudioRingBuf(bytes).size = ring.size
           \/ writeAudioRingBuf(bytes).size = ring.size + ring_buf_remain(ring) + Len(bytes)
  BY SizePut, SizeGrown DEF writeAudioRingBuf

\* What is written follows what the ring had, whether it has room or must grow.
LEMMA WriteHolds ==
    ASSUME NEW s, Holds(ring, s), NEW bytes \in Seq(Int), NEW u, Joined(s, bytes, u),
           NEW q, q = writeAudioRingBuf(bytes), q.size < Width,
           ring.rear + Len(bytes) < Width
    PROVE  Holds(q, u) /\ q.rear <= ring.rear + Len(bytes)
  <1>1. /\ Len(bytes) \in Nat /\ Len(u) = Len(s) + Len(bytes) /\ u \in Seq(Int)
        /\ s \in Seq(Int) /\ Len(s) \in Nat /\ Len(s) <= ring.size
        /\ ring.size \in Nat \ {0} /\ ring.rear \in Nat /\ Len(s) <= ring.rear
    <2>1. /\ s \in Seq(Int) /\ Len(s) \in Nat /\ Len(s) <= ring.size
          /\ ring.size \in Nat \ {0} /\ ring.rear \in Nat
          /\ ring.front \in Nat /\ ring.rear = ring.front + Len(s)
      BY Counters
    <2>2. Len(bytes) \in Nat /\ Len(u) = Len(s) + Len(bytes) /\ u \in Seq(Int)
      BY LenProperties DEF Joined
    <2>. QED  BY <2>1, <2>2
  <1>2. ring_buf_remain(ring) = ring.size - Len(s)
    BY RingLen DEF ring_buf_remain
  <1>3. CASE Len(bytes) <= ring_buf_remain(ring)
    <2>1. q = ring_buf_put(ring, bytes)
      BY <1>3 DEF writeAudioRingBuf
    <2>2. Len(u) <= ring.size
      BY <1>1, <1>2, <1>3
    <2>3. Holds(q, u) /\ q.size = ring.size /\ q.rear = ring.rear + Len(bytes)
      BY <2>1, <2>2, PutHolds
    <2>. QED  BY <1>1, <2>3
  <1>4. CASE ~(Len(bytes) <= ring_buf_remain(ring))
    <2>1. PICK g : g = Grown(ring, Len(bytes)) /\ q = ring_buf_put(g, bytes)
      BY <1>4 DEF writeAudioRingBuf
    <2>2. PICK size \in Nat : size = ring.size + (ring.size - Len(s)) + Len(bytes)
      BY <1>1
    <2>3. g.size = size /\ q.size = g.size
      BY <1>2, <2>1, <2>2, SizePut, SizeGrown
    <2>4. Holds(g, s) /\ g.size = size /\ g.rear = Len(s)
      BY <1>1, <2>1, <2>2, <2>3, GrownHolds
    <2>5. Len(u) <= g.size /\ g.rear + Len(bytes) < Width
      <3>1. PICK m \in Nat, n \in Nat, e \in Nat, k \in Nat :
                m = Len(s) /\ n = Len(bytes) /\ e = ring.rear /\ k = ring.size /\ m <= e /\ m <= k
        BY <1>1
      <3>2. Width \in Nat /\ e + n < Width
        BY <3>1, AudioRingAssumption
      <3>3. size = k + (k - m) + n
        BY <2>2, <3>1
      <3>4. m + n <= k + (k - m) + n /\ m + n < Width
        <4>1. m <= k /\ m <= e
          BY <3>1
        <4>. QED  BY <3>2, <4>1
      <3>. QED  BY <1>1, <2>4, <3>1, <3>3, <3>4
    <2>6. Holds(q, u) /\ q.rear = g.rear + Len(bytes)
      BY <2>1, <2>4, <2>5, PutHolds
    <2>. QED  BY <1>1, <2>4, <2>6
  <1>. QED  BY <1>3, <1>4

----------------------------------------------------------------------------
(* The bytes of the stream *)

\* The positive members of u are S, each once and in order.
Ordered(u, S) ==
    /\ \A i \in 1 .. Len(u) : u[i] > 0 => u[i] \in S
    /\ \A b \in S : \E i \in 1 .. Len(u) : u[i] = b
    /\ \A i, j \in 1 .. Len(u) : i < j /\ u[i] > 0 /\ u[j] > 0 => u[i] < u[j]

LEMMA NumbersType ==
    ASSUME NEW m \in Nat, NEW n \in Nat, m <= n
    PROVE  /\ Numbers(m, n) \in Seq(Int) /\ Len(Numbers(m, n)) = n - m
           /\ \A i \in 1 .. n - m : Numbers(m, n)[i] = m + i
  <1>1. n - m \in Nat
    OBVIOUS
  <1>. QED  BY <1>1 DEF Numbers

LEMMA NumbersOrdered ==
    ASSUME NEW m \in Nat, NEW n \in Nat, m <= n
    PROVE  Ordered(Numbers(m, n), m + 1 .. n)
  <1>1. PICK u : u = Numbers(m, n)
    OBVIOUS
  <1>2. u \in Seq(Int) /\ Len(u) = n - m /\ \A i \in 1 .. n - m : u[i] = m + i
    BY <1>1, NumbersType
  <1>3. ASSUME NEW b \in m + 1 .. n
        PROVE  \E i \in 1 .. Len(u) : u[i] = b
    <2>1. b - m \in 1 .. n - m /\ m + (b - m) = b
      OBVIOUS
    <2>. QED  BY <1>2, <2>1
  <1>4. \A i \in 1 .. Len(u) : u[i] \in m + 1 .. n
    BY <1>2
  <1>5. \A i, j \in 1 .. Len(u) : i < j => u[i] < u[j]
    BY <1>2
  <1>. QED  BY <1>1, <1>3, <1>4, <1>5 DEF Ordered

LEMMA NegatedOrdered ==
    ASSUME NEW m \in Nat, NEW n \in Nat, m <= n
    PROVE  Negated(Numbers(m, n)) \in Seq(Int) /\ Ordered(Negated(Numbers(m, n)), {})
  <1>1. PICK u : u = Numbers(m, n)
    OBVIOUS
  <1>2. PICK k \in Nat : k = n - m
    OBVIOUS
  <1>3. u \in Seq(Int) /\ Len(u) = k /\ \A i \in 1 .. k : u[i] = m + i
    BY <1>1, <1>2, NumbersType
  <1>4. DOMAIN u = 1 .. k
    BY <1>3
  <1>5. PICK v : v = [i \in 1 .. k |-> -u[i]]
    OBVIOUS
  <1>6. Negated(u) = v
    BY <1>4, <1>5 DEF Negated
  <1>7. \A i \in 1 .. k : -u[i] \in Int /\ ~(-u[i] > 0)
    BY <1>3
  <1>8. v \in Seq(Int) /\ Len(v) = k /\ \A i \in 1 .. k : ~(v[i] > 0)
    BY <1>5, <1>7
  <1>. QED  BY <1>1, <1>6, <1>8 DEF Ordered

LEMMA JoinedOrdered ==
    ASSUME NEW s \in Seq(Int), NEW t \in Seq(Int), NEW u, Joined(s, t, u),
           NEW S, NEW T, Ordered(s, S), Ordered(t, T),
           \A a \in S, b \in T : a < b
    PROVE  Ordered(u, S \cup T)
  <1>1. PICK m \in Nat, n \in Nat : m = Len(s) /\ n = Len(t) /\ Len(u) = m + n
    BY LenProperties DEF Joined
  <1>2. ASSUME NEW i \in 1 .. Len(u)
        PROVE  \/ i \in 1 .. m /\ u[i] = s[i]
               \/ \E d \in 1 .. n : i = m + d /\ u[i] = t[d]
    <2>1. CASE i <= m
      <3>1. i \in 1 .. m
        BY <1>1, <2>1
      <3>. QED  BY <1>1, <3>1 DEF Joined
    <2>2. CASE ~(i <= m)
      <3>1. PICK d \in 1 .. n : i = m + d
        <4>1. i - m \in 1 .. n /\ i = m + (i - m)
          BY <1>1, <2>2
        <4>. QED  BY <4>1
      <3>. QED  BY <1>1, <3>1 DEF Joined
    <2>. QED  BY <2>1, <2>2
  <1>3. ASSUME NEW i \in 1 .. Len(u), u[i] > 0
        PROVE  u[i] \in S \cup T
    BY <1>1, <1>2, <1>3 DEF Ordered
  <1>4. ASSUME NEW b \in S \cup T
        PROVE  \E i \in 1 .. Len(u) : u[i] = b
    <2>1. CASE b \in S
      <3>1. PICK i \in 1 .. m : s[i] = b
        BY <1>1, <2>1 DEF Ordered
      <3>2. i \in 1 .. Len(u) /\ u[i] = b
        BY <1>1, <3>1 DEF Joined
      <3>. QED  BY <3>2
    <2>2. CASE b \in T
      <3>1. PICK i \in 1 .. n : t[i] = b
        BY <1>1, <2>2 DEF Ordered
      <3>2. m + i \in 1 .. Len(u) /\ u[m + i] = b
        BY <1>1, <3>1 DEF Joined
      <3>. QED  BY <3>2
    <2>. QED  BY <2>1, <2>2
  <1>5. ASSUME NEW i \in 1 .. Len(u), NEW j \in 1 .. Len(u), i < j, u[i] > 0, u[j] > 0
        PROVE  u[i] < u[j]
    <2>1. CASE i \in 1 .. m /\ u[i] = s[i] /\ j \in 1 .. m /\ u[j] = s[j]
      BY <1>1, <1>5, <2>1 DEF Ordered
    <2>2. ASSUME i \in 1 .. m, u[i] = s[i], NEW d \in 1 .. n, j = m + d, u[j] = t[d]
          PROVE  u[i] < u[j]
      <3>1. u[i] \in S /\ u[j] \in T
        BY <1>1, <1>5, <2>2 DEF Ordered
      <3>. QED  BY <3>1
    <2>3. ASSUME NEW c \in 1 .. n, i = m + c, u[i] = t[c], NEW d \in 1 .. n, j = m + d, u[j] = t[d]
          PROVE  u[i] < u[j]
      <3>1. c < d
        BY <1>5, <2>3
      <3>. QED  BY <1>1, <1>5, <2>3, <3>1 DEF Ordered
    <2>4. ASSUME NEW c \in 1 .. n, i = m + c, j \in 1 .. m
          PROVE  FALSE
      BY <1>5, <2>4
    <2>. QED  BY <1>2, <2>1, <2>2, <2>3, <2>4
  <1>. QED  BY <1>3, <1>4, <1>5 DEF Ordered

\* Numbers that follow each other are numbers again.
LEMMA NumbersJoin ==
    ASSUME NEW m \in Nat, NEW n \in Nat
    PROVE  Numbers(0, m) \o Numbers(m, m + n) = Numbers(0, m + n)
  <1>1. PICK k \in Nat : k = m + n /\ 0 <= m /\ m <= k /\ 0 <= k
    OBVIOUS
  <1>2. PICK s, t, u : s = Numbers(0, m) /\ t = Numbers(m, k) /\ u = Numbers(0, k)
    OBVIOUS
  <1>3. /\ s \in Seq(Int) /\ Len(s) = m /\ \A i \in 1 .. m : s[i] = i
        /\ t \in Seq(Int) /\ Len(t) = n /\ \A i \in 1 .. n : t[i] = m + i
        /\ u \in Seq(Int) /\ Len(u) = k /\ \A i \in 1 .. k : u[i] = i
    <2>1. m - 0 = m /\ k - m = n /\ k - 0 = k
      BY <1>1
    <2>2. s \in Seq(Int) /\ Len(s) = m - 0 /\ \A i \in 1 .. m - 0 : s[i] = 0 + i
      BY <1>1, <1>2, NumbersType
    <2>3. t \in Seq(Int) /\ Len(t) = k - m /\ \A i \in 1 .. k - m : t[i] = m + i
      BY <1>1, <1>2, NumbersType
    <2>4. u \in Seq(Int) /\ Len(u) = k - 0 /\ \A i \in 1 .. k - 0 : u[i] = 0 + i
      BY <1>1, <1>2, NumbersType
    <2>. QED  BY <2>1, <2>2, <2>3, <2>4
  <1>4. Joined(s, t, u)
    <2>1. \A i \in 1 .. n : m + i \in 1 .. k
      BY <1>1
    <2>2. \A i \in 1 .. m : i \in 1 .. k
      BY <1>1
    <2>. QED  BY <1>1, <1>3, <2>1, <2>2 DEF Joined
  <1>. QED  BY <1>1, <1>2, <1>3, <1>4, JoinedOnly

----------------------------------------------------------------------------
(* The frames *)

\* Every frame ends after the one before it.
Growing(ends) ==
    /\ ends \in Seq(Nat)
    /\ \A i, j \in 0 .. Len(ends) : i < j => End(ends, i) < End(ends, j)

Typed ==
    /\ Growing(frames) /\ Growing(logo)
    /\ cache \in Seq(Int) /\ written \in Seq(Int)

\* While frames are gathered they are all in the cache.
Gathered ==
    cache = IF Len(frames) <= Prebuffer THEN Numbers(0, Decoded) ELSE <<>>

\* What is to be written of the stream: nothing while frames are gathered, then all but one.
Due ==
    IF Len(frames) <= Prebuffer THEN {}
    ELSE (1 .. Decoded) \ (End(frames, Prebuffer) + 1 .. End(frames, Prebuffer + 1))

FrameInv ==
    /\ Typed
    /\ Gathered
    /\ Ordered(written, Due)

LEMMA EndType ==
    ASSUME NEW ends, Growing(ends), NEW i \in 0 .. Len(ends)
    PROVE  End(ends, i) \in Nat
  <1>1. ends \in Seq(Nat)
    BY DEF Growing
  <1>2. CASE i = 0
    BY <1>2 DEF End
  <1>3. CASE i # 0
    <2>1. i \in 1 .. Len(ends)
      BY <1>3
    <2>. QED  BY <1>1, <1>3, <2>1 DEF End
  <1>. QED  BY <1>2, <1>3

\* One more frame leaves the ends of the n others.
OneMore(more, ends, n, e) ==
    /\ Growing(more) /\ Len(more) = n + 1 /\ End(more, n + 1) = e
    /\ \A i \in 0 .. n : End(more, i) = End(ends, i)

LEMMA GrowingStep ==
    ASSUME NEW ends, Growing(ends), NEW len \in Nat \ {0}, NEW n \in Nat, n = Len(ends),
           NEW d \in Nat, d = End(ends, n), NEW e \in Nat, e = d + len,
           NEW more, more = Append(ends, e)
    PROVE  OneMore(more, ends, n, e)
  <1>1. ends \in Seq(Nat)
    BY DEF Growing
  <1>2. more \in Seq(Nat) /\ Len(more) = n + 1 /\ more[n + 1] = e
        /\ \A i \in 1 .. n : more[i] = ends[i]
    BY <1>1
  <1>3. End(more, n + 1) = e
    BY <1>2 DEF End
  <1>4. ASSUME NEW i \in 0 .. n
        PROVE  End(more, i) = End(ends, i)
    <2>1. CASE i = 0
      BY <2>1 DEF End
    <2>2. CASE i # 0
      <3>1. i \in 1 .. n
        BY <2>2
      <3>. QED  BY <1>2, <2>2, <3>1 DEF End
    <2>. QED  BY <2>1, <2>2
  <1>5. ASSUME NEW i \in 0 .. Len(more), NEW j \in 0 .. Len(more), i < j
        PROVE  End(more, i) < End(more, j)
    <2>1. i \in 0 .. n
      BY <1>2, <1>5
    <2>2. PICK a \in Nat : a = End(ends, i) /\ End(more, i) = a
      BY <1>4, <2>1, EndType
    <2>3. CASE j \in 0 .. n
      BY <1>4, <1>5, <2>1, <2>3 DEF Growing
    <2>4. CASE j \notin 0 .. n
      <3>1. j = n + 1
        BY <1>2, <2>4
      <3>2. a <= d
        <4>1. CASE i = n
          BY <2>2, <4>1
        <4>2. CASE i # n
          <5>1. i < n /\ n \in 0 .. Len(ends)
            BY <2>1, <4>2
          <5>2. End(ends, i) < End(ends, n)
            BY <2>1, <5>1 DEF Growing
          <5>. QED  BY <2>2, <5>2
        <4>. QED  BY <4>1, <4>2
      <3>3. a < e
        BY <3>2
      <3>. QED  BY <1>3, <2>2, <3>1, <3>3
    <2>. QED  BY <2>3, <2>4
  <1>. QED  BY <1>2, <1>3, <1>4, <1>5 DEF Growing, OneMore

LEMMA FrameInit == Init => FrameInv
  <1>. SUFFICES ASSUME Init
                PROVE  FrameInv
    OBVIOUS
  <1>1. frames = <<>> /\ logo = <<>> /\ cache = <<>> /\ written = <<>>
    BY DEF Init
  <1>2. Growing(<<>>)
    BY DEF Growing
  <1>3. Len(frames) = 0 /\ Decoded = 0
    BY <1>1 DEF Decoded, End
  <1>4. 0 <= Prebuffer
    BY AudioRingAssumption
  <1>5. Numbers(0, 0) = <<>>
    <2>1. 0 - 0 = 0
      OBVIOUS
    <2>2. Numbers(0, 0) \in Seq(Int) /\ Len(Numbers(0, 0)) = 0
      BY <2>1, NumbersType
    <2>. QED  BY <2>2, EmptySeq
  <1>6. Gathered
    BY <1>1, <1>3, <1>4, <1>5 DEF Gathered
  <1>7. Ordered(<<>>, {})
    BY DEF Ordered
  <1>8. Due = {}
    BY <1>3, <1>4 DEF Due
  <1>. QED  BY <1>1, <1>2, <1>6, <1>7, <1>8 DEF FrameInv, Typed

\* What an action that decodes len bytes of the stream writes.
Out(len) == IF cache # <<>> THEN cache ELSE Numbers(Decoded, Decoded + len)

LEMMA DecodeStep ==
    ASSUME FrameInv, NEW len \in Frame, audio_decode(len)
    PROVE  FrameInv'
  <1>1. len \in Nat \ {0} /\ Prebuffer \in Nat \ {0}
    BY AudioRingAssumption
  <1>2. Typed /\ Gathered /\ Ordered(written, Due)
    BY DEF FrameInv
  <1>3. Growing(frames) /\ Growing(logo) /\ cache \in Seq(Int) /\ written \in Seq(Int)
    BY <1>2 DEF Typed
  <1>4. PICK n \in Nat : n = Len(frames)
    BY <1>3, LenProperties DEF Growing
  <1>5. PICK d \in Nat : d = Decoded /\ d = End(frames, n)
    BY <1>3, <1>4, EndType DEF Decoded
  <1>6. PICK e \in Nat : e = d + len /\ d < e
    BY <1>1
  <1>7. /\ frames' = Append(frames, d + len)
        /\ logo' = logo
        /\ IF n < Prebuffer
           THEN cache' = cache \o Numbers(d, d + len) /\ written' = written
           ELSE written' = written \o Out(len) /\ cache' = <<>>
    BY <1>4, <1>5 DEF audio_decode, Gathering, Out
  <1>8. /\ Growing(frames') /\ Len(frames') = n + 1 /\ End(frames', n + 1) = e
        /\ \A i \in 0 .. n : End(frames', i) = End(frames, i)
    <2>1. /\ len \in Nat \ {0} /\ Growing(frames) /\ n = Len(frames)
          /\ d = End(frames, n) /\ e = d + len /\ frames' = Append(frames, e)
      BY <1>1, <1>3, <1>4, <1>5, <1>6, <1>7
    <2>2. OneMore(frames', frames, n, e)
      BY <2>1, GrowingStep
    <2>. QED  BY <2>2 DEF OneMore
  <1>9. Decoded' = e
    BY <1>8 DEF Decoded
  <1>10. Numbers(d, e) \in Seq(Int) /\ Ordered(Numbers(d, e), d + 1 .. e)
    BY <1>6, NumbersType, NumbersOrdered
  <1>11. CASE n < Prebuffer
    <2>1. cache = Numbers(0, d) /\ Due = {}
      BY <1>1, <1>2, <1>4, <1>5, <1>11 DEF Gathered, Due
    <2>2. cache' = Numbers(0, e) /\ written' = written
      BY <1>1, <1>6, <1>7, <1>11, <2>1, NumbersJoin
    <2>3. Len(frames') <= Prebuffer
      BY <1>1, <1>8, <1>11
    <2>4. Gathered' /\ Due' = {}
      BY <1>9, <2>2, <2>3 DEF Gathered, Due
    <2>5. cache' \in Seq(Int)
      BY <2>2, NumbersType
    <2>. QED  BY <1>2, <1>3, <1>7, <1>8, <2>1, <2>2, <2>4, <2>5 DEF FrameInv, Typed
  <1>12. CASE ~(n < Prebuffer)
    <2>1. written' = written \o Out(len) /\ cache' = <<>>
      BY <1>7, <1>12
    <2>2. ~(Len(frames') <= Prebuffer)
      BY <1>1, <1>8, <1>12
    <2>3. Gathered'
      BY <2>1, <2>2 DEF Gathered
    <2>4. PICK g \in Nat, l \in Nat : /\ g = End(frames', Prebuffer) /\ l = End(frames', Prebuffer + 1)
                                      /\ g < l
      <3>1. Prebuffer \in 0 .. n + 1 /\ Prebuffer + 1 \in 0 .. n + 1 /\ Prebuffer < Prebuffer + 1
        BY <1>1, <1>12
      <3>2. End(frames', Prebuffer) < End(frames', Prebuffer + 1)
        BY <1>8, <3>1 DEF Growing
      <3>3. End(frames', Prebuffer) \in Nat /\ End(frames', Prebuffer + 1) \in Nat
        BY <1>8, <3>1, EndType
      <3>. QED  BY <3>2, <3>3
    <2>5. Due' = (1 .. e) \ (g + 1 .. l)
      BY <1>9, <2>2, <2>4 DEF Due
    <2>6. CASE n = Prebuffer
      <3>1. cache = Numbers(0, d) /\ Due = {}
        BY <1>1, <1>2, <1>4, <1>5, <2>6 DEF Gathered, Due
      <3>2. g = d /\ l = e
        <4>1. n \in 0 .. n
          OBVIOUS
        <4>. QED  BY <1>5, <1>8, <2>4, <2>6, <4>1
      <3>3. 0 < d
        <4>1. 0 \in 0 .. Len(frames) /\ n \in 0 .. Len(frames) /\ 0 < n
          BY <1>1, <1>4, <2>6
        <4>2. End(frames, 0) < End(frames, n)
          BY <1>3, <4>1 DEF Growing
        <4>. QED  BY <1>5, <4>2 DEF End
      <3>4. cache # <<>>
        <4>1. d - 0 = d
          OBVIOUS
        <4>2. Len(cache) = d
          BY <3>1, <4>1, NumbersType
        <4>. QED  BY <3>3, <4>2
      <3>5. Out(len) = Numbers(0, d)
        BY <3>1, <3>4 DEF Out
      <3>6. Numbers(0, d) \in Seq(Int) /\ Ordered(Numbers(0, d), 0 + 1 .. d)
        BY NumbersType, NumbersOrdered
      <3>7. Joined(written, Numbers(0, d), written')
        BY <1>3, <2>1, <3>5, <3>6, JoinedIs
      <3>8. Ordered(written', {} \cup (0 + 1 .. d))
        BY <1>2, <1>3, <3>1, <3>6, <3>7, JoinedOrdered
      <3>9. Due' = {} \cup (0 + 1 .. d)
        BY <1>6, <2>5, <3>2
      <3>10. written' \in Seq(Int)
        BY <3>7 DEF Joined
      <3>. QED  BY <1>3, <1>7, <1>8, <2>1, <2>3, <3>8, <3>9, <3>10 DEF FrameInv, Typed
    <2>7. CASE n # Prebuffer
      <3>1. ~(n <= Prebuffer)
        BY <1>1, <1>12, <2>7
      <3>2. cache = <<>>
        BY <1>2, <1>4, <3>1 DEF Gathered
      <3>3. Out(len) = Numbers(d, e)
        BY <1>5, <1>6, <3>2 DEF Out
      <3>4. Prebuffer \in 0 .. n /\ Prebuffer + 1 \in 0 .. n
        BY <1>1, <3>1
      <3>5. g = End(frames, Prebuffer) /\ l = End(frames, Prebuffer + 1)
        BY <1>8, <2>4, <3>4
      <3>6. Due = (1 .. d) \ (g + 1 .. l)
        BY <1>4, <1>5, <3>1, <3>5 DEF Due
      <3>7. l <= d
        <4>1. CASE Prebuffer + 1 = n
          BY <1>5, <3>5, <4>1
        <4>2. CASE Prebuffer + 1 # n
          <5>1. Prebuffer + 1 < n /\ n \in 0 .. Len(frames) /\ Prebuffer + 1 \in 0 .. Len(frames)
            BY <1>1, <1>4, <3>4, <4>2
          <5>2. End(frames, Prebuffer + 1) < End(frames, n)
            BY <1>3, <5>1 DEF Growing
          <5>. QED  BY <1>5, <3>5, <5>2
        <4>. QED  BY <4>1, <4>2
      <3>8. Joined(written, Numbers(d, e), written')
        BY <1>3, <1>10, <2>1, <3>3, JoinedIs
      <3>9. \A a \in Due, b \in d + 1 .. e : a < b
        BY <3>6
      <3>10. Ordered(written', Due \cup (d + 1 .. e))
        BY <1>2, <1>3, <1>10, <3>8, <3>9, JoinedOrdered
      <3>11. Due' = Due \cup (d + 1 .. e)
        BY <1>6, <2>4, <2>5, <3>6, <3>7
      <3>12. written' \in Seq(Int)
        BY <3>8 DEF Joined
      <3>. QED  BY <1>3, <1>7, <1>8, <2>1, <2>3, <3>10, <3>11, <3>12 DEF FrameInv, Typed
    <2>. QED  BY <2>6, <2>7
  <1>. QED  BY <1>11, <1>12

LEMMA FilmStep ==
    ASSUME FrameInv, NEW len \in Frame, PlayFile(len)
    PROVE  FrameInv'
  <1>1. len \in Nat \ {0}
    BY AudioRingAssumption
  <1>2. Typed /\ Gathered /\ Ordered(written, Due)
    BY DEF FrameInv
  <1>3. Growing(frames) /\ Growing(logo) /\ cache \in Seq(Int) /\ written \in Seq(Int)
    BY <1>2 DEF Typed
  <1>4. PICK n \in Nat : n = Len(logo)
    BY <1>3, LenProperties DEF Growing
  <1>5. PICK d \in Nat : d = Shown /\ d = End(logo, n)
    BY <1>3, <1>4, EndType DEF Shown
  <1>6. PICK e \in Nat : e = d + len /\ d <= e
    BY <1>1
  <1>7. PICK bytes : bytes = Negated(Numbers(d, e)) /\ bytes \in Seq(Int) /\ Ordered(bytes, {})
    BY <1>6, NegatedOrdered
  <1>8. /\ logo' = Append(logo, d + len) /\ frames' = frames /\ cache' = cache
        /\ written' = written \o bytes
    BY <1>5, <1>6, <1>7 DEF PlayFile
  <1>9. Growing(logo')
    <2>1. /\ len \in Nat \ {0} /\ Growing(logo) /\ n = Len(logo)
          /\ d = End(logo, n) /\ e = d + len /\ logo' = Append(logo, e)
      BY <1>1, <1>3, <1>4, <1>5, <1>6, <1>8
    <2>. QED  BY <2>1, GrowingStep DEF OneMore
  <1>10. Gathered' /\ Due' = Due
    BY <1>2, <1>8 DEF Gathered, Due, Decoded
  <1>11. Joined(written, bytes, written')
    BY <1>3, <1>7, <1>8, JoinedIs
  <1>12. Ordered(written', Due \cup {})
    BY <1>2, <1>3, <1>7, <1>11, JoinedOrdered
  <1>13. written' \in Seq(Int) /\ Due \cup {} = Due
    BY <1>11 DEF Joined
  <1>. QED  BY <1>3, <1>8, <1>9, <1>10, <1>12, <1>13 DEF FrameInv, Typed

LEMMA FrameStep == FrameInv /\ [Next]_vars => FrameInv'
  <1>. SUFFICES ASSUME FrameInv, [Next]_vars
                PROVE  FrameInv'
    OBVIOUS
  <1>1. ASSUME NEW len \in Frame, audio_decode(len)
        PROVE  FrameInv'
    BY <1>1, DecodeStep
  <1>2. ASSUME NEW len \in Frame, PlayFile(len)
        PROVE  FrameInv'
    BY <1>2, FilmStep
  <1>3. ASSUME UNCHANGED <<frames, logo, cache, written>>
        PROVE  FrameInv'
    BY <1>3 DEF FrameInv, Typed, Gathered, Due, Decoded
  <1>4. CASE sdlAudioCallBackFunc
    BY <1>3, <1>4 DEF sdlAudioCallBackFunc
  <1>5. CASE UNCHANGED vars
    BY <1>3, <1>5 DEF vars
  <1>. QED  BY <1>1, <1>2, <1>4, <1>5 DEF Next

----------------------------------------------------------------------------
(* The theorems *)

\* What was written is what was played and what the ring still has, as long as the
\* counters have not wrapped; this is the inductive invariant of the ring.
RingInv ==
    Len(written) < Width =>
        \E s : /\ Holds(ring, s)
               /\ played \in Seq(Int) /\ written = played \o s
               /\ ring.rear <= Len(written)

LEMMA RingInit == Init => RingInv
  <1>. SUFFICES ASSUME Init
                PROVE  RingInv
    OBVIOUS
  <1>1. ring = ring_buf_create(Size) /\ written = <<>> /\ played = <<>>
    BY DEF Init
  <1>2. Size \in Nat \ {0} /\ Size < Width
    BY AudioRingAssumption
  <1>3. Holds(ring, <<>>) /\ ring.rear = 0
    BY <1>1, <1>2, CreatedHolds
  <1>4. played \in Seq(Int) /\ written = played \o <<>> /\ Len(written) = 0
    BY <1>1
  <1>. QED  BY <1>3, <1>4 DEF RingInv

LEMMA RingWrite ==
    ASSUME RingInv, written \in Seq(Int), NEW bytes \in Seq(Int),
           ring' = writeAudioRingBuf(bytes), written' = written \o bytes, played' = played,
           ring'.size <= MaxSize
    PROVE  RingInv'
  <1>. SUFFICES ASSUME Len(written') < Width
                PROVE  \E s : /\ Holds(ring', s)
                              /\ played' \in Seq(Int) /\ written' = played' \o s
                              /\ ring'.rear <= Len(written')
    BY DEF RingInv
  <1>1. PICK m \in Nat, n \in Nat : m = Len(written) /\ n = Len(bytes) /\ Len(written') = m + n
    BY LenProperties
  <1>2. m < Width /\ Width \in Nat
    BY <1>1, AudioRingAssumption
  <1>3. PICK s : /\ Holds(ring, s)
                 /\ played \in Seq(Int) /\ written = played \o s /\ ring.rear <= m
    BY <1>1, <1>2 DEF RingInv
  <1>4. PICK u : u = s \o bytes
    OBVIOUS
  <1>5. s \in Seq(Int) /\ Joined(s, bytes, u)
    BY <1>3, <1>4, Counters, JoinedIs
  <1>6. ring'.size < Width /\ ring.rear + n < Width
    <2>1. PICK e \in Nat : e = ring.rear /\ e <= m
      BY <1>3, Counters
    <2>2. m + n < Width
      BY <1>1
    <2>3. ring.rear + n < Width
      BY <1>2, <2>1, <2>2
    <2>4. PICK k \in Nat : k = ring'.size
      <3>1. ring.size \in Nat /\ ring_buf_remain(ring) \in Nat
        BY <1>3, Counters, RingLen DEF ring_buf_remain
      <3>2. ring'.size = ring.size \/ ring'.size = ring.size + ring_buf_remain(ring) + n
        BY <1>1, SizeWritten
      <3>. QED  BY <3>1, <3>2
    <2>5. k < Width
      BY <2>4, AudioRingAssumption
    <2>. QED  BY <2>3, <2>4, <2>5
  <1>7. Holds(ring', u) /\ ring'.rear <= ring.rear + n
    BY <1>1, <1>3, <1>5, <1>6, WriteHolds
  <1>8. written' = played \o u
    <2>1. PICK p : p = played /\ p \in Seq(Int)
      BY <1>3
    <2>2. s \in Seq(Int) /\ bytes \in Seq(Int)
      BY <1>5
    <2>3. (p \o s) \o bytes = p \o (s \o bytes)
      BY <2>1, <2>2, Associates
    <2>. QED  BY <1>3, <1>4, <2>1, <2>3
  <1>9. ring'.rear <= m + n
    <2>1. ring.rear \in Nat /\ ring'.rear \in Nat
      BY <1>3, <1>7, Counters
    <2>. QED  BY <1>3, <1>7, <2>1
  <1>. QED  BY <1>1, <1>3, <1>7, <1>8, <1>9

LEMMA RingRead ==
    ASSUME RingInv, sdlAudioCallBackFunc
    PROVE  RingInv'
  <1>. SUFFICES ASSUME Len(written') < Width
                PROVE  \E s : /\ Holds(ring', s)
                              /\ played' \in Seq(Int) /\ written' = played' \o s
                              /\ ring'.rear <= Len(written')
    BY DEF RingInv
  <1>1. /\ written' = written /\ played' = played \o Got(ring, Want)
        /\ ring' = ring_buf_get(ring, Want) /\ Want \in Nat
    BY AudioRingAssumption DEF sdlAudioCallBackFunc
  <1>2. PICK s : /\ Holds(ring, s)
                 /\ played \in Seq(Int) /\ written = played \o s /\ ring.rear <= Len(written)
    BY <1>1 DEF RingInv
  <1>3. PICK rest : /\ Holds(ring', rest) /\ s = Got(ring, Want) \o rest
                    /\ Got(ring, Want) \in Seq(Int) /\ ring'.rear = ring.rear
    BY <1>1, <1>2, GetHolds
  <1>4. rest \in Seq(Int)
    BY <1>3, Counters
  <1>5. PICK got : got = Got(ring, Want) /\ got \in Seq(Int)
    BY <1>3
  <1>6. (played \o got) \o rest = played \o (got \o rest)
    BY <1>2, <1>4, <1>5, Associates
  <1>7. played' \in Seq(Int) /\ written' = played' \o rest
    BY <1>1, <1>2, <1>3, <1>5, <1>6
  <1>. QED  BY <1>1, <1>2, <1>3, <1>7

LEMMA RingStep == FrameInv /\ RingInv /\ [Next]_vars => RingInv'
  <1>. SUFFICES ASSUME FrameInv, RingInv, [Next]_vars
                PROVE  RingInv'
    OBVIOUS
  <1>1. cache \in Seq(Int) /\ written \in Seq(Int) /\ Growing(frames) /\ Growing(logo)
    BY DEF FrameInv, Typed
  <1>2. Decoded \in Nat /\ Shown \in Nat
    <2>1. Len(frames) \in 0 .. Len(frames) /\ Len(logo) \in 0 .. Len(logo)
      BY <1>1, LenProperties DEF Growing
    <2>. QED  BY <1>1, <2>1, EndType DEF Decoded, Shown
  <1>3. ASSUME NEW len \in Frame, audio_decode(len)
        PROVE  RingInv'
    <2>1. len \in Nat
      BY AudioRingAssumption
    <2>2. Out(len) \in Seq(Int)
      <3>1. Decoded + len \in Nat /\ Decoded <= Decoded + len
        BY <1>2, <2>1
      <3>. QED  BY <1>1, <1>2, <3>1, NumbersType DEF Out
    <2>3. CASE Gathering
      <3>1. ring' = ring /\ written' = written /\ played' = played
        BY <1>3, <2>3 DEF audio_decode
      <3>. QED  BY <3>1 DEF RingInv
    <2>4. CASE ~Gathering
      <3>1. /\ ring' = writeAudioRingBuf(Out(len)) /\ written' = written \o Out(len)
            /\ played' = played /\ ring'.size <= MaxSize
        BY <1>3, <2>4 DEF audio_decode, Out
      <3>. QED  BY <1>1, <2>2, <3>1, RingWrite
    <2>. QED  BY <2>3, <2>4
  <1>4. ASSUME NEW len \in Frame, PlayFile(len)
        PROVE  RingInv'
    <2>1. PICK d \in Nat, e \in Nat : d = Shown /\ e = d + len /\ d <= e
      <3>1. len \in Nat
        BY AudioRingAssumption
      <3>. QED  BY <1>2, <3>1
    <2>2. PICK bytes : bytes = Negated(Numbers(d, e)) /\ bytes \in Seq(Int)
      BY <2>1, NegatedOrdered
    <2>3. /\ ring' = writeAudioRingBuf(bytes) /\ written' = written \o bytes
          /\ played' = played /\ ring'.size <= MaxSize
      BY <1>4, <2>1, <2>2 DEF PlayFile
    <2>. QED  BY <1>1, <2>2, <2>3, RingWrite
  <1>5. CASE sdlAudioCallBackFunc
    BY <1>5, RingRead
  <1>6. CASE UNCHANGED vars
    BY <1>6 DEF vars, RingInv
  <1>. QED  BY <1>3, <1>4, <1>5, <1>6 DEF Next

\* The frames end one after the other, the cache has all of them while they are gathered
\* and nothing afterwards, and what was written of the stream is what was due.
THEOREM FramesKept == Spec => []FrameInv
  <1>. QED  BY FrameInit, FrameStep, PTL DEF Spec

\* As long as fewer bytes were written than an unsigned int counts, what SDL was given and
\* what the ring has is what was written, byte for byte, whatever the sizes of the ring,
\* of the frames and of SDL's wishes.  The run audio_wrap shows that the limit is needed.
THEOREM RingKeepsAll == Spec => [](Len(written) < Width => NothingLost)
  <1>1. RingInv => (Len(written) < Width => NothingLost)
    <2>. SUFFICES ASSUME RingInv, Len(written) < Width
                  PROVE  NothingLost
      OBVIOUS
    <2>1. PICK s : Holds(ring, s) /\ written = played \o s
      BY DEF RingInv
    <2>2. Got(ring, ring.size) = s
      BY <2>1, Counters, GotAll
    <2>. QED  BY <2>1, <2>2 DEF NothingLost
  <1>2. Spec => []RingInv
    BY RingInit, RingStep, FramesKept, PTL DEF Spec
  <1>. QED  BY <1>1, <1>2, PTL

\* Of the whole stream exactly the first frame that is not gathered is never written, and
\* all other bytes are, each once and in order, for any frames and any number of them to gather.
THEOREM AllButOneFrame == Spec => []OneFrameLost
  <1>1. FrameInv => OneFrameLost
    <2>. SUFFICES ASSUME FrameInv
                  PROVE  OneFrameLost
      OBVIOUS
    <2>1. /\ Growing(frames) /\ cache \in Seq(Int) /\ written \in Seq(Int)
          /\ Gathered /\ Ordered(written, Due)
      BY DEF FrameInv, Typed
    <2>2. PICK n \in Nat : n = Len(frames)
      BY <2>1, LenProperties DEF Growing
    <2>3. PICK d \in Nat : d = Decoded /\ d = End(frames, n)
      BY <2>1, <2>2, EndType DEF Decoded
    <2>4. PICK g : g = End(frames, Smaller(Prebuffer, n))
      OBVIOUS
    <2>5. PICK l : l = End(frames, Smaller(Prebuffer + 1, n))
      OBVIOUS
    <2>6. PICK u : u = written \o cache /\ Joined(written, cache, u)
      BY <2>1, JoinedIs
    <2>7. Prebuffer \in Nat \ {0}
      BY AudioRingAssumption
    <2>8. Ordered(u, (1 .. d) \ (g + 1 .. l))
      <3>1. CASE n <= Prebuffer
        <4>1. cache = Numbers(0, d) /\ Due = {}
          BY <2>1, <2>2, <2>3, <3>1 DEF Gathered, Due
        <4>2. g = d /\ l = d
          BY <2>2, <2>3, <2>4, <2>5, <2>7, <3>1 DEF Smaller
        <4>3. Ordered(cache, 0 + 1 .. d)
          BY <4>1, NumbersOrdered
        <4>4. Ordered(u, {} \cup (0 + 1 .. d))
          BY <2>1, <2>6, <4>1, <4>3, JoinedOrdered
        <4>5. {} \cup (0 + 1 .. d) = (1 .. d) \ (g + 1 .. l)
          BY <4>2
        <4>. QED  BY <4>4, <4>5
      <3>2. CASE ~(n <= Prebuffer)
        <4>1. cache = <<>>
          BY <2>1, <2>2, <3>2 DEF Gathered
        <4>2. u = written
          BY <2>1, <2>6, <4>1, ConcatEmptySeq
        <4>3. g = End(frames, Prebuffer) /\ l = End(frames, Prebuffer + 1)
          BY <2>4, <2>5, <2>7, <3>2 DEF Smaller
        <4>4. Due = (1 .. d) \ (g + 1 .. l)
          BY <2>2, <2>3, <3>2, <4>3 DEF Due
        <4>. QED  BY <2>1, <4>2, <4>4
      <3>. QED  BY <3>1, <3>2
    <2>9. DOMAIN u = 1 .. Len(u) /\ u \in Seq(Int)
      BY <2>6 DEF Joined
    <2>10. \A b \in (1 .. d) \ (g + 1 .. l) : b > 0
      BY <2>3
    <2>11. {b \in {u[i] : i \in DOMAIN u} : b > 0} = (1 .. d) \ (g + 1 .. l)
      BY <2>8, <2>9, <2>10 DEF Ordered
    <2>12. \A i, j \in DOMAIN u : i < j /\ u[i] > 0 /\ u[j] > 0 => u[i] < u[j]
      BY <2>8, <2>9 DEF Ordered
    <2>. QED  BY <2>2, <2>3, <2>4, <2>5, <2>6, <2>11, <2>12 DEF OneFrameLost
  <1>. QED  BY <1>1, FramesKept, PTL
=============================================================================
