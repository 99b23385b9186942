--------------------------- MODULE AVClient_proofs ---------------------------
(***************************************************************************)
(* Theorems about AVClient, for every set of message lengths, any number   *)
(* of messages and any number of connections.                              *)
(***************************************************************************)
EXTENDS AVClient, SequenceTheorems, FiniteSetTheorems, TLAPS

LEMMA LeastOfNaturals ==
    ASSUME NEW S, S \subseteq Nat, S # {}
    PROVE  \E x \in S : \A y \in S : x <= y
  <1>1. PICK x \in S : \A y \in S : ~ (<<y, x>> \in OpToRel(<, Nat))
    BY WFMin, NatLessThanWellFounded
  <1>2. ASSUME NEW y \in S, y < x PROVE FALSE
    <2>1. <<y, x>> \in {p \in Nat \X Nat : p[1] < p[2]}
      BY <1>2
    <2>. QED  BY <1>1, <2>1 DEF OpToRel
  <1>. QED  BY <1>2

----------------------------------------------------------------------------
(* The queue: Tail, Append and RemoveFirst all leave out one place or add one. *)

Without(q, p, r) ==
    /\ r \in Seq(Callback) /\ Len(r) = Len(q) - 1
    /\ \A k \in 1 .. Len(r) : r[k] = IF k < p THEN q[k] ELSE q[k + 1]

Count(q, cb) == Cardinality({i \in 1 .. Len(q) : q[i].cb = cb})
Sends(q)     == {q[i].msg : i \in {j \in 1 .. Len(q) : q[j].cb = "do_send_cb"}}

LEMMA TailWithout ==
    ASSUME NEW q \in Seq(Callback), q # <<>>
    PROVE  Without(q, 1, Tail(q)) /\ 1 \in 1 .. Len(q) /\ q[1] = Head(q)
  BY HeadTailProperties DEF Without

\* r is q with e behind it.
Appended(q, e, r) ==
    /\ r \in Seq(Callback) /\ Len(q) \in Nat /\ Len(r) = Len(q) + 1
    /\ r[Len(r)] = e /\ Len(r) \in 1 .. Len(r)
    /\ \A i \in 1 .. Len(r) : i # Len(r) => i \in 1 .. Len(q) /\ r[i] = q[i] /\ i < Len(r)
    /\ Without(r, Len(r), q)

LEMMA AppendFacts ==
    ASSUME NEW q \in Seq(Callback), NEW e \in Callback
    PROVE  Appended(q, e, Append(q, e))
  <1>1. /\ Append(q, e) \in Seq(Callback) /\ Len(q) \in Nat
        /\ Len(Append(q, e)) = Len(q) + 1 /\ Append(q, e)[Len(q) + 1] = e
        /\ \A i \in 1 .. Len(q) : Append(q, e)[i] = q[i]
    BY AppendProperties
  <1>. QED  BY <1>1 DEF Appended, Without

LEMMA RemoveAtWithout ==
    ASSUME NEW q \in Seq(Callback), NEW p \in 1 .. Len(q)
    PROVE  Without(q, p, RemoveAt(q, p))
  <1>. DEFINE a == SubSeq(q, 1, p - 1)
              b == SubSeq(q, p + 1, Len(q))
  <1>0. Len(q) \in Nat /\ p \in Nat /\ \A i \in 1 .. Len(q) : q[i] \in Callback
    BY ElementOfSeq
  <1>1. a \in Seq(Callback) /\ Len(a) = p - 1 /\ \A i \in 1 .. p - 1 : a[i] = q[i]
    <2>1. \A i \in 1 .. p - 1 : q[i] \in Callback
      BY <1>0
    <2>. QED  BY <1>0, <2>1, SubSeqProperties
  <1>2. b \in Seq(Callback) /\ Len(b) = Len(q) - p /\ \A i \in 1 .. Len(q) - p : b[i] = q[p + i]
    <2>1. \A i \in p + 1 .. Len(q) : q[i] \in Callback
      BY <1>0
    <2>2. /\ b \in Seq(Callback)
          /\ Len(b) = IF p + 1 <= Len(q) THEN Len(q) - (p + 1) + 1 ELSE 0
          /\ \A i \in 1 .. Len(q) - (p + 1) + 1 : b[i] = q[p + 1 + i - 1]
      <3>1. p + 1 \in Int /\ Len(q) \in Int
        BY <1>0
      <3>. QED  BY <2>1, <3>1, SubSeqProperties
    <2>. QED  BY <1>0, <2>2
  <1>. HIDE DEF a, b
  <1>3. /\ a \o b \in Seq(Callback) /\ Len(a \o b) = Len(q) - 1
        /\ \A i \in 1 .. Len(a) + Len(b) : (a \o b)[i] = IF i <= Len(a) THEN a[i] ELSE b[i - Len(a)]
    BY <1>0, <1>1, <1>2, ConcatProperties
  <1>4. ASSUME NEW k \in 1 .. Len(q) - 1
        PROVE  (a \o b)[k] = IF k < p THEN q[k] ELSE q[k + 1]
    <2>1. CASE k < p
      BY <1>0, <1>1, <1>2, <1>3, <2>1
    <2>2. CASE ~(k < p)
      <3>1. PICK j \in 1 .. Len(q) - p : j = k - (p - 1)
        BY <1>0, <2>2
      <3>2. (a \o b)[k] = b[j]
        BY <1>0, <1>1, <1>2, <1>3, <2>2, <3>1
      <3>3. p + j = k + 1
        BY <1>0, <3>1
      <3>. QED  BY <1>2, <2>2, <3>2, <3>3
    <2>. QED  BY <2>1, <2>2
  <1>5. RemoveAt(q, p) = a \o b
    BY DEF RemoveAt, a, b
  <1>. QED  BY <1>3, <1>4, <1>5 DEF Without

LEMMA RemoveFirstWithout ==
    ASSUME NEW q \in Seq(Callback), NEW e
    PROVE  \/ /\ \A i \in 1 .. Len(q) : q[i] # e
              /\ RemoveFirst(q, e) = q
           \/ \E p \in 1 .. Len(q) : q[p] = e /\ Without(q, p, RemoveFirst(q, e))
  <1>1. CASE \A i \in 1 .. Len(q) : q[i] # e
    BY <1>1 DEF RemoveFirst
  <1>2. CASE \E i \in 1 .. Len(q) : q[i] = e
    <2>. DEFINE I == {i \in 1 .. Len(q) : q[i] = e}
    <2>1. I # {} /\ I \subseteq Nat
      BY <1>2
    <2>2. Min(I) \in I
      BY <2>1, LeastOfNaturals DEF Min
    <2>3. RemoveFirst(q, e) = RemoveAt(q, Min(I))
      BY <1>2, <2>1 DEF RemoveFirst, SelectInSeq
    <2>. QED  BY <2>2, <2>3, RemoveAtWithout
  <1>. QED  BY <1>1, <1>2

LEMMA WithoutCount ==
    ASSUME NEW q \in Seq(Callback), NEW p \in 1 .. Len(q), NEW r, Without(q, p, r), NEW cb
    PROVE  /\ Count(q, cb) \in Nat /\ Count(r, cb) \in Nat
           /\ Count(q, cb) = Count(r, cb) + (IF q[p].cb = cb THEN 1 ELSE 0)
  <1>. DEFINE Q == {i \in 1 .. Len(q) : q[i].cb = cb}
              R == {i \in 1 .. Len(r) : r[i].cb = cb}
              f == [i \in R |-> IF i < p THEN i ELSE i + 1]
  <1>1. Len(q) \in Nat /\ Len(r) \in Nat /\ Len(r) = Len(q) - 1
    BY DEF Without
  <1>2. IsFiniteSet(Q) /\ IsFiniteSet(R)
    <2>1. IsFiniteSet(1 .. Len(q)) /\ IsFiniteSet(1 .. Len(r))
      BY <1>1, FS_Interval
    <2>2. Q \subseteq 1 .. Len(q) /\ R \subseteq 1 .. Len(r)
      OBVIOUS
    <2>. HIDE DEF Q, R
    <2>. QED  BY <2>1, <2>2, FS_Subset
  <1>3. f \in Bijection(R, Q \ {p})
    <2>1. \A i \in R : f[i] \in Q \ {p}
      BY <1>1 DEF Without
    <2>2. \A i, j \in R : f[i] = f[j] => i = j
      BY <1>1
    <2>3. \A i \in Q \ {p} : \E j \in R : f[j] = i
      <3>1. SUFFICES ASSUME NEW i \in Q \ {p} PROVE \E j \in R : f[j] = i
        OBVIOUS
      <3>2. PICK j \in Int : j = IF i < p THEN i ELSE i - 1
        BY <1>1
      <3>3. j \in 1 .. Len(r) /\ r[j] = q[i]
        <4>1. CASE i < p
          BY <1>1, <3>2, <4>1 DEF Without
        <4>2. CASE i > p
          <5>1. j \in 1 .. Len(r) /\ ~(j < p) /\ j + 1 = i
            BY <1>1, <3>2, <4>2
          <5>. QED  BY <5>1 DEF Without
        <4>. QED  BY <1>1, <4>1, <4>2
      <3>. QED  BY <1>1, <3>2, <3>3
    <2>. QED  BY <2>1, <2>2, <2>3 DEF Bijection, Injection, Surjection, IsInjective
  <1>4. Cardinality(R) = Cardinality(Q \ {p})
    <2>1. ExistsBijection(R, Q \ {p})
      BY <1>3 DEF ExistsBijection
    <2>. HIDE DEF Q, R
    <2>. QED  BY <1>2, <2>1, FS_Bijection
  <1>5. Cardinality(Q) = Cardinality(Q \ {p}) + (IF p \in Q THEN 1 ELSE 0)
    <2>. HIDE DEF Q
    <2>1. Cardinality(Q \ {p}) = IF p \in Q THEN Cardinality(Q) - 1 ELSE Cardinality(Q)
      BY <1>2, FS_RemoveElement
    <2>2. Cardinality(Q) \in Nat
      BY <1>2, FS_CardinalityType
    <2>. QED  BY <2>1, <2>2
  <1>. QED  BY <1>2, <1>4, <1>5, FS_CardinalityType DEF Count

LEMMA WithoutSends ==
    ASSUME NEW q \in Seq(Callback), NEW p \in 1 .. Len(q), NEW r, Without(q, p, r)
    PROVE  Sends(q) = Sends(r) \cup (IF q[p].cb = "do_send_cb" THEN {q[p].msg} ELSE {})
  <1>1. Len(q) \in Nat /\ Len(r) \in Nat /\ Len(r) = Len(q) - 1
    BY DEF Without
  <1>2. ASSUME NEW k \in 1 .. Len(r) PROVE \E i \in 1 .. Len(q) : i # p /\ q[i] = r[k]
    <2>1. CASE k < p
      BY <1>1, <2>1 DEF Without
    <2>2. CASE ~(k < p)
      <3>1. k + 1 \in 1 .. Len(q) /\ k + 1 # p /\ r[k] = q[k + 1]
        BY <1>1, <2>2 DEF Without
      <3>. QED  BY <3>1
    <2>. QED  BY <2>1, <2>2
  <1>3. ASSUME NEW i \in 1 .. Len(q), i # p PROVE \E k \in 1 .. Len(r) : r[k] = q[i]
    <2>1. CASE i < p
      <3>1. i \in 1 .. Len(r)
        BY <1>1, <2>1
      <3>. QED  BY <2>1, <3>1 DEF Without
    <2>2. CASE i > p
      <3>1. PICK k \in 1 .. Len(r) : i = k + 1
        BY <1>1, <2>2
      <3>. QED  BY <1>1, <2>2, <3>1 DEF Without
    <2>. QED  BY <1>1, <1>3, <2>1, <2>2
  <1>4. ASSUME NEW m PROVE m \in Sends(r) => m \in Sends(q)
    BY <1>2 DEF Sends
  <1>5. ASSUME NEW m \in Sends(q)
        PROVE  m \in Sends(r) \/ (q[p].cb = "do_send_cb" /\ m = q[p].msg)
    <2>1. PICK i \in 1 .. Len(q) : q[i].cb = "do_send_cb" /\ m = q[i].msg
      BY DEF Sends
    <2>2. CASE i = p
      BY <2>1, <2>2
    <2>3. CASE i # p
      <3>1. PICK k \in 1 .. Len(r) : r[k] = q[i]
        BY <1>3, <2>3
      <3>. QED  BY <2>1, <3>1 DEF Sends
    <2>. QED  BY <2>2, <2>3
  <1>6. q[p].cb = "do_send_cb" => q[p].msg \in Sends(q)
    BY DEF Sends
  <1>. QED  BY <1>4, <1>5, <1>6

\* r has some of q's callbacks, in q's order.
Subqueue(q, r) ==
    /\ r \in Seq(Callback)
    /\ \A k \in 1 .. Len(r) : \E i \in 1 .. Len(q) : q[i] = r[k]
    /\ \A k, l \in 1 .. Len(r) :
           k < l => \E i, j \in 1 .. Len(q) : i < j /\ q[i] = r[k] /\ q[j] = r[l]

LEMMA WithoutSubqueue ==
    ASSUME NEW q \in Seq(Callback), NEW p \in 1 .. Len(q), NEW r, Without(q, p, r)
    PROVE  Subqueue(q, r)
  <1>1. Len(q) \in Nat /\ Len(r) \in Nat /\ Len(r) = Len(q) - 1
    BY DEF Without
  <1>. DEFINE f(k) == IF k < p THEN k ELSE k + 1
  <1>2. ASSUME NEW k \in 1 .. Len(r) PROVE f(k) \in 1 .. Len(q) /\ q[f(k)] = r[k]
    BY <1>1 DEF Without
  <1>3. ASSUME NEW k \in 1 .. Len(r), NEW l \in 1 .. Len(r), k < l PROVE f(k) < f(l)
    BY <1>1, <1>3
  <1>. HIDE DEF f
  <1>4. r \in Seq(Callback)
    BY DEF Without
  <1>. QED  BY <1>2, <1>3, <1>4 DEF Subqueue

LEMMA SubqueueTransitive ==
    ASSUME NEW q, NEW r, NEW s, Subqueue(q, r), Subqueue(r, s)
    PROVE  Subqueue(q, s)
  <1>1. ASSUME NEW k \in 1 .. Len(s) PROVE \E i \in 1 .. Len(q) : q[i] = s[k]
    BY DEF Subqueue
  <1>2. ASSUME NEW k \in 1 .. Len(s), NEW l \in 1 .. Len(s), k < l
        PROVE  \E i, j \in 1 .. Len(q) : i < j /\ q[i] = s[k] /\ q[j] = s[l]
    <2>1. PICK i, j \in 1 .. Len(r) : i < j /\ r[i] = s[k] /\ r[j] = s[l]
      BY <1>2 DEF Subqueue
    <2>. QED  BY <2>1 DEF Subqueue
  <1>. QED  BY <1>1, <1>2 DEF Subqueue

LEMMA SubqueueReflexive ==
    ASSUME NEW q \in Seq(Callback)
    PROVE  Subqueue(q, q)
  BY DEF Subqueue

----------------------------------------------------------------------------
(* What the queue always looks like, s being the messages accepted, b the  *)
(* connection there is and n what became of each.                          *)

\* A send is of a message that was accepted, with its length and a header's.
Lengths(q, s) ==
    \A i \in 1 .. Len(q) : q[i].cb = "do_send_cb" =>
        q[i].msg \in 1 .. Len(s) /\ q[i].len = Short(s[q[i].msg].len + 4)

\* What the network reports is of the connection there is, and true of it.
Reported(q, b, n) ==
    \A i \in 1 .. Len(q) : q[i].cb \in {"CONNECTED", "EOF"} =>
        /\ b # 0 /\ q[i] = Event(q[i].cb, b)
        /\ n[b] \in IF q[i].cb = "EOF" THEN {"broken"} ELSE {"up", "broken"}

\* It is reported once.
Once(q) ==
    \A i, j \in 1 .. Len(q) :
        i < j /\ q[i].cb = q[j].cb => q[i].cb \notin {"CONNECTED", "EOF"}

\* Each sender's messages wait in the order it sent them.
Ordered(q, s) ==
    \A i, j \in 1 .. Len(q) :
        /\ i < j /\ q[i].cb = "do_send_cb" /\ q[j].cb = "do_send_cb"
        /\ s[q[i].msg].by = s[q[j].msg].by
        => q[i].msg < q[j].msg

LEMMA SubqueueKeeps ==
    ASSUME NEW q, NEW r, Subqueue(q, r), NEW s, NEW b, NEW n
    PROVE  /\ Lengths(q, s) => Lengths(r, s)
           /\ Reported(q, b, n) => Reported(r, b, n)
           /\ Once(q) => Once(r)
           /\ Ordered(q, s) => Ordered(r, s)
  <1>1. Lengths(q, s) => Lengths(r, s)
    BY DEF Subqueue, Lengths
  <1>2. Reported(q, b, n) => Reported(r, b, n)
    BY DEF Subqueue, Reported
  <1>3. ASSUME Once(q), NEW k \in 1 .. Len(r), NEW l \in 1 .. Len(r), k < l, r[k].cb = r[l].cb
        PROVE  r[k].cb \notin {"CONNECTED", "EOF"}
    <2>1. PICK i, j \in 1 .. Len(q) : i < j /\ q[i] = r[k] /\ q[j] = r[l]
      BY <1>3 DEF Subqueue
    <2>. QED  BY <1>3, <2>1 DEF Once
  <1>4. ASSUME Ordered(q, s), NEW k \in 1 .. Len(r), NEW l \in 1 .. Len(r), k < l,
               r[k].cb = "do_send_cb", r[l].cb = "do_send_cb",
               s[r[k].msg].by = s[r[l].msg].by
        PROVE  r[k].msg < r[l].msg
    <2>1. PICK i, j \in 1 .. Len(q) : i < j /\ q[i] = r[k] /\ q[j] = r[l]
      BY <1>4 DEF Subqueue
    <2>. QED  BY <1>4, <2>1 DEF Ordered
  <1>. QED  BY <1>1, <1>2, <1>3, <1>4 DEF Once, Ordered

\* One of the two callbacks of a bufferevent is taken back.
LEMMA RemoveFirstFacts ==
    ASSUME NEW q \in Seq(Callback), NEW cb \in {"CONNECTED", "EOF"}, NEW c, NEW n,
           Reported(q, c, n), Once(q),
           NEW r, r = RemoveFirst(q, Event(cb, c))
    PROVE  /\ Subqueue(q, r) /\ Sends(r) = Sends(q)
           /\ \A k \in 1 .. Len(r) : r[k].cb # cb
           /\ \A t \in Timed : Count(r, t) = Count(q, t)
  <1>0. Event(cb, c).cb = cb
    BY DEF Event
  <1>1. CASE r = q /\ \A i \in 1 .. Len(q) : q[i] # Event(cb, c)
    <2>1. \A k \in 1 .. Len(q) : q[k].cb # cb
      BY <1>1 DEF Reported
    <2>. QED  BY <1>1, <2>1, SubqueueReflexive
  <1>2. ASSUME NEW p \in 1 .. Len(q), q[p] = Event(cb, c), Without(q, p, r)
        PROVE  /\ Subqueue(q, r) /\ Sends(r) = Sends(q)
               /\ \A k \in 1 .. Len(r) : r[k].cb # cb
               /\ \A t \in Timed : Count(r, t) = Count(q, t)
    <2>1. q[p].cb = cb
      BY <1>0, <1>2
    <2>2. Subqueue(q, r)
      BY <1>2, WithoutSubqueue
    <2>3. Sends(r) = Sends(q)
      <3>1. q[p].cb # "do_send_cb"
        BY <2>1
      <3>2. Sends(q) = Sends(r) \cup (IF q[p].cb = "do_send_cb" THEN {q[p].msg} ELSE {})
        BY <1>2, WithoutSends
      <3>. QED  BY <3>1, <3>2
    <2>4. ASSUME NEW t \in Timed PROVE Count(r, t) = Count(q, t)
      <3>1. q[p].cb # t
        BY <2>1 DEF Timed
      <3>. QED  BY <1>2, <3>1, WithoutCount
    <2>5. ASSUME NEW k \in 1 .. Len(r), r[k].cb = cb PROVE FALSE
      <3>1. Len(q) \in Nat /\ Len(r) \in Nat /\ Len(r) = Len(q) - 1
        BY <1>2 DEF Without
      <3>2. CASE k < p
        <4>1. k \in 1 .. Len(q) /\ q[k] = r[k]
          BY <1>2, <3>1, <3>2 DEF Without
        <4>. QED  BY <2>1, <2>5, <3>2, <4>1 DEF Once
      <3>3. CASE ~(k < p)
        <4>1. PICK i \in 1 .. Len(q) : i = k + 1
          BY <3>1
        <4>2. p < i /\ q[i] = r[k]
          BY <1>2, <3>1, <3>3, <4>1 DEF Without
        <4>. QED  BY <2>1, <2>5, <4>2 DEF Once
      <3>. QED  BY <3>2, <3>3
    <2>. QED  BY <2>2, <2>3, <2>4, <2>5
  <1>. QED  BY <1>1, <1>2, RemoveFirstWithout

LEMMA FreedFacts ==
    ASSUME NEW q \in Seq(Callback), NEW c, NEW n, Reported(q, c, n), Once(q)
    PROVE  /\ Subqueue(q, Freed(q, c)) /\ Sends(Freed(q, c)) = Sends(q)
           /\ \A k \in 1 .. Len(Freed(q, c)) : Freed(q, c)[k].cb \notin {"CONNECTED", "EOF"}
           /\ \A t \in Timed : Count(Freed(q, c), t) = Count(q, t)
  <1>1. PICK r : r = RemoveFirst(q, Event("CONNECTED", c))
    OBVIOUS
  <1>2. PICK s : s = RemoveFirst(r, Event("EOF", c))
    OBVIOUS
  <1>3. /\ Subqueue(q, r) /\ Sends(r) = Sends(q)
        /\ \A k \in 1 .. Len(r) : r[k].cb # "CONNECTED"
        /\ \A t \in Timed : Count(r, t) = Count(q, t)
    <2>. "CONNECTED" \in {"CONNECTED", "EOF"}
      OBVIOUS
    <2>. QED  BY <1>1, RemoveFirstFacts
  <1>4. r \in Seq(Callback) /\ Reported(r, c, n) /\ Once(r)
    BY <1>3, SubqueueKeeps DEF Subqueue
  <1>5. /\ Subqueue(r, s) /\ Sends(s) = Sends(r)
        /\ \A k \in 1 .. Len(s) : s[k].cb # "EOF"
        /\ \A t \in Timed : Count(s, t) = Count(r, t)
    <2>. "EOF" \in {"CONNECTED", "EOF"}
      OBVIOUS
    <2>. QED  BY <1>2, <1>4, RemoveFirstFacts
  <1>6. \A k \in 1 .. Len(s) : s[k].cb # "CONNECTED"
    BY <1>3, <1>5 DEF Subqueue
  <1>7. Freed(q, c) = s
    BY <1>1, <1>2 DEF Freed
  <1>. QED  BY <1>3, <1>5, <1>6, <1>7, SubqueueTransitive

----------------------------------------------------------------------------
(* What a step may put into the queue or take from it *)

LEMMA ShortRange == \A n \in Int : Short(n) \in ShortInt
  <1>1. SUFFICES ASSUME NEW n \in Int PROVE Short(n) \in ShortInt
    OBVIOUS
  <1>2. PICK y : y = (n + 32768) % 65536
    OBVIOUS
  <1>3. y \in Int /\ 0 <= y /\ y < 65536
    BY <1>2
  <1>4. Short(n) = y - 32768
    BY <1>2 DEF Short
  <1>5. PICK lo \in Int : lo = -32768 /\ lo + 32768 = 0
    OBVIOUS
  <1>6. ShortInt = lo .. 32767
    BY <1>5 DEF ShortInt
  <1>7. y - 32768 \in Int /\ lo <= y - 32768 /\ y - 32768 <= 32767
    BY <1>3, <1>5
  <1>. QED  BY <1>4, <1>6, <1>7

LEMMA CallbackTyped ==
    /\ \A cb \in Timed \cup {"CONNECTED", "EOF"}, c \in 0 .. MaxConns :
           Event(cb, c) \in Callback /\ Event(cb, c).cb = cb
    /\ \A m \in 0 .. MaxSends, n \in Nat :
           SendEvent(m, n) \in Callback /\ SendEvent(m, n).cb = "do_send_cb"
  <1>1. 0 \in 0 .. MaxSends /\ 0 \in 0 .. MaxConns /\ 0 \in ShortInt
    BY AVClientAssumption DEF ShortInt
  <1>2. ASSUME NEW cb \in Timed \cup {"CONNECTED", "EOF"}, NEW c \in 0 .. MaxConns
        PROVE  Event(cb, c) \in Callback /\ Event(cb, c).cb = cb
    BY <1>1 DEF Event, Callback
  <1>3. ASSUME NEW m \in 0 .. MaxSends, NEW n \in Nat
        PROVE  SendEvent(m, n) \in Callback /\ SendEvent(m, n).cb = "do_send_cb"
    <2>1. PICK k \in Int : k = n + 4
      OBVIOUS
    <2>2. Short(k) \in ShortInt
      BY ShortRange
    <2>3. SendEvent(m, n) = [cb |-> "do_send_cb", conn |-> 0, msg |-> m, len |-> Short(k)]
      BY <2>1 DEF SendEvent
    <2>. QED  BY <1>1, <2>2, <2>3 DEF Callback
  <1>. QED  BY <1>2, <1>3

LEMMA AppendKeeps ==
    ASSUME NEW q \in Seq(Callback), NEW e \in Callback, NEW s, NEW b, NEW n,
           e.cb \in Timed \cup {"do_send_cb"}, NEW r, Appended(q, e, r)
    PROVE  /\ r \in Seq(Callback)
           /\ Reported(q, b, n) => Reported(r, b, n)
           /\ Once(q) => Once(r)
           /\ Lengths(q, s) /\ (e.cb = "do_send_cb" =>
                  e.msg \in 1 .. Len(s) /\ e.len = Short(s[e.msg].len + 4)) => Lengths(r, s)
           /\ Ordered(q, s) /\ (e.cb = "do_send_cb" =>
                  \A m \in Sends(q) : s[m].by = s[e.msg].by => m < e.msg) => Ordered(r, s)
           /\ Sends(r) = Sends(q) \cup (IF e.cb = "do_send_cb" THEN {e.msg} ELSE {})
           /\ \A t \in Timed : Count(r, t) = Count(q, t) + (IF e.cb = t THEN 1 ELSE 0)
  <1>1. /\ r \in Seq(Callback) /\ Len(q) \in Nat /\ Len(r) = Len(q) + 1
    BY DEF Appended
  <1>2. PICK z \in 1 .. Len(r) : z = Len(r)
    BY DEF Appended
  <1>3. /\ r[z] = e /\ Without(r, z, q)
        /\ \A i \in 1 .. Len(r) : i # z => i \in 1 .. Len(q) /\ r[i] = q[i] /\ i < z
    BY <1>2 DEF Appended
  <1>4. e.cb \notin {"CONNECTED", "EOF"}
    BY DEF Timed
  <1>5. ASSUME Lengths(q, s), e.cb = "do_send_cb" =>
               e.msg \in 1 .. Len(s) /\ e.len = Short(s[e.msg].len + 4)
        PROVE  Lengths(r, s)
    BY <1>3, <1>5 DEF Lengths
  <1>6. Reported(q, b, n) => Reported(r, b, n)
    BY <1>3, <1>4 DEF Reported
  <1>7. Once(q) => Once(r)
    BY <1>1, <1>3, <1>4 DEF Once
  <1>8. ASSUME Ordered(q, s),
               e.cb = "do_send_cb" => \A m \in Sends(q) : s[m].by = s[e.msg].by => m < e.msg
        PROVE  Ordered(r, s)
    <2>1. SUFFICES ASSUME NEW i \in 1 .. Len(r), NEW j \in 1 .. Len(r), i < j,
                          r[i].cb = "do_send_cb", r[j].cb = "do_send_cb",
                          s[r[i].msg].by = s[r[j].msg].by
                   PROVE  r[i].msg < r[j].msg
      BY DEF Ordered
    <2>2. i \in 1 .. Len(q) /\ r[i] = q[i]
      BY <1>1, <1>3, <2>1
    <2>3. CASE j = z
      <3>1. q[i].msg \in Sends(q)
        BY <2>1, <2>2 DEF Sends
      <3>. QED  BY <1>3, <1>8, <2>1, <2>2, <2>3, <3>1
    <2>4. CASE j # z
      BY <1>3, <1>8, <2>1, <2>2, <2>4 DEF Ordered
    <2>. QED  BY <2>3, <2>4
  <1>9. Sends(r) = Sends(q) \cup (IF r[z].cb = "do_send_cb" THEN {r[z].msg} ELSE {})
    BY <1>1, <1>3, WithoutSends
  <1>10. ASSUME NEW t \in Timed
         PROVE  Count(r, t) = Count(q, t) + (IF r[z].cb = t THEN 1 ELSE 0)
    BY <1>1, <1>3, WithoutCount
  <1>. QED  BY <1>1, <1>3, <1>5, <1>6, <1>7, <1>8, <1>9, <1>10

LEMMA ReportKeeps ==
    ASSUME NEW q \in Seq(Callback), NEW s, NEW b \in Conn,
           NEW cb \in {"CONNECTED", "EOF"}, \A i \in 1 .. Len(q) : q[i].cb # cb,
           NEW o, Reported(q, b, o),
           o[b] \in IF cb = "EOF" THEN {"broken"} ELSE {"up", "broken"},
           NEW r, Appended(q, Event(cb, b), r)
    PROVE  /\ r \in Seq(Callback) /\ Reported(r, b, o)
           /\ Lengths(q, s) => Lengths(r, s)
           /\ Once(q) => Once(r)
           /\ Ordered(q, s) => Ordered(r, s)
           /\ Sends(r) = Sends(q)
           /\ \A t \in Timed : Count(r, t) = Count(q, t)
  <1>. DEFINE e == Event(cb, b)
  <1>0. e \in Callback /\ e.cb = cb /\ b # 0
    <2>1. b \in 0 .. MaxConns /\ b # 0
      BY AVClientAssumption DEF Conn
    <2>. QED  BY <2>1, CallbackTyped
  <1>1. /\ r \in Seq(Callback) /\ Len(q) \in Nat /\ Len(r) = Len(q) + 1
    BY DEF Appended
  <1>2. PICK z \in 1 .. Len(r) : z = Len(r)
    BY DEF Appended
  <1>3. /\ r[z] = e /\ Without(r, z, q)
        /\ \A i \in 1 .. Len(r) : i # z => i \in 1 .. Len(q) /\ r[i] = q[i] /\ i < z
    BY <1>2 DEF Appended
  <1>4. r[z].cb = cb /\ r[z].cb # "do_send_cb"
    BY <1>0, <1>3
  <1>5. Lengths(q, s) => Lengths(r, s)
    BY <1>3, <1>4 DEF Lengths
  <1>6. Reported(r, b, o)
    <2>1. ASSUME NEW i \in 1 .. Len(r), r[i].cb \in {"CONNECTED", "EOF"}
          PROVE  /\ b # 0 /\ r[i] = Event(r[i].cb, b)
                 /\ o[b] \in IF r[i].cb = "EOF" THEN {"broken"} ELSE {"up", "broken"}
      <3>1. CASE i = z
        BY <1>0, <1>3, <1>4, <3>1
      <3>2. CASE i # z
        BY <1>3, <2>1, <3>2 DEF Reported
      <3>. QED  BY <3>1, <3>2
    <2>. QED  BY <2>1 DEF Reported
  <1>7. Once(q) => Once(r)
    BY <1>1, <1>3, <1>4 DEF Once
  <1>8. Ordered(q, s) => Ordered(r, s)
    BY <1>1, <1>3, <1>4 DEF Ordered
  <1>9. Sends(r) = Sends(q)
    <2>1. Sends(r) = Sends(q) \cup (IF r[z].cb = "do_send_cb" THEN {r[z].msg} ELSE {})
      BY <1>1, <1>3, WithoutSends
    <2>. QED  BY <1>4, <2>1
  <1>10. ASSUME NEW t \in Timed PROVE Count(r, t) = Count(q, t)
    <2>1. Count(r, t) = Count(q, t) + (IF r[z].cb = t THEN 1 ELSE 0) /\ Count(q, t) \in Nat
      BY <1>1, <1>3, WithoutCount
    <2>2. r[z].cb # t
      BY <1>4 DEF Timed
    <2>. QED  BY <2>1, <2>2
  <1>. QED  BY <1>1, <1>5, <1>6, <1>7, <1>8, <1>9, <1>10

LEMMA TailKeeps ==
    ASSUME NEW q \in Seq(Callback), q # <<>>, NEW s, NEW b, NEW n,
           NEW r, r = Tail(q)
    PROVE  /\ Head(q) \in Callback /\ Len(q) \in Nat /\ 1 \in 1 .. Len(q) /\ q[1] = Head(q)
           /\ r \in Seq(Callback) /\ Subqueue(q, r)
           /\ Lengths(q, s) => Lengths(r, s)
           /\ Reported(q, b, n) => Reported(r, b, n)
           /\ Once(q) => Once(r) /\ (Head(q).cb \in {"CONNECTED", "EOF"} =>
                                         \A k \in 1 .. Len(r) : r[k].cb # Head(q).cb)
           /\ Ordered(q, s) => Ordered(r, s) /\ (Head(q).cb = "do_send_cb" =>
                  \A m \in Sends(r) : s[Head(q).msg].by = s[m].by => Head(q).msg < m)
           /\ Sends(q) = Sends(r) \cup (IF Head(q).cb = "do_send_cb" THEN {Head(q).msg} ELSE {})
           /\ \A t \in Timed : Count(q, t) = Count(r, t) + (IF Head(q).cb = t THEN 1 ELSE 0)
           /\ \A t \in Timed : Count(r, t) \in Nat
  <1>1. Without(q, 1, r) /\ 1 \in 1 .. Len(q) /\ q[1] = Head(q)
    BY TailWithout
  <1>2. Subqueue(q, r)
    BY <1>1, WithoutSubqueue
  <1>3. /\ Sends(q) = Sends(r) \cup (IF Head(q).cb = "do_send_cb" THEN {Head(q).msg} ELSE {})
        /\ \A t \in Timed : Count(q, t) = Count(r, t) + (IF Head(q).cb = t THEN 1 ELSE 0)
        /\ \A t \in Timed : Count(r, t) \in Nat
    <2>1. Sends(q) = Sends(r) \cup (IF q[1].cb = "do_send_cb" THEN {q[1].msg} ELSE {})
      BY <1>1, WithoutSends
    <2>2. \A t \in Timed : /\ Count(q, t) = Count(r, t) + (IF q[1].cb = t THEN 1 ELSE 0)
                           /\ Count(r, t) \in Nat
      BY <1>1, WithoutCount
    <2>. QED  BY <1>1, <2>1, <2>2
  <1>4. ASSUME NEW k \in 1 .. Len(r) PROVE \E i \in 1 .. Len(q) : 1 < i /\ q[i] = r[k]
    <2>1. Len(q) \in Nat /\ Len(r) \in Nat /\ Len(r) = Len(q) - 1
      BY <1>1 DEF Without
    <2>2. PICK i \in 1 .. Len(q) : i = k + 1
      BY <2>1
    <2>3. r[k] = q[k + 1]
      BY <1>1, <2>1 DEF Without
    <2>. QED  BY <2>2, <2>3
  <1>5. ASSUME Once(q), Head(q).cb \in {"CONNECTED", "EOF"}, NEW k \in 1 .. Len(r)
        PROVE  r[k].cb # Head(q).cb
    BY <1>1, <1>4, <1>5 DEF Once
  <1>6. ASSUME Ordered(q, s), Head(q).cb = "do_send_cb", NEW m \in Sends(r),
               s[Head(q).msg].by = s[m].by
        PROVE  Head(q).msg < m
    <2>1. PICK k \in 1 .. Len(r) : r[k].cb = "do_send_cb" /\ r[k].msg = m
      BY DEF Sends
    <2>2. PICK i \in 1 .. Len(q) : 1 < i /\ q[i] = r[k]
      BY <1>4
    <2>. QED  BY <1>1, <1>6, <2>1, <2>2 DEF Ordered
  <1>7. Head(q) \in Callback /\ r \in Seq(Callback) /\ Len(q) \in Nat
    BY HeadTailProperties
  <1>. QED  BY <1>1, <1>2, <1>3, <1>5, <1>6, <1>7, SubqueueKeeps

\* r is s and one more message.
Longer(s, r) ==
    /\ Len(s) \in Nat /\ Len(r) = Len(s) + 1
    /\ \A m \in 1 .. Len(s) : m \in 1 .. Len(r) /\ r[m] = s[m]

LEMMA LongerKeeps ==
    ASSUME NEW q, NEW s, NEW r, Longer(s, r)
    PROVE  /\ Lengths(q, s) => Lengths(q, r)
           /\ Lengths(q, s) /\ Ordered(q, s) => Ordered(q, r)
  <1>1. Lengths(q, s) => Lengths(q, r)
    BY DEF Longer, Lengths
  <1>2. Lengths(q, s) /\ Ordered(q, s) => Ordered(q, r)
    BY DEF Longer, Lengths, Ordered
  <1>. QED  BY <1>1, <1>2

----------------------------------------------------------------------------
(* One lifeline: a connection, or one plan to get one *)

PlanCount(t, q) == (t["do_conn_cb"] + Count(q, "do_conn_cb"))
                       + (t["do_reconn_cb"] + Count(q, "do_reconn_cb"))

Queue == Lengths(active, sent) /\ Reported(active, bev, net) /\ Once(active)

\* The client knows of every connection that is open.
Alive == \A c \in Conn : net[c] \in {"connecting", "up", "broken"} <=> c = bev

\* CONNECTED is believed of an established connection only.
Believed == status = "CONNECTED" => bev # 0 /\ net[bev] \in {"up", "broken"}

\* Nothing is open before Connect and after the client's end.
Asked == /\ bev # 0 \/ gone => "Connect" \in asked
         /\ bev # 0 => ~gone

OnePlan == PlanCount(timer, active) = IF "Connect" \in asked /\ ~gone /\ bev = 0 THEN 1 ELSE 0

\* The inductive invariant of the connections
LifeInv == /\ TypeOK /\ Len(sent) <= MaxSends
           /\ Queue /\ Alive /\ Believed /\ Asked /\ OnePlan

LEMMA PendingFacts ==
    ASSUME TypeOK, NEW c \in Timed, NEW t, t = Pending(c)
    PROVE  /\ t \in [Timed -> Nat] /\ t[c] = timer[c] + 1
           /\ \A d \in Timed : timer[d] \in Nat /\ (d # c => t[d] = timer[d])
  BY DEF TypeOK, Pending

LEMMA NextConnFacts ==
    ASSUME MayConnect, NEW k, k = NextConn
    PROVE  k \in Conn /\ net[k] = "unused" /\ \A b \in 1 .. (k - 1) : net[b] # "unused"
  <1>. DEFINE U == {c \in Conn : net[c] = "unused"}
  <1>1. U # {} /\ U \subseteq Nat
    BY DEF MayConnect, Conn
  <1>2. PICK c \in U : \A d \in U : c <= d
    BY <1>1, LeastOfNaturals
  <1>3. \A b \in 1 .. (c - 1) : net[b] # "unused"
    BY <1>2, AVClientAssumption DEF Conn
  <1>. QED  BY <1>2, <1>3 DEF NextConn

LEMMA LifeInit == Init => LifeInv
  <1>1. SUFFICES ASSUME Init PROVE LifeInv
    OBVIOUS
  <1>2. active = <<>> /\ active \in Seq(Callback) /\ Len(active) = 0
    BY <1>1 DEF Init
  <1>3. TypeOK /\ Len(sent) <= MaxSends
    <2>1. /\ sent \in Seq([by : Sender, len : Size, conn : 0 .. MaxConns]) /\ Len(sent) = 0
          /\ \A c \in Conn : wire[c] \in Seq([msg : 1 .. MaxSends, bytes : Nat])
      BY <1>1 DEF Init
    <2>2. bev \in 0 .. MaxConns /\ calling \in 0 .. Len(sent) /\ Len(sent) <= MaxSends
      BY <1>1, <2>1, AVClientAssumption DEF Init
    <2>. QED  BY <1>1, <1>2, <2>1, <2>2 DEF Init, TypeOK
  <1>4. Queue
    BY <1>2 DEF Queue, Lengths, Reported, Once
  <1>5. Alive /\ Believed /\ Asked
    BY <1>1 DEF Init, Alive, Believed, Asked, Conn
  <1>6. OnePlan
    <2>1. \A t \in Timed : Count(active, t) = 0
      <3>1. \A t : {i \in 1 .. Len(active) : active[i].cb = t} = {}
        BY <1>2
      <3>. QED  BY <3>1, FS_EmptySet DEF Count
    <2>. QED  BY <1>1, <2>1 DEF Init, OnePlan, PlanCount, Timed
  <1>. QED  BY <1>3, <1>4, <1>5, <1>6 DEF LifeInv

CountsTyped == \A t \in Timed : Count(active, t) \in Nat /\ timer[t] \in Nat

LEMMA CountTyped == TypeOK => CountsTyped
  <1>1. SUFFICES ASSUME TypeOK, NEW t \in Timed PROVE Count(active, t) \in Nat /\ timer[t] \in Nat
    BY DEF CountsTyped
  <1>2. Len(active) \in Nat
    BY <1>1 DEF TypeOK
  <1>. DEFINE Q == {i \in 1 .. Len(active) : active[i].cb = t}
  <1>3. IsFiniteSet(1 .. Len(active)) /\ Q \subseteq 1 .. Len(active)
    BY <1>2, FS_Interval
  <1>4. Cardinality(Q) \in Nat
    <2>. HIDE DEF Q
    <2>. QED  BY <1>3, FS_Subset, FS_CardinalityType
  <1>. QED  BY <1>1, <1>4 DEF Count, TypeOK

LEMMA ConnectLife == ASSUME LifeInv, Connect PROVE LifeInv'
  <1>1. PICK t : t = timer'
    OBVIOUS
  <1>2. /\ t \in [Timed -> Nat] /\ t["do_conn_cb"] = timer["do_conn_cb"] + 1
        /\ t["do_reconn_cb"] = timer["do_reconn_cb"]
    BY <1>1, PendingFacts DEF LifeInv, Connect, Timed
  <1>3. TypeOK' /\ (Len(sent) <= MaxSends)' /\ Queue' /\ Alive' /\ Believed'
    BY <1>1, <1>2 DEF LifeInv, Connect, TypeOK, Queue, Alive, Believed, Message
  <1>4. bev = 0 /\ ~gone /\ Asked'
    BY DEF LifeInv, Connect, Asked
  <1>5. OnePlan'
    <2>1. CountsTyped
      BY CountTyped DEF LifeInv
    <2>2. PICK x \in Nat, y \in Nat, z \in Nat, w \in Nat :
              /\ x = timer["do_conn_cb"] /\ y = timer["do_reconn_cb"]
              /\ z = Count(active, "do_conn_cb") /\ w = Count(active, "do_reconn_cb")
      BY <2>1 DEF CountsTyped, Timed
    <2>3. PlanCount(timer, active) = (x + z) + (y + w) /\ PlanCount(t, active) = ((x + 1) + z) + (y + w)
      BY <1>2, <2>2 DEF PlanCount
    <2>4. PlanCount(timer, active) = 0
      BY <1>4 DEF LifeInv, OnePlan, Connect
    <2>5. PlanCount(t, active) = 1
      BY <2>3, <2>4
    <2>. QED  BY <1>1, <1>4, <2>5 DEF Connect, OnePlan
  <1>. QED  BY <1>3, <1>4, <1>5 DEF LifeInv

LEMMA DisconnectLife == ASSUME LifeInv, Disconnect PROVE LifeInv'
  <1>1. PICK t : t = timer'
    OBVIOUS
  <1>2. /\ t \in [Timed -> Nat] /\ t["do_conn_cb"] = timer["do_conn_cb"]
        /\ t["do_reconn_cb"] = timer["do_reconn_cb"]
    BY <1>1, PendingFacts DEF LifeInv, Disconnect, Timed
  <1>3. TypeOK' /\ (Len(sent) <= MaxSends)' /\ Queue' /\ Alive' /\ Believed'
    BY <1>1, <1>2 DEF LifeInv, Disconnect, TypeOK, Queue, Alive, Believed, Message
  <1>4. Asked' /\ OnePlan'
    BY <1>1, <1>2 DEF LifeInv, Disconnect, Asked, OnePlan, PlanCount
  <1>. QED  BY <1>3, <1>4 DEF LifeInv

Accepted == [by : Sender, len : Size, conn : 0 .. MaxConns]

\* A message is accepted.
LEMMA AcceptKeeps ==
    ASSUME TypeOK, NEW by \in Sender, NEW n \in Size, NEW q, NEW s, s = Accept(by, n)
    PROVE  /\ s \in Seq(Accepted) /\ Longer(sent, s)
           /\ s[Len(s)] = [by |-> by, len |-> n, conn |-> bev]
           /\ Lengths(q, sent) => Lengths(q, s)
           /\ Lengths(q, sent) /\ Ordered(q, sent) => Ordered(q, s)
  <1>1. PICK x : x = [by |-> by, len |-> n, conn |-> bev]
    OBVIOUS
  <1>2. x \in Accepted /\ sent \in Seq(Accepted)
    BY <1>1 DEF TypeOK, Accepted
  <1>3. s = Append(sent, x)
    BY <1>1 DEF Accept
  <1>4. s \in Seq(Accepted) /\ s[Len(s)] = x /\ Longer(sent, s)
    BY <1>2, <1>3, AppendProperties DEF Longer
  <1>. QED  BY <1>1, <1>4, LongerKeeps

LEMMA SendDataLife == ASSUME LifeInv, NEW n \in Size, SendData(n) PROVE LifeInv'
  <1>1. PICK s : s = sent'
    OBVIOUS
  <1>2. s = Accept("control", n) /\ "control" \in Sender
    BY <1>1 DEF SendData, Sender
  <1>3. s \in Seq(Accepted) /\ Len(s) = Len(sent) + 1 /\ Len(sent) \in Nat /\ Lengths(active, s)
    BY <1>2, AcceptKeeps DEF LifeInv, Queue, Longer
  <1>4. calling' \in 0 .. Len(s) /\ Len(s) <= MaxSends
    BY <1>1, <1>3, AVClientAssumption DEF SendData
  <1>5. TypeOK'
    BY <1>1, <1>3, <1>4 DEF LifeInv, TypeOK, SendData, Accepted
  <1>6. Queue' /\ Alive' /\ Believed' /\ Asked' /\ OnePlan'
    BY <1>1, <1>3 DEF LifeInv, SendData, Queue, Alive, Believed, Asked, OnePlan
  <1>. QED  BY <1>1, <1>4, <1>5, <1>6 DEF LifeInv

LEMMA ActivateSendQueue ==
    ASSUME LifeInv, ActivateSend, NEW q, q = active', NEW m, m = calling
    PROVE  /\ m \in 1 .. Len(sent) /\ sent[m] \in Accepted
           /\ Appended(active, SendEvent(m, sent[m].len), q)
           /\ SendEvent(m, sent[m].len) \in Callback
           /\ SendEvent(m, sent[m].len).cb = "do_send_cb"
           /\ SendEvent(m, sent[m].len).msg = m
           /\ SendEvent(m, sent[m].len).len = Short(sent[m].len + 4)
  <1>1. m \in 1 .. Len(sent) /\ m \in 0 .. MaxSends
    BY AVClientAssumption DEF LifeInv, TypeOK, ActivateSend
  <1>2. sent[m] \in Accepted
    BY <1>1, ElementOfSeq DEF LifeInv, TypeOK, Accepted
  <1>3. sent[m].len \in Nat
    BY <1>2, AVClientAssumption DEF Accepted
  <1>4. PICK e : e = SendEvent(m, sent[m].len)
    OBVIOUS
  <1>5. e \in Callback /\ e.cb = "do_send_cb"
    BY <1>1, <1>3, <1>4, CallbackTyped
  <1>6. q = Append(active, e) /\ active \in Seq(Callback)
    BY <1>4 DEF LifeInv, TypeOK, ActivateSend, Activate
  <1>7. Appended(active, e, q)
    BY <1>5, <1>6, AppendFacts
  <1>8. e.msg = m /\ e.len = Short(sent[m].len + 4)
    BY <1>4 DEF SendEvent
  <1>. QED  BY <1>1, <1>2, <1>4, <1>5, <1>7, <1>8

LEMMA ActivateSendLife == ASSUME LifeInv, ActivateSend PROVE LifeInv'
  <1>1. PICK q : q = active'
    OBVIOUS
  <1>2. PICK e \in Callback :
            /\ Appended(active, e, q) /\ e.cb = "do_send_cb"
            /\ e.msg \in 1 .. Len(sent) /\ e.len = Short(sent[e.msg].len + 4)
    BY <1>1, ActivateSendQueue
  <1>3. /\ q \in Seq(Callback) /\ Lengths(q, sent) /\ Reported(q, bev, net) /\ Once(q)
        /\ \A t \in Timed : Count(q, t) = Count(active, t) + (IF e.cb = t THEN 1 ELSE 0)
    BY <1>2, AppendKeeps DEF LifeInv, TypeOK, Queue
  <1>4. \A t \in Timed : Count(q, t) = Count(active, t)
    <2>1. \A t \in Timed : e.cb # t /\ Count(active, t) \in Nat
      BY <1>2, CountTyped DEF LifeInv, CountsTyped, Timed
    <2>. QED  BY <1>3, <2>1
  <1>5. TypeOK' /\ (Len(sent) <= MaxSends)'
    <2>1. Len(sent) \in Nat
      BY DEF LifeInv, TypeOK
    <2>2. calling' = 0 /\ UNCHANGED <<status, bev, bDone, gone, timer, net, asked, sent, wire>>
      BY DEF ActivateSend
    <2>3. calling' \in 0 .. Len(sent') /\ active' \in Seq(Callback)
      BY <1>1, <1>3, <2>1, <2>2
    <2>4. TypeOK /\ Len(sent) <= MaxSends
      BY DEF LifeInv
    <2>5. TypeOK'
      BY <2>2, <2>3, <2>4 DEF TypeOK
    <2>6. (Len(sent) <= MaxSends)'
      BY <2>2, <2>4
    <2>. QED  BY <2>5, <2>6
  <1>6. Queue' /\ Alive' /\ Believed' /\ Asked'
    BY <1>1, <1>3 DEF LifeInv, Queue, Alive, Believed, Asked, ActivateSend
  <1>7. OnePlan'
    BY <1>1, <1>4 DEF LifeInv, OnePlan, PlanCount, ActivateSend, Timed
  <1>. QED  BY <1>5, <1>6, <1>7 DEF LifeInv

LEMMA FireTimerLife == ASSUME LifeInv, NEW c \in Timed, FireTimer(c) PROVE LifeInv'
  <1>1. PICK q : q = active'
    OBVIOUS
  <1>2. PICK t : t = timer'
    OBVIOUS
  <1>3. PICK e : e = Event(c, 0)
    OBVIOUS
  <1>4. e \in Callback /\ e.cb = c
    BY <1>3, CallbackTyped, AVClientAssumption
  <1>5. Appended(active, e, q)
    BY <1>1, <1>3, <1>4, AppendFacts DEF LifeInv, TypeOK, FireTimer, Activate
  <1>6. /\ q \in Seq(Callback) /\ Lengths(q, sent) /\ Reported(q, bev, net) /\ Once(q)
        /\ \A d \in Timed : Count(q, d) = Count(active, d) + (IF e.cb = d THEN 1 ELSE 0)
    <2>1. e.cb # "do_send_cb"
      BY <1>4 DEF Timed
    <2>. QED  BY <1>4, <1>5, <2>1, AppendKeeps DEF LifeInv, TypeOK, Queue
  <1>7. t \in [Timed -> Nat] /\ t[c] = timer[c] - 1 /\ \A d \in Timed : d # c => t[d] = timer[d]
    BY <1>2 DEF LifeInv, TypeOK, FireTimer
  <1>8. TypeOK' /\ (Len(sent) <= MaxSends)'
    BY <1>1, <1>2, <1>6, <1>7 DEF LifeInv, TypeOK, FireTimer
  <1>9. Queue' /\ Alive' /\ Believed' /\ Asked'
    BY <1>1, <1>6 DEF LifeInv, Queue, Alive, Believed, Asked, FireTimer
  <1>10. OnePlan'
    <2>1. \A d \in Timed : t[d] + Count(q, d) = timer[d] + Count(active, d)
      <3>1. CountsTyped
        BY CountTyped DEF LifeInv
      <3>2. ASSUME NEW d \in Timed PROVE t[d] + Count(q, d) = timer[d] + Count(active, d)
        <4>1. Count(q, d) = Count(active, d) + (IF c = d THEN 1 ELSE 0)
          BY <1>4, <1>6
        <4>2. t[d] = timer[d] - (IF c = d THEN 1 ELSE 0)
          BY <1>7, <3>1 DEF CountsTyped
        <4>. QED  BY <3>1, <4>1, <4>2 DEF CountsTyped
      <3>. QED  BY <3>2
    <2>. QED  BY <1>1, <1>2, <2>1 DEF LifeInv, OnePlan, PlanCount, FireTimer, Timed
  <1>. QED  BY <1>8, <1>9, <1>10 DEF LifeInv

\* What the network reports of the connection there is, and that it may
LEMMA ReportLife ==
    ASSUME LifeInv, NEW c \in Conn, Establish(c) \/ Break(c)
    PROVE  LifeInv' /\ Sends(active') = Sends(active) /\ (Ordered(active, sent) => Ordered(active', sent))
  <1>1. PICK q : q = active'
    OBVIOUS
  <1>2. PICK n : n = net'
    OBVIOUS
  <1>3. c = bev /\ net[c] \in {"connecting", "up"}
    BY DEF LifeInv, Alive, Establish, Break, Reports
  <1>4. PICK cb \in {"CONNECTED", "EOF"} :
            /\ q = Append(active, Event(cb, c))
            /\ cb = "CONNECTED" => net[c] = "connecting" /\ n = [net EXCEPT ![c] = "up"]
            /\ cb = "EOF" => n = [net EXCEPT ![c] = "broken"]
    <2>1. CASE Establish(c)
      BY <1>1, <1>2, <2>1 DEF Establish, Reports, Activate
    <2>2. CASE Break(c)
      BY <1>1, <1>2, <2>2 DEF Break, Reports, Activate
    <2>. QED  BY <2>1, <2>2
  <1>5. /\ n \in [Conn -> {"unused", "connecting", "up", "broken", "closed"}]
        /\ n[c] = IF cb = "EOF" THEN "broken" ELSE "up"
        /\ \A d \in Conn : d # c => n[d] = net[d]
    BY <1>4 DEF LifeInv, TypeOK
  <1>6. \A i \in 1 .. Len(active) : active[i].cb # cb
    BY <1>3, <1>4 DEF LifeInv, Queue, Reported
  <1>7. Reported(active, c, n)
    <2>1. ASSUME NEW i \in 1 .. Len(active), active[i].cb \in {"CONNECTED", "EOF"}
          PROVE  /\ c # 0 /\ active[i] = Event(active[i].cb, c)
                 /\ n[c] \in IF active[i].cb = "EOF" THEN {"broken"} ELSE {"up", "broken"}
      BY <1>3, <1>4, <1>5, <1>6, <2>1 DEF LifeInv, Queue, Reported
    <2>. QED  BY <2>1 DEF Reported
  <1>8. Appended(active, Event(cb, c), q)
    <2>1. Event(cb, c) \in Callback
      <3>1. c \in 0 .. MaxConns
        BY AVClientAssumption DEF Conn
      <3>. QED  BY <3>1, CallbackTyped
    <2>. QED  BY <1>4, <2>1, AppendFacts DEF LifeInv, TypeOK
  <1>9. /\ q \in Seq(Callback) /\ Reported(q, c, n) /\ Lengths(q, sent) /\ Once(q)
        /\ Ordered(active, sent) => Ordered(q, sent)
        /\ Sends(q) = Sends(active) /\ \A t \in Timed : Count(q, t) = Count(active, t)
    <2>1. n[c] \in IF cb = "EOF" THEN {"broken"} ELSE {"up", "broken"}
      BY <1>5
    <2>2. active \in Seq(Callback) /\ Lengths(active, sent) /\ Once(active)
      BY DEF LifeInv, TypeOK, Queue
    <2>. QED  BY <1>6, <1>7, <1>8, <2>1, <2>2, ReportKeeps
  <1>10. UNCHANGED <<status, bev, bDone, gone, timer, calling, asked, sent, wire>>
    BY DEF Establish, Break, Reports
  <1>11. TypeOK' /\ (Len(sent) <= MaxSends)'
    BY <1>1, <1>2, <1>5, <1>9, <1>10 DEF LifeInv, TypeOK
  <1>12. Queue' /\ Asked'
    BY <1>1, <1>2, <1>3, <1>9, <1>10 DEF LifeInv, Queue, Asked
  <1>13. Alive' /\ Believed'
    BY <1>2, <1>3, <1>5, <1>10 DEF LifeInv, Alive, Believed
  <1>14. OnePlan'
    BY <1>1, <1>9, <1>10 DEF LifeInv, OnePlan, PlanCount, Timed
  <1>. QED  BY <1>1, <1>9, <1>11, <1>12, <1>13, <1>14 DEF LifeInv

----------------------------------------------------------------------------
(* The callbacks *)

IsPlan(cb) == cb \in {"do_conn_cb", "do_reconn_cb"}

\* What is left of the queue when its head runs
LEMMA RestFacts ==
    ASSUME LifeInv, active # <<>>, NEW q, q = Tail(active)
    PROVE  /\ Head(active) \in Callback /\ q \in Seq(Callback)
           /\ Lengths(q, sent) /\ Reported(q, bev, net) /\ Once(q)
           /\ \A d \in Timed : timer[d] \in Nat /\ Count(q, d) \in Nat
           /\ PlanCount(timer, active) = PlanCount(timer, q) + (IF IsPlan(Head(active).cb) THEN 1 ELSE 0)
           /\ PlanCount(timer, q) \in Nat
           /\ Head(active).cb \in {"CONNECTED", "EOF"} =>
                /\ bev # 0
                /\ net[bev] \in IF Head(active).cb = "EOF" THEN {"broken"} ELSE {"up", "broken"}
           /\ Head(active).cb = "do_send_cb" =>
                /\ Head(active).msg \in 1 .. Len(sent)
                /\ Head(active).len = Short(sent[Head(active).msg].len + 4)
  <1>1. active \in Seq(Callback) /\ Lengths(active, sent) /\ Reported(active, bev, net) /\ Once(active)
    BY DEF LifeInv, TypeOK, Queue
  <1>2. /\ Head(active) \in Callback /\ 1 \in 1 .. Len(active) /\ active[1] = Head(active)
        /\ q \in Seq(Callback) /\ Lengths(q, sent) /\ Reported(q, bev, net) /\ Once(q)
        /\ \A t \in Timed : Count(active, t) = Count(q, t) + (IF Head(active).cb = t THEN 1 ELSE 0)
        /\ \A t \in Timed : Count(q, t) \in Nat
    <2>1. PICK a \in Seq(Callback) : a = active
      BY <1>1
    <2>2. a # <<>> /\ q = Tail(a) /\ Lengths(a, sent) /\ Reported(a, bev, net) /\ Once(a)
      BY <1>1, <2>1
    <2>3. /\ Head(a) \in Callback /\ 1 \in 1 .. Len(a) /\ a[1] = Head(a)
          /\ q \in Seq(Callback) /\ Lengths(q, sent) /\ Reported(q, bev, net) /\ Once(q)
          /\ \A t \in Timed : Count(a, t) = Count(q, t) + (IF Head(a).cb = t THEN 1 ELSE 0)
          /\ \A t \in Timed : Count(q, t) \in Nat
      <3>1. PICK b, o, s : b = bev /\ o = net /\ s = sent
        OBVIOUS
      <3>2. a # <<>> /\ q = Tail(a) /\ Lengths(a, s) /\ Reported(a, b, o) /\ Once(a)
        BY <2>2, <3>1
      <3>3. /\ Head(a) \in Callback /\ 1 \in 1 .. Len(a) /\ a[1] = Head(a)
            /\ q \in Seq(Callback) /\ Lengths(q, s) /\ Reported(q, b, o) /\ Once(q)
        BY <3>2, TailKeeps
      <3>4. \A t \in Timed : /\ Count(a, t) = Count(q, t) + (IF Head(a).cb = t THEN 1 ELSE 0)
                            /\ Count(q, t) \in Nat
        <4>1. Without(a, 1, q) /\ 1 \in 1 .. Len(a) /\ a[1] = Head(a)
          BY <2>2, TailWithout
        <4>2. \A t \in Timed : /\ Count(a, t) = Count(q, t) + (IF a[1].cb = t THEN 1 ELSE 0)
                              /\ Count(q, t) \in Nat
          BY <4>1, WithoutCount
        <4>. QED  BY <4>1, <4>2
      <3>. QED  BY <3>1, <3>3, <3>4
    <2>. QED  BY <2>1, <2>3
  <1>3. \A d \in Timed : timer[d] \in Nat
    BY DEF LifeInv, TypeOK
  <1>4. /\ PlanCount(timer, active) = PlanCount(timer, q) + (IF IsPlan(Head(active).cb) THEN 1 ELSE 0)
        /\ PlanCount(timer, q) \in Nat
    <2>1. "do_conn_cb" \in Timed /\ "do_reconn_cb" \in Timed
      BY DEF Timed
    <2>2. /\ timer["do_conn_cb"] \in Nat /\ timer["do_reconn_cb"] \in Nat
          /\ Count(q, "do_conn_cb") \in Nat /\ Count(q, "do_reconn_cb") \in Nat
      BY <1>2, <1>3, <2>1
    <2>3. /\ Count(active, "do_conn_cb") = Count(q, "do_conn_cb") + (IF Head(active).cb = "do_conn_cb" THEN 1 ELSE 0)
          /\ Count(active, "do_reconn_cb") = Count(q, "do_reconn_cb") + (IF Head(active).cb = "do_reconn_cb" THEN 1 ELSE 0)
      BY <1>2, <2>1
    <2>4. PICK x \in Nat, y \in Nat, z \in Nat, w \in Nat :
              /\ x = timer["do_conn_cb"] /\ y = timer["do_reconn_cb"]
              /\ z = Count(q, "do_conn_cb") /\ w = Count(q, "do_reconn_cb")
      BY <2>2
    <2>5. PlanCount(timer, q) = (x + z) + (y + w)
      BY <2>4 DEF PlanCount
    <2>6. PlanCount(timer, active) = (x + Count(active, "do_conn_cb")) + (y + Count(active, "do_reconn_cb"))
      BY <2>4 DEF PlanCount
    <2>7. PICK u \in Nat, v \in Nat :
              /\ u = IF Head(active).cb = "do_conn_cb" THEN 1 ELSE 0
              /\ v = IF Head(active).cb = "do_reconn_cb" THEN 1 ELSE 0
      OBVIOUS
    <2>8. u + v = IF IsPlan(Head(active).cb) THEN 1 ELSE 0
      BY <2>7 DEF IsPlan
    <2>9. PlanCount(timer, active) = (x + (z + u)) + (y + (w + v))
      BY <2>3, <2>4, <2>6, <2>7
    <2>. QED  BY <2>5, <2>8, <2>9
  <1>5. Head(active).cb \in {"CONNECTED", "EOF"} =>
           bev # 0 /\ net[bev] \in IF Head(active).cb = "EOF" THEN {"broken"} ELSE {"up", "broken"}
    BY <1>1, <1>2 DEF Reported
  <1>6. Head(active).cb = "do_send_cb" =>
           Head(active).msg \in 1 .. Len(sent) /\ Head(active).len = Short(sent[Head(active).msg].len + 4)
    BY <1>1, <1>2 DEF Lengths
  <1>. QED  BY <1>2, <1>3, <1>4, <1>5, <1>6

\* A callback that only leaves the queue, and was no plan
LEMMA TakeLife ==
    ASSUME LifeInv, active # <<>>, ~IsPlan(Head(active).cb), active' = Tail(active),
           bDone' \in BOOLEAN, wire' \in [Conn -> Seq([msg : 1 .. MaxSends, bytes : Nat])],
           UNCHANGED <<status, bev, gone, timer, net, calling, asked, sent>>
    PROVE  LifeInv'
  <1>1. PICK q : q = Tail(active)
    OBVIOUS
  <1>2. /\ q \in Seq(Callback) /\ Lengths(q, sent) /\ Reported(q, bev, net) /\ Once(q)
        /\ PlanCount(timer, active) = PlanCount(timer, q) /\ PlanCount(timer, q) \in Nat
    <2>1. /\ q \in Seq(Callback) /\ Lengths(q, sent) /\ Reported(q, bev, net) /\ Once(q)
          /\ PlanCount(timer, active) = PlanCount(timer, q) + (IF IsPlan(Head(active).cb) THEN 1 ELSE 0)
          /\ PlanCount(timer, q) \in Nat
      BY <1>1, RestFacts
    <2>. QED  BY <2>1
  <1>3. TypeOK' /\ (Len(sent) <= MaxSends)'
    BY <1>1, <1>2 DEF LifeInv, TypeOK
  <1>4. Queue' /\ Alive' /\ Believed' /\ Asked'
    BY <1>1, <1>2 DEF LifeInv, Queue, Alive, Believed, Asked
  <1>5. OnePlan'
    BY <1>1, <1>2 DEF LifeInv, OnePlan
  <1>. QED  BY <1>3, <1>4, <1>5 DEF LifeInv

\* A plan is carried out: it was the only one, and there is no connection.
LEMMA RealConnectLife ==
    ASSUME LifeInv, active # <<>>, IsPlan(Head(active).cb), do_real_connect,
           active' = Tail(active), UNCHANGED <<bDone, gone, calling, asked, sent, wire>>
    PROVE  LifeInv'
  <1>1. PICK q : q = Tail(active)
    OBVIOUS
  <1>2. PICK k : k = NextConn
    OBVIOUS
  <1>3. PICK t : t = timer'
    OBVIOUS
  <1>4. PICK n : n = net'
    OBVIOUS
  <1>5. /\ q \in Seq(Callback) /\ Lengths(q, sent) /\ Reported(q, bev, net) /\ Once(q)
        /\ \A d \in Timed : timer[d] \in Nat /\ Count(q, d) \in Nat
        /\ PlanCount(timer, active) = PlanCount(timer, q) + 1 /\ PlanCount(timer, q) \in Nat
    <2>1. /\ q \in Seq(Callback) /\ Lengths(q, sent) /\ Reported(q, bev, net) /\ Once(q)
          /\ \A d \in Timed : timer[d] \in Nat /\ Count(q, d) \in Nat
          /\ PlanCount(timer, active) = PlanCount(timer, q) + (IF IsPlan(Head(active).cb) THEN 1 ELSE 0)
          /\ PlanCount(timer, q) \in Nat
      BY <1>1, RestFacts
    <2>. QED  BY <2>1
  <1>6. "Connect" \in asked /\ ~gone /\ bev = 0 /\ PlanCount(timer, q) = 0
    BY <1>5 DEF LifeInv, OnePlan
  <1>7. k \in Conn /\ net[k] = "unused"
    BY <1>2, NextConnFacts DEF do_real_connect
  <1>8. \A b, o : Reported(q, b, o)
    <2>1. \A i \in 1 .. Len(q) : q[i].cb \notin {"CONNECTED", "EOF"}
      BY <1>5, <1>6 DEF Reported
    <2>. QED  BY <2>1 DEF Reported
  <1>9. /\ t \in [Timed -> Nat] /\ status' = "UNNKOW"
        /\ n \in [Conn -> {"unused", "connecting", "up", "broken", "closed"}]
        /\ \A d \in Conn : d # k => n[d] = net[d]
        /\ \/ bev' = k /\ n[k] = "connecting" /\ PlanCount(t, q) = 0
           \/ bev' = 0 /\ n[k] = "closed" /\ PlanCount(t, q) = 1
    <2>1. CASE bev' = k /\ n = [net EXCEPT ![k] = "connecting"] /\ t = timer
      BY <1>6, <1>7, <2>1 DEF LifeInv, TypeOK, do_real_connect
    <2>2. CASE bev' = 0 /\ n = [net EXCEPT ![k] = "closed"] /\ t = Pending("do_reconn_cb")
      <3>1. /\ t \in [Timed -> Nat] /\ t["do_reconn_cb"] = timer["do_reconn_cb"] + 1
            /\ t["do_conn_cb"] = timer["do_conn_cb"]
        BY <2>2, PendingFacts DEF LifeInv, Timed
      <3>2. PlanCount(t, q) = 1
        <4>1. PICK x \in Nat, y \in Nat, z \in Nat, w \in Nat :
                  /\ x = timer["do_conn_cb"] /\ y = timer["do_reconn_cb"]
                  /\ z = Count(q, "do_conn_cb") /\ w = Count(q, "do_reconn_cb")
          BY <1>5 DEF Timed
        <4>2. PlanCount(timer, q) = (x + z) + (y + w) /\ PlanCount(t, q) = (x + z) + ((y + 1) + w)
          BY <3>1, <4>1 DEF PlanCount
        <4>. QED  BY <1>6, <4>2
      <3>. QED  BY <1>7, <2>2, <3>1, <3>2 DEF LifeInv, TypeOK, do_real_connect
    <2>. QED  BY <1>2, <1>3, <1>4, <2>1, <2>2 DEF do_real_connect
  <1>10. k # 0 /\ k \in 0 .. MaxConns /\ 0 \in 0 .. MaxConns
    BY <1>7, AVClientAssumption DEF Conn
  <1>11. TypeOK' /\ (Len(sent) <= MaxSends)'
    <2>1. UNCHANGED <<bDone, gone, calling, asked, sent, wire>>
      OBVIOUS
    <2>2. active' \in Seq(Callback) /\ timer' \in [Timed -> Nat] /\ bev' \in 0 .. MaxConns
          /\ net' \in [Conn -> {"unused", "connecting", "up", "broken", "closed"}]
          /\ status' \in {"UNNKOW", "DISCONNECT", "CONNECTED"}
      BY <1>1, <1>3, <1>4, <1>5, <1>9, <1>10
    <2>3. TypeOK /\ Len(sent) <= MaxSends
      BY DEF LifeInv
    <2>. QED  BY <2>1, <2>2, <2>3 DEF TypeOK
  <1>12. Queue'
    BY <1>1, <1>5, <1>8 DEF Queue
  <1>13. Alive'
    <2>1. ASSUME NEW d \in Conn PROVE n[d] \in {"connecting", "up", "broken"} <=> d = bev'
      <3>1. ~ (net[d] \in {"connecting", "up", "broken"})
        BY <1>6 DEF LifeInv, Alive, Conn
      <3>. QED  BY <1>9, <1>10, <3>1 DEF Conn
    <2>. QED  BY <1>4, <2>1 DEF Alive
  <1>14. Believed' /\ Asked'
    BY <1>6, <1>9 DEF Believed, Asked
  <1>15. OnePlan'
    BY <1>1, <1>3, <1>6, <1>9, <1>10 DEF OnePlan
  <1>. QED  BY <1>11, <1>12, <1>13, <1>14, <1>15 DEF LifeInv

LEMMA do_conn_cbLife == ASSUME LifeInv, do_conn_cb PROVE LifeInv'
  <1>1. active # <<>> /\ Head(active).cb = "do_conn_cb"
    BY DEF do_conn_cb, Runs
  <1>2. status # "CONNECTED"
    <2>1. PICK q : q = Tail(active)
      OBVIOUS
    <2>2. /\ PlanCount(timer, active) = PlanCount(timer, q) + (IF IsPlan(Head(active).cb) THEN 1 ELSE 0)
          /\ PlanCount(timer, q) \in Nat
      BY <1>1, <2>1, RestFacts
    <2>3. PlanCount(timer, active) # 0
      BY <1>1, <2>2 DEF IsPlan
    <2>. QED  BY <2>3 DEF LifeInv, OnePlan, Believed
  <1>. QED  BY <1>1, <1>2, RealConnectLife DEF do_conn_cb, IsPlan

LEMMA do_reconn_cbLife == ASSUME LifeInv, do_reconn_cb PROVE LifeInv'
  BY RealConnectLife DEF do_reconn_cb, Runs, IsPlan

\* The connection is given up: nothing of it stays behind.
LEMMA LostLife ==
    ASSUME LifeInv, active # <<>>, Head(active).cb \in {"EOF", "do_close_cb"}, ~gone, bev # 0,
           NEW done \in BOOLEAN, Lost(done), bDone' \in BOOLEAN,
           UNCHANGED <<calling, asked, sent, wire>>
    PROVE  LifeInv'
  <1>1. PICK q : q = Tail(active)
    OBVIOUS
  <1>2. PICK r : r = Freed(q, bev)
    OBVIOUS
  <1>3. PICK n : n = net'
    OBVIOUS
  <1>4. PICK t : t = timer'
    OBVIOUS
  <1>5. /\ q \in Seq(Callback) /\ Lengths(q, sent) /\ Reported(q, bev, net) /\ Once(q)
        /\ \A d \in Timed : timer[d] \in Nat /\ Count(q, d) \in Nat
        /\ PlanCount(timer, active) = PlanCount(timer, q)
    <2>1. /\ q \in Seq(Callback) /\ Lengths(q, sent) /\ Reported(q, bev, net) /\ Once(q)
          /\ \A d \in Timed : timer[d] \in Nat /\ Count(q, d) \in Nat
          /\ PlanCount(timer, active) = PlanCount(timer, q) + (IF IsPlan(Head(active).cb) THEN 1 ELSE 0)
          /\ PlanCount(timer, q) \in Nat
      BY <1>1, RestFacts
    <2>. QED  BY <2>1 DEF IsPlan
  <1>6. /\ Subqueue(q, r) /\ \A k \in 1 .. Len(r) : r[k].cb \notin {"CONNECTED", "EOF"}
        /\ \A d \in Timed : Count(r, d) = Count(q, d)
    <2>1. PICK b : b = bev
      OBVIOUS
    <2>2. Reported(q, b, net) /\ r = Freed(q, b)
      BY <1>2, <1>5, <2>1
    <2>3. /\ Subqueue(q, Freed(q, b)) /\ \A k \in 1 .. Len(Freed(q, b)) : Freed(q, b)[k].cb \notin {"CONNECTED", "EOF"}
          /\ \A d \in Timed : Count(Freed(q, b), d) = Count(q, d)
      BY <1>5, <2>2, FreedFacts
    <2>. QED  BY <2>2, <2>3
  <1>7. r \in Seq(Callback) /\ Lengths(r, sent) /\ Once(r) /\ \A b, o : Reported(r, b, o)
    <2>1. Lengths(r, sent) /\ Once(r)
      BY <1>5, <1>6, SubqueueKeeps
    <2>. QED  BY <1>6, <2>1 DEF Subqueue, Reported
  <1>8. PlanCount(timer, r) = 0
    <2>1. PlanCount(timer, r) = PlanCount(timer, q)
      BY <1>6 DEF PlanCount, Timed
    <2>. QED  BY <1>5, <2>1 DEF LifeInv, OnePlan
  <1>9. /\ t \in [Timed -> Nat] /\ gone' = done
        /\ PlanCount(t, r) = IF done THEN 0 ELSE 1
    <2>1. CASE done
      <3>1. t = timer /\ gone' = TRUE
        BY <1>4, <2>1 DEF Lost
      <3>. QED  BY <1>8, <2>1, <3>1 DEF LifeInv, TypeOK
    <2>2. CASE ~done
      <3>1. t = Pending("do_reconn_cb") /\ gone' = FALSE
        BY <1>4, <2>2 DEF Lost, LifeInv, TypeOK
      <3>2. /\ t \in [Timed -> Nat] /\ t["do_reconn_cb"] = timer["do_reconn_cb"] + 1
            /\ t["do_conn_cb"] = timer["do_conn_cb"]
        BY <3>1, PendingFacts DEF LifeInv, Timed
      <3>3. PICK x \in Nat, y \in Nat, z \in Nat, w \in Nat :
                /\ x = timer["do_conn_cb"] /\ y = timer["do_reconn_cb"]
                /\ z = Count(r, "do_conn_cb") /\ w = Count(r, "do_reconn_cb")
        BY <1>5, <1>6 DEF Timed
      <3>4. PlanCount(timer, r) = (x + z) + (y + w) /\ PlanCount(t, r) = (x + z) + ((y + 1) + w)
        BY <3>2, <3>3 DEF PlanCount
      <3>5. PlanCount(t, r) = 1
        BY <1>8, <3>4
      <3>6. done = FALSE
        BY <2>2
      <3>. QED  BY <3>1, <3>2, <3>5, <3>6
    <2>. QED  BY <2>1, <2>2
  <1>10. /\ n \in [Conn -> {"unused", "connecting", "up", "broken", "closed"}]
         /\ bev' = 0 /\ bev' \in 0 .. MaxConns /\ status' = "DISCONNECT"
         /\ \A d \in Conn : n[d] = IF d = bev THEN "closed" ELSE net[d]
    BY <1>3, AVClientAssumption DEF Lost, LifeInv, TypeOK
  <1>11. TypeOK' /\ (Len(sent) <= MaxSends)'
    <2>1. UNCHANGED <<calling, asked, sent, wire>> /\ bDone' \in BOOLEAN /\ gone' \in BOOLEAN
      BY <1>9
    <2>2. /\ active' \in Seq(Callback) /\ timer' \in [Timed -> Nat] /\ bev' \in 0 .. MaxConns
          /\ net' \in [Conn -> {"unused", "connecting", "up", "broken", "closed"}]
          /\ status' \in {"UNNKOW", "DISCONNECT", "CONNECTED"}
      BY <1>1, <1>2, <1>3, <1>4, <1>7, <1>9, <1>10 DEF Lost
    <2>3. TypeOK /\ Len(sent) <= MaxSends
      BY DEF LifeInv
    <2>. QED  BY <2>1, <2>2, <2>3 DEF TypeOK
  <1>12. Queue'
    BY <1>1, <1>2, <1>7 DEF Queue, Lost
  <1>13. Alive'
    <2>1. ASSUME NEW d \in Conn PROVE ~ (n[d] \in {"connecting", "up", "broken"}) /\ d # 0
      BY <1>10 DEF LifeInv, Alive, Conn
    <2>. QED  BY <1>3, <1>10, <2>1 DEF Alive
  <1>14. Believed' /\ Asked' /\ "Connect" \in asked'
    BY <1>10 DEF LifeInv, Believed, Asked
  <1>15. OnePlan'
    BY <1>1, <1>2, <1>4, <1>9, <1>10, <1>14 DEF OnePlan, Lost
  <1>. QED  BY <1>11, <1>12, <1>13, <1>14, <1>15 DEF LifeInv

LEMMA event_cb_EOFLife == ASSUME LifeInv, event_cb_EOF PROVE LifeInv'
  <1>1. active # <<>> /\ Head(active).cb = "EOF"
    BY DEF event_cb_EOF, Runs
  <1>2. bev # 0
    <2>1. PICK q : q = Tail(active)
      OBVIOUS
    <2>. QED  BY <1>1, <2>1, RestFacts
  <1>3. ~gone
    BY <1>2 DEF LifeInv, Asked
  <1>4. bDone \in BOOLEAN
    BY DEF LifeInv, TypeOK
  <1>. QED  BY <1>1, <1>2, <1>3, <1>4, LostLife DEF event_cb_EOF

LEMMA do_close_cbLife == ASSUME LifeInv, do_close_cb PROVE LifeInv'
  <1>1. active # <<>> /\ Head(active).cb = "do_close_cb" /\ ~IsPlan(Head(active).cb)
    BY DEF do_close_cb, Runs, IsPlan
  <1>2. CASE ~gone /\ bev # 0
    BY <1>1, <1>2, LostLife DEF do_close_cb
  <1>3. CASE gone \/ bev = 0
    <2>1. Ignore /\ bDone' \in BOOLEAN /\ wire' \in [Conn -> Seq([msg : 1 .. MaxSends, bytes : Nat])]
          /\ UNCHANGED <<calling, asked, sent>>
      BY <1>3 DEF do_close_cb, LifeInv, TypeOK
    <2>. QED  BY <1>1, <2>1, TakeLife DEF Ignore
  <1>. QED  BY <1>2, <1>3

\* What is written is the head of the queue, and only on a connection.
LEMMA WriteFacts ==
    ASSUME LifeInv, do_send_cb
    PROVE  /\ wire' \in [Conn -> Seq([msg : 1 .. MaxSends, bytes : Nat])]
           /\ Head(active).msg \in 1 .. Len(sent)
           /\ Head(active).len = Short(sent[Head(active).msg].len + 4)
           /\ IF status = "CONNECTED" /\ Head(active).len > 0
                THEN /\ bev \in Conn
                     /\ \A c \in Conn : c # bev => wire'[c] = wire[c]
                     /\ wire'[bev] = Append(wire[bev], [msg |-> Head(active).msg, bytes |-> Head(active).len])
                ELSE wire' = wire
  <1>1. active # <<>> /\ Head(active).cb = "do_send_cb"
    BY DEF do_send_cb, Runs
  <1>2. PICK e : e = Head(active)
    OBVIOUS
  <1>3. /\ e \in Callback /\ e.msg \in 1 .. Len(sent)
        /\ e.len = Short(sent[e.msg].len + 4)
    <2>1. PICK q : q = Tail(active)
      OBVIOUS
    <2>2. Head(active) \in Callback /\ Head(active).msg \in 1 .. Len(sent)
          /\ Head(active).len = Short(sent[Head(active).msg].len + 4)
      BY <1>1, <2>1, RestFacts
    <2>. QED  BY <1>2, <2>2
  <1>4. e.len \in Int
    <2>1. e.len \in ShortInt
      BY <1>3 DEF Callback
    <2>2. ShortInt \subseteq Int
      <3>1. PICK lo \in Int : lo = -32768
        OBVIOUS
      <3>2. ShortInt = lo .. 32767
        BY <3>1 DEF ShortInt
      <3>. QED  BY <3>2
    <2>. QED  BY <2>1, <2>2
  <1>5. PICK n \in Nat : n = Written(e.len) /\ n = (IF e.len > 0 THEN e.len ELSE 0)
    <2>1. PICK i \in Int : i = e.len
      BY <1>4
    <2>2. (IF i > 0 THEN i ELSE 0) \in Nat /\ Written(i) = IF i > 0 THEN i ELSE 0
      BY DEF Written
    <2>. QED  BY <2>1, <2>2
  <1>6. e.msg \in 1 .. MaxSends
    BY <1>3, AVClientAssumption DEF LifeInv, TypeOK
  <1>7. wire' = IF status = "CONNECTED" /\ n > 0
                  THEN [wire EXCEPT ![bev] = Append(@, [msg |-> e.msg, bytes |-> n])] ELSE wire
    BY <1>2, <1>5 DEF do_send_cb
  <1>8. wire \in [Conn -> Seq([msg : 1 .. MaxSends, bytes : Nat])]
    BY DEF LifeInv, TypeOK
  <1>9. CASE status = "CONNECTED" /\ n > 0
    <2>1. bev \in Conn
      <3>1. bev # 0 /\ bev \in 0 .. MaxConns
        BY <1>9 DEF LifeInv, TypeOK, Believed
      <3>. QED  BY <3>1, AVClientAssumption DEF Conn
    <2>2. PICK w : w = [msg |-> e.msg, bytes |-> n]
      OBVIOUS
    <2>3. w \in [msg : 1 .. MaxSends, bytes : Nat]
      BY <1>6, <2>2
    <2>4. Append(wire[bev], w) \in Seq([msg : 1 .. MaxSends, bytes : Nat])
      <3>1. wire[bev] \in Seq([msg : 1 .. MaxSends, bytes : Nat])
        BY <1>8, <2>1
      <3>. QED  BY <2>3, <3>1, AppendProperties
    <2>5. wire' = [wire EXCEPT ![bev] = Append(@, w)]
      BY <1>7, <1>9, <2>2
    <2>6. n = e.len /\ e.len > 0
      BY <1>5, <1>9, <1>4
    <2>. QED  BY <1>2, <1>3, <1>8, <1>9, <2>1, <2>2, <2>4, <2>5, <2>6
  <1>10. CASE ~(status = "CONNECTED" /\ n > 0)
    <2>1. e.len > 0 => n > 0
      BY <1>5
    <2>2. wire' = wire
      BY <1>7, <1>10
    <2>. QED  BY <1>2, <1>3, <1>8, <1>10, <2>1, <2>2
  <1>. QED  BY <1>9, <1>10

LEMMA do_send_cbLife == ASSUME LifeInv, do_send_cb PROVE LifeInv'
  <1>1. active # <<>> /\ ~IsPlan(Head(active).cb)
    BY DEF do_send_cb, Runs, IsPlan
  <1>2. wire' \in [Conn -> Seq([msg : 1 .. MaxSends, bytes : Nat])]
    BY WriteFacts
  <1>3. bDone' \in BOOLEAN
    BY DEF do_send_cb, LifeInv, TypeOK
  <1>4. active' = Tail(active) /\ UNCHANGED <<status, bev, gone, timer, net, calling, asked, sent>>
    BY DEF do_send_cb
  <1>. QED  BY <1>1, <1>2, <1>3, <1>4, TakeLife

\* A connection is reported established: status says so, and one message may follow.
LEMMA ConnectedFacts ==
    ASSUME LifeInv, event_cb_CONNECTED
    PROVE  /\ active # <<>> /\ Head(active).cb = "CONNECTED"
           /\ ~gone /\ bev \in Conn /\ net[bev] \in {"up", "broken"} /\ status' = "CONNECTED"
           /\ \/ active' = Tail(active) /\ sent' = sent
              \/ \E n \in Size :
                   /\ Len(sent) < MaxSends /\ sent' = Accept("loop", n)
                   /\ active' = Activate(Tail(active), SendEvent(Len(sent'), n))
  <1>1. active # <<>> /\ Head(active).cb = "CONNECTED"
    BY DEF event_cb_CONNECTED, Runs
  <1>2. bev # 0 /\ net[bev] \in {"up", "broken"}
    <2>1. PICK q : q = Tail(active)
      OBVIOUS
    <2>2. Head(active).cb \in {"CONNECTED", "EOF"} =>
             bev # 0 /\ net[bev] \in IF Head(active).cb = "EOF" THEN {"broken"} ELSE {"up", "broken"}
      BY <1>1, <2>1, RestFacts
    <2>. QED  BY <1>1, <2>2
  <1>3. bev \in Conn
    BY <1>2, AVClientAssumption DEF LifeInv, TypeOK, Conn
  <1>4. ~gone
    BY <1>2 DEF LifeInv, Asked
  <1>. QED  BY <1>1, <1>2, <1>3, <1>4 DEF event_cb_CONNECTED

\* The message that follows is the newest one.
LEMMA LoopSendFacts ==
    ASSUME LifeInv, active # <<>>, NEW n \in Size, Len(sent) < MaxSends,
           NEW s, s = Accept("loop", n),
           NEW q, q = Tail(active), NEW r, r = Activate(q, SendEvent(Len(s), n))
    PROVE  /\ s \in Seq(Accepted) /\ Len(s) <= MaxSends /\ Longer(sent, s)
           /\ s[Len(s)] = [by |-> "loop", len |-> n, conn |-> bev]
           /\ \E e \in Callback : /\ Appended(q, e, r) /\ e.cb = "do_send_cb" /\ e.msg = Len(s)
                                  /\ e.len = Short(s[e.msg].len + 4) /\ e.msg \in 1 .. Len(s)
  <1>1. /\ s \in Seq(Accepted) /\ Longer(sent, s)
        /\ s[Len(s)] = [by |-> "loop", len |-> n, conn |-> bev]
    <2>1. "loop" \in Sender
      BY DEF Sender
    <2>. QED  BY <2>1, AcceptKeeps DEF LifeInv
  <1>2. Len(s) \in 1 .. Len(s) /\ Len(s) \in 0 .. MaxSends /\ Len(s) <= MaxSends
    BY <1>1, AVClientAssumption DEF Longer
  <1>3. q \in Seq(Callback)
    BY RestFacts
  <1>4. PICK m \in 0 .. MaxSends : m = Len(s)
    BY <1>2
  <1>5. n \in Nat
    BY AVClientAssumption
  <1>6. PICK e : e = SendEvent(m, n)
    OBVIOUS
  <1>7. e \in Callback /\ e.cb = "do_send_cb"
    BY <1>5, <1>6, CallbackTyped
  <1>8. e.msg = m /\ e.len = Short(n + 4)
    BY <1>6 DEF SendEvent
  <1>9. r = Append(q, e)
    BY <1>4, <1>6 DEF Activate
  <1>10. Appended(q, e, r)
    BY <1>3, <1>7, <1>9, AppendFacts
  <1>11. s[m].len = n
    BY <1>1, <1>4
  <1>12. e.len = Short(s[e.msg].len + 4)
    BY <1>8, <1>11
  <1>13. e.msg = Len(s) /\ e.msg \in 1 .. Len(s)
    BY <1>2, <1>4, <1>8
  <1>. QED  BY <1>1, <1>2, <1>7, <1>10, <1>12, <1>13

LEMMA event_cb_CONNECTEDLife == ASSUME LifeInv, event_cb_CONNECTED PROVE LifeInv'
  <1>1. PICK q : q = Tail(active)
    OBVIOUS
  <1>2. PICK r : r = active'
    OBVIOUS
  <1>3. PICK s : s = sent'
    OBVIOUS
  <1>4. /\ active # <<>> /\ Head(active).cb = "CONNECTED"
        /\ ~gone /\ bev \in Conn /\ net[bev] \in {"up", "broken"} /\ status' = "CONNECTED"
        /\ \/ r = q /\ s = sent
           \/ \E n \in Size : /\ Len(sent) < MaxSends /\ s = Accept("loop", n)
                              /\ r = Activate(q, SendEvent(Len(s), n))
    BY <1>1, <1>2, <1>3, ConnectedFacts
  <1>5. UNCHANGED <<bev, bDone, gone, timer, net, calling, asked, wire>>
    BY DEF event_cb_CONNECTED
  <1>6. /\ q \in Seq(Callback) /\ Lengths(q, sent) /\ Reported(q, bev, net) /\ Once(q)
        /\ PlanCount(timer, active) = PlanCount(timer, q) + (IF IsPlan(Head(active).cb) THEN 1 ELSE 0)
        /\ \A d \in Timed : Count(q, d) \in Nat
        /\ PlanCount(timer, q) \in Nat
    BY <1>1, <1>4, RestFacts
  <1>7. /\ r \in Seq(Callback) /\ Lengths(r, s) /\ Reported(r, bev, net) /\ Once(r)
        /\ \A d \in Timed : Count(r, d) = Count(q, d)
        /\ s \in Seq(Accepted) /\ Len(s) <= MaxSends /\ Len(sent) <= Len(s)
    <2>1. CASE r = q /\ s = sent
      BY <1>6, <2>1 DEF LifeInv, TypeOK, Accepted
    <2>2. ASSUME NEW n \in Size, Len(sent) < MaxSends, s = Accept("loop", n),
                 r = Activate(q, SendEvent(Len(s), n))
          PROVE  /\ r \in Seq(Callback) /\ Lengths(r, s) /\ Reported(r, bev, net) /\ Once(r)
                 /\ \A d \in Timed : Count(r, d) = Count(q, d)
                 /\ s \in Seq(Accepted) /\ Len(s) <= MaxSends /\ Len(sent) <= Len(s)
      <3>1. /\ s \in Seq(Accepted) /\ Len(s) <= MaxSends /\ Longer(sent, s)
            /\ \E e \in Callback : /\ Appended(q, e, r) /\ e.cb = "do_send_cb" /\ e.msg = Len(s)
                                   /\ e.len = Short(s[e.msg].len + 4) /\ e.msg \in 1 .. Len(s)
        BY <1>1, <1>4, <2>2, LoopSendFacts
      <3>2. PICK e \in Callback : /\ Appended(q, e, r) /\ e.cb = "do_send_cb" /\ e.msg = Len(s)
                                  /\ e.len = Short(s[e.msg].len + 4) /\ e.msg \in 1 .. Len(s)
        BY <3>1
      <3>3. Lengths(q, s)
        BY <1>6, <3>1, LongerKeeps
      <3>4. /\ r \in Seq(Callback) /\ Lengths(r, s) /\ Reported(r, bev, net) /\ Once(r)
            /\ \A d \in Timed : Count(r, d) = Count(q, d) + (IF e.cb = d THEN 1 ELSE 0)
        BY <1>6, <3>2, <3>3, AppendKeeps
      <3>5. ASSUME NEW d \in Timed PROVE Count(r, d) = Count(q, d)
        <4>1. e.cb # d /\ Count(q, d) \in Nat
          BY <1>6, <3>2 DEF Timed
        <4>. QED  BY <3>4, <4>1
      <3>6. Len(sent) <= Len(s)
        BY <3>1 DEF Longer
      <3>. QED  BY <3>1, <3>4, <3>5, <3>6
    <2>. QED  BY <1>4, <2>1, <2>2
  <1>8. TypeOK' /\ (Len(sent) <= MaxSends)'
    <2>1. active' \in Seq(Callback) /\ sent' \in Seq(Accepted) /\ Len(sent') <= MaxSends
          /\ status' \in {"UNNKOW", "DISCONNECT", "CONNECTED"}
      BY <1>2, <1>3, <1>4, <1>7
    <2>2. calling' \in 0 .. Len(sent')
      BY <1>3, <1>5, <1>7 DEF LifeInv, TypeOK
    <2>3. TypeOK
      BY DEF LifeInv
    <2>. QED  BY <1>5, <2>1, <2>2, <2>3 DEF TypeOK, Accepted
  <1>9. Queue' /\ Alive' /\ Believed' /\ Asked'
    <2>1. Queue'
      BY <1>2, <1>3, <1>5, <1>7 DEF Queue
    <2>2. Alive' /\ Asked'
      BY <1>5 DEF LifeInv, Alive, Asked
    <2>3. Believed'
      BY <1>4, <1>5 DEF Believed, Conn
    <2>. QED  BY <2>1, <2>2, <2>3
  <1>10. OnePlan'
    <2>1. PlanCount(timer, r) = PlanCount(timer, q)
      BY <1>7 DEF PlanCount, Timed
    <2>2. PlanCount(timer, active) = PlanCount(timer, q)
      BY <1>4, <1>6 DEF IsPlan
    <2>. QED  BY <1>2, <1>5, <2>1, <2>2 DEF LifeInv, OnePlan
  <1>. QED  BY <1>8, <1>9, <1>10 DEF LifeInv

LEMMA LifeNext == LifeInv /\ [Next]_vars => LifeInv'
  <1>1. SUFFICES ASSUME LifeInv, [Next]_vars PROVE LifeInv'
    OBVIOUS
  <1>2. CASE Connect
    BY <1>1, <1>2, ConnectLife
  <1>3. CASE Disconnect
    BY <1>1, <1>3, DisconnectLife
  <1>4. CASE ActivateSend
    BY <1>1, <1>4, ActivateSendLife
  <1>5. ASSUME NEW n \in Size, SendData(n) PROVE LifeInv'
    BY <1>1, <1>5, SendDataLife
  <1>6. ASSUME NEW c \in Timed, FireTimer(c) PROVE LifeInv'
    BY <1>1, <1>6, FireTimerLife
  <1>7. ASSUME NEW c \in Conn, Establish(c) \/ Break(c) PROVE LifeInv'
    BY <1>1, <1>7, ReportLife
  <1>8. CASE do_conn_cb
    BY <1>1, <1>8, do_conn_cbLife
  <1>9. CASE do_reconn_cb
    BY <1>1, <1>9, do_reconn_cbLife
  <1>10. CASE do_close_cb
    BY <1>1, <1>10, do_close_cbLife
  <1>11. CASE do_send_cb
    BY <1>1, <1>11, do_send_cbLife
  <1>12. CASE event_cb_EOF
    BY <1>1, <1>12, event_cb_EOFLife
  <1>13. CASE event_cb_CONNECTED
    BY <1>1, <1>13, event_cb_CONNECTEDLife
  <1>14. CASE UNCHANGED vars
    BY <1>1, <1>14 DEF vars, LifeInv, TypeOK, Queue, Alive, Believed, Asked, OnePlan
  <1>. QED
    BY <1>1, <1>2, <1>3, <1>4, <1>5, <1>6, <1>7, <1>8, <1>9, <1>10, <1>11, <1>12, <1>13, <1>14
       DEF Next, LoopStep

LEMMA Life == Spec => []LifeInv
  BY LifeInit, LifeNext, PTL DEF Spec

\* Every variable keeps its type, a callback's length being cut to 16 bits.
THEOREM TypeCorrect == Spec => []TypeOK
  <1>1. LifeInv => TypeOK
    BY DEF LifeInv
  <1>. QED  BY Life, <1>1, PTL

LEMMA WaitsCount == \A t \in Timed : Waits(t) = timer[t] + Count(active, t)
  BY DEF Waits, Queued, Count

\* Once Connect is called there is exactly one connection, or one pending connect
\* or reconnect: eAVClient is never left without a future and leaks no
\* bufferevent, however callbacks, failures and calls interleave.
THEOREM OneFuture == Spec => []OneLifeline
  <1>1. LifeInv => OneLifeline
    <2>1. SUFFICES ASSUME LifeInv PROVE OneLifeline
      OBVIOUS
    <2>2. bev \in Conn \/ bev = 0
      BY <2>1, AVClientAssumption DEF LifeInv, TypeOK, Conn
    <2>3. Live = IF bev = 0 THEN {} ELSE {bev}
      <3>1. ASSUME NEW c \in Conn PROVE c \in Live <=> c = bev
        BY <2>1 DEF LifeInv, Alive, Live
      <3>2. Live \subseteq Conn /\ 0 \notin Conn
        BY DEF Live, Conn
      <3>. QED  BY <2>2, <3>1, <3>2
    <2>4. Cardinality(Live) = IF bev = 0 THEN 0 ELSE 1
      BY <2>3, FS_EmptySet, FS_Singleton
    <2>5. Waits("do_conn_cb") + Waits("do_reconn_cb") = PlanCount(timer, active)
      BY WaitsCount DEF PlanCount, Timed
    <2>6. "Connect" \in asked /\ ~gone =>
             (Waits("do_conn_cb") + Waits("do_reconn_cb")) + Cardinality(Live) = 1
      BY <2>1, <2>4, <2>5 DEF LifeInv, OnePlan
    <2>. QED  BY <2>1, <2>3, <2>6 DEF OneLifeline, LifeInv, Believed
  <1>. QED  BY Life, <1>1, PTL

\* Once the client has deleted itself no connect and no reconnect is pending, in a
\* timer or in the queue: none of the two callbacks that hold a raw pointer to
\* it runs on freed memory.
THEOREM NoPlanAfterTheEnd == Spec => []NoTimerOutlives
  <1>1. LifeInv => NoTimerOutlives
    <2>1. SUFFICES ASSUME LifeInv, gone, NEW cb \in {"do_conn_cb", "do_reconn_cb"} PROVE Waits(cb) = 0
      BY DEF NoTimerOutlives
    <2>2. PlanCount(timer, active) = 0
      BY <2>1 DEF LifeInv, OnePlan
    <2>3. \A t \in Timed : Count(active, t) \in Nat /\ timer[t] \in Nat
      BY <2>1, CountTyped DEF LifeInv, CountsTyped
    <2>4. PICK x \in Nat, y \in Nat, z \in Nat, w \in Nat :
              /\ x = timer["do_conn_cb"] /\ y = timer["do_reconn_cb"]
              /\ z = Count(active, "do_conn_cb") /\ w = Count(active, "do_reconn_cb")
      BY <2>3 DEF Timed
    <2>5. (x + z) + (y + w) = 0
      BY <2>2, <2>4 DEF PlanCount
    <2>6. Waits("do_conn_cb") = x + z /\ Waits("do_reconn_cb") = y + w
      BY <2>4, WaitsCount DEF Timed
    <2>. QED  BY <2>1, <2>5, <2>6
  <1>. QED  BY Life, <1>1, PTL

----------------------------------------------------------------------------
(* What becomes of the messages *)

\* Connections are used one after the other, n being what became of each, and
\* only what was used was written to.
InTurn(n, b, w) ==
    /\ \A c, d \in Conn : c < d /\ n[c] = "unused" => n[d] = "unused"
    /\ \A c \in Conn : b # 0 /\ b < c => n[c] = "unused"
    /\ \A c \in Conn : w[c] # <<>> => n[c] # "unused"

\* A message is accepted on a connection that was established.
Carried(s, n, b, st) ==
    \A m \in 1 .. Len(s) :
        /\ s[m].conn \in Conn /\ n[s[m].conn] \in {"up", "broken", "closed"}
        /\ s[m].conn = b => st = "CONNECTED"

\* The message of the call under way is newer than those of its sender that wait.
Newest(cl, s, S) ==
    cl # 0 => /\ s[cl].by = "control"
              /\ \A m \in S : s[m].by = "control" => m < cl

\* What is written is older than what its sender still has to write.
Behind(w, s, A) ==
    \A c \in Conn : \A k \in 1 .. Len(w[c]) :
        /\ w[c][k].msg \in 1 .. Len(s)
        /\ \A m \in A : s[m].by = s[w[c][k].msg].by => w[c][k].msg < m

\* What a sender's messages are written in is the order they were accepted in.
InOrder(w, s) ==
    \A c, d \in Conn : \A k \in 1 .. Len(w[c]), l \in 1 .. Len(w[d]) :
        /\ c < d \/ (c = d /\ k < l)
        /\ s[w[c][k].msg].by = s[w[d][l].msg].by
        => w[c][k].msg < w[d][l].msg

IsWritten(m, w) == \E c \in Conn : \E k \in 1 .. Len(w[c]) : w[c][k].msg = m

\* A message waits, is written, is too long or lost its connection.
Accounted(cl, S, w, s, n) ==
    \A m \in 1 .. Len(s) :
        cl = m \/ m \in S \/ IsWritten(m, w) \/ s[m].len + 4 > 32767 \/ n[s[m].conn] = "closed"

Ahead(S, cl) == S \cup (IF cl = 0 THEN {} ELSE {cl})

\* The inductive invariant of the messages
SendInv ==
    /\ InTurn(net, bev, wire) /\ Carried(sent, net, bev, status)
    /\ Ordered(active, sent) /\ Newest(calling, sent, Sends(active))
    /\ Behind(wire, sent, Ahead(Sends(active), calling)) /\ InOrder(wire, sent)
    /\ Accounted(calling, Sends(active), wire, sent, net)

LEMMA SendInit == Init => SendInv
  <1>1. SUFFICES ASSUME Init PROVE SendInv
    OBVIOUS
  <1>2. active = <<>> /\ sent = <<>> /\ calling = 0 /\ bev = 0 /\ \A c \in Conn : wire[c] = <<>> /\ net[c] = "unused"
    BY <1>1 DEF Init
  <1>3. InTurn(net, bev, wire) /\ Carried(sent, net, bev, status) /\ Ordered(active, sent)
    BY <1>2 DEF InTurn, Carried, Ordered
  <1>4. Newest(calling, sent, Sends(active)) /\ Accounted(calling, Sends(active), wire, sent, net)
    BY <1>2 DEF Newest, Accounted
  <1>5. \A c \in Conn : 1 .. Len(wire[c]) = {}
    BY <1>2
  <1>6. InOrder(wire, sent) /\ Behind(wire, sent, Ahead(Sends(active), calling))
    BY <1>5 DEF InOrder, Behind
  <1>. QED  BY <1>3, <1>4, <1>6 DEF SendInv

\* A step that neither accepts, queues nor writes a message
LEMMA QuietSend ==
    ASSUME SendInv, UNCHANGED <<calling, sent, wire>>,
           Sends(active') = Sends(active), Ordered(active', sent),
           InTurn(net', bev', wire), Carried(sent, net', bev', status'),
           \A c \in Conn : net[c] = "closed" => net'[c] = "closed"
    PROVE  SendInv'
  <1>1. Accounted(calling, Sends(active), wire, sent, net')
    BY DEF SendInv, Accounted, Carried
  <1>. QED  BY <1>1 DEF SendInv

LEMMA ConnectSend == ASSUME LifeInv, SendInv, Connect \/ Disconnect PROVE SendInv'
  BY DEF SendInv, Connect, Disconnect

LEMMA FireTimerSend == ASSUME LifeInv, SendInv, NEW c \in Timed, FireTimer(c) PROVE SendInv'
  <1>1. PICK q : q = active'
    OBVIOUS
  <1>2. PICK e : e = Event(c, 0)
    OBVIOUS
  <1>3. e \in Callback /\ e.cb = c
    BY <1>2, CallbackTyped, AVClientAssumption
  <1>4. Appended(active, e, q)
    BY <1>1, <1>2, <1>3, AppendFacts DEF LifeInv, TypeOK, FireTimer, Activate
  <1>5. Sends(q) = Sends(active) /\ Ordered(q, sent)
    <2>1. e.cb # "do_send_cb" /\ e.cb \in Timed \cup {"do_send_cb"}
      BY <1>3 DEF Timed
    <2>2. PICK a, s : a = active /\ s = sent /\ a \in Seq(Callback)
      BY DEF LifeInv, TypeOK
    <2>3. Ordered(a, s) /\ Appended(a, e, q)
      BY <1>4, <2>2 DEF SendInv
    <2>4. /\ Ordered(q, s)
          /\ Sends(q) = Sends(a) \cup (IF e.cb = "do_send_cb" THEN {e.msg} ELSE {})
      BY <1>3, <2>1, <2>2, <2>3, AppendKeeps
    <2>. QED  BY <2>1, <2>2, <2>4
  <1>. QED  BY <1>1, <1>5, QuietSend DEF FireTimer, SendInv

LEMMA ReportSend ==
    ASSUME LifeInv, SendInv, NEW c \in Conn, Establish(c) \/ Break(c) PROVE SendInv'
  <1>1. Sends(active') = Sends(active) /\ Ordered(active', sent)
    BY ReportLife DEF SendInv
  <1>2. UNCHANGED <<status, bev, calling, sent, wire>>
    BY DEF Establish, Break, Reports
  <1>3. PICK to \in {"up", "broken"} : net[c] \in {"connecting", "up"} /\ net' = [net EXCEPT ![c] = to]
    BY DEF Establish, Break, Reports
  <1>4. /\ \A d \in Conn : net'[d] = IF d = c THEN to ELSE net[d]
    BY <1>3 DEF LifeInv, TypeOK
  <1>5. \A d \in Conn : net'[d] = "unused" <=> net[d] = "unused"
    BY <1>3, <1>4
  <1>6. InTurn(net', bev', wire)
    BY <1>2, <1>5 DEF SendInv, InTurn
  <1>7. Carried(sent, net', bev', status')
    BY <1>2, <1>3, <1>4 DEF SendInv, Carried
  <1>8. \A d \in Conn : net[d] = "closed" => net'[d] = "closed"
    BY <1>3, <1>4
  <1>. QED  BY <1>1, <1>2, <1>6, <1>7, <1>8, QuietSend

\* Taking a callback that is no send leaves the sends alone.
LEMMA TailSends ==
    ASSUME LifeInv, SendInv, active # <<>>, Head(active).cb # "do_send_cb",
           NEW q, q = Tail(active)
    PROVE  Sends(q) = Sends(active) /\ Ordered(q, sent)
  <1>1. PICK a \in Seq(Callback) : a = active
    BY DEF LifeInv, TypeOK
  <1>2. a # <<>> /\ q = Tail(a) /\ Ordered(a, sent)
    BY <1>1 DEF SendInv
  <1>3. /\ Ordered(q, sent)
        /\ Sends(a) = Sends(q) \cup (IF Head(a).cb = "do_send_cb" THEN {Head(a).msg} ELSE {})
    BY <1>2, TailKeeps
  <1>. QED  BY <1>1, <1>3

LEMMA RealConnectSend ==
    ASSUME LifeInv, SendInv, active # <<>>, Head(active).cb # "do_send_cb", do_real_connect,
           bev = 0, active' = Tail(active), UNCHANGED <<calling, sent, wire>>
    PROVE  SendInv'
  <1>1. Sends(active') = Sends(active) /\ Ordered(active', sent)
    <2>1. PICK q : q = Tail(active)
      OBVIOUS
    <2>2. Sends(q) = Sends(active) /\ Ordered(q, sent)
      BY <2>1, TailSends
    <2>. QED  BY <2>1, <2>2
  <1>2. PICK k : k = NextConn
    OBVIOUS
  <1>3. k \in Conn /\ net[k] = "unused" /\ \A b \in 1 .. (k - 1) : net[b] # "unused"
    BY <1>2, NextConnFacts DEF do_real_connect
  <1>4. PICK to \in {"connecting", "closed"} : net' = [net EXCEPT ![k] = to] /\ bev' \in {0, k}
    BY <1>2 DEF do_real_connect
  <1>5. \A d \in Conn : net'[d] = IF d = k THEN to ELSE net[d]
    BY <1>4 DEF LifeInv, TypeOK
  <1>6. InTurn(net', bev', wire)
    <2>1. ASSUME NEW c \in Conn, NEW d \in Conn, c < d, net'[c] = "unused" PROVE net'[d] = "unused"
      <3>1. c # k /\ net[c] = "unused"
        BY <1>4, <1>5, <2>1
      <3>2. net[d] = "unused"
        BY <2>1, <3>1 DEF SendInv, InTurn
      <3>3. d # k
        BY <1>3, <2>1, <3>1 DEF Conn
      <3>. QED  BY <1>5, <3>2, <3>3
    <2>2. ASSUME NEW c \in Conn, bev' # 0, bev' < c PROVE net'[c] = "unused"
      <3>1. k < c /\ c # k
        BY <1>3, <1>4, <2>2 DEF Conn
      <3>. QED  BY <1>3, <1>5, <3>1 DEF SendInv, InTurn
    <2>3. ASSUME NEW c \in Conn, wire[c] # <<>> PROVE net'[c] # "unused"
      BY <1>4, <1>5, <2>3 DEF SendInv, InTurn
    <2>. QED  BY <2>1, <2>2, <2>3 DEF InTurn
  <1>7. Carried(sent, net', bev', status')
    <2>1. ASSUME NEW m \in 1 .. Len(sent)
          PROVE  /\ sent[m].conn \in Conn /\ net'[sent[m].conn] \in {"up", "broken", "closed"}
                 /\ sent[m].conn # bev'
      <3>1. sent[m].conn \in Conn /\ net[sent[m].conn] \in {"up", "broken", "closed"}
        BY DEF SendInv, Carried
      <3>2. sent[m].conn # k /\ sent[m].conn # 0
        BY <1>3, <3>1 DEF Conn
      <3>. QED  BY <1>4, <1>5, <3>1, <3>2
    <2>. QED  BY <2>1 DEF Carried
  <1>8. \A d \in Conn : net[d] = "closed" => net'[d] = "closed"
    BY <1>3, <1>5
  <1>. QED  BY <1>1, <1>6, <1>7, <1>8, QuietSend

LEMMA PlanSend == ASSUME LifeInv, SendInv, do_conn_cb \/ do_reconn_cb PROVE SendInv'
  <1>1. active # <<>> /\ IsPlan(Head(active).cb)
    BY DEF do_conn_cb, do_reconn_cb, Runs, IsPlan
  <1>2. bev = 0
    <2>1. PICK q : q = Tail(active)
      OBVIOUS
    <2>2. /\ PlanCount(timer, active) = PlanCount(timer, q) + (IF IsPlan(Head(active).cb) THEN 1 ELSE 0)
          /\ PlanCount(timer, q) \in Nat
      BY <1>1, <2>1, RestFacts
    <2>3. PlanCount(timer, active) # 0
      BY <1>1, <2>2
    <2>. QED  BY <2>3 DEF LifeInv, OnePlan
  <1>3. do_real_connect /\ active' = Tail(active) /\ UNCHANGED <<calling, sent, wire>>
    BY <1>2 DEF do_conn_cb, do_reconn_cb, LifeInv, Believed
  <1>4. Head(active).cb # "do_send_cb"
    BY <1>1 DEF IsPlan
  <1>. QED  BY <1>1, <1>2, <1>3, <1>4, RealConnectSend

LEMMA LostSend ==
    ASSUME LifeInv, SendInv, active # <<>>, Head(active).cb \in {"EOF", "do_close_cb"}, bev # 0,
           NEW done \in BOOLEAN, Lost(done), UNCHANGED <<calling, sent, wire>>
    PROVE  SendInv'
  <1>1. PICK q : q = Tail(active)
    OBVIOUS
  <1>2. PICK b : b = bev
    OBVIOUS
  <1>3. PICK r : r = Freed(q, b)
    OBVIOUS
  <1>4. Sends(q) = Sends(active) /\ Ordered(q, sent)
    BY <1>1, TailSends
  <1>5. Sends(r) = Sends(q) /\ Ordered(r, sent)
    <2>1. q \in Seq(Callback) /\ Reported(q, b, net) /\ Once(q)
      BY <1>1, <1>2, RestFacts
    <2>2. Subqueue(q, r) /\ Sends(r) = Sends(q)
      BY <1>3, <2>1, FreedFacts
    <2>. QED  BY <1>4, <2>2, SubqueueKeeps
  <1>6. Sends(active') = Sends(active) /\ Ordered(active', sent)
    BY <1>1, <1>2, <1>3, <1>4, <1>5 DEF Lost
  <1>7. bev' = 0 /\ \A c \in Conn : net'[c] = IF c = bev THEN "closed" ELSE net[c]
    BY DEF Lost
  <1>8. net[bev] # "unused" /\ bev \in Conn
    <2>1. bev \in Conn
      BY AVClientAssumption DEF LifeInv, TypeOK, Conn
    <2>. QED  BY <2>1 DEF LifeInv, Alive
  <1>9. \A c \in Conn : net'[c] = "unused" <=> net[c] = "unused"
    BY <1>7, <1>8
  <1>10. InTurn(net', bev', wire)
    BY <1>7, <1>9 DEF SendInv, InTurn
  <1>11. Carried(sent, net', bev', status')
    <2>1. 0 \notin Conn
      BY DEF Conn
    <2>. QED  BY <1>7, <2>1 DEF SendInv, Carried
  <1>12. \A c \in Conn : net[c] = "closed" => net'[c] = "closed"
    BY <1>7
  <1>. QED  BY <1>6, <1>10, <1>11, <1>12, QuietSend

\* A callback is taken and nothing else changes.
LEMMA IgnoreSend ==
    ASSUME LifeInv, SendInv, active # <<>>, Head(active).cb # "do_send_cb",
           active' = Tail(active), UNCHANGED <<status, bev, net, calling, sent, wire>>
    PROVE  SendInv'
  <1>1. PICK q : q = Tail(active)
    OBVIOUS
  <1>2. Sends(q) = Sends(active) /\ Ordered(q, sent)
    BY <1>1, TailSends
  <1>. QED  BY <1>1, <1>2 DEF SendInv

LEMMA CloseSend == ASSUME LifeInv, SendInv, event_cb_EOF \/ do_close_cb PROVE SendInv'
  <1>1. active # <<>> /\ Head(active).cb \in {"EOF", "do_close_cb"}
    BY DEF event_cb_EOF, do_close_cb, Runs
  <1>2. CASE Ignore
    BY <1>1, <1>2, IgnoreSend DEF Ignore, event_cb_EOF, do_close_cb
  <1>3. ASSUME NEW done \in BOOLEAN, Lost(done), bev # 0 PROVE SendInv'
    BY <1>1, <1>3, LostSend DEF event_cb_EOF, do_close_cb
  <1>4. event_cb_EOF /\ ~gone => bev # 0
    <2>1. PICK q : q = Tail(active)
      OBVIOUS
    <2>2. Head(active).cb \in {"CONNECTED", "EOF"} => bev # 0
      BY <1>1, <2>1, RestFacts
    <2>. QED  BY <2>2 DEF event_cb_EOF, Runs
  <1>5. bDone \in BOOLEAN
    BY DEF LifeInv, TypeOK
  <1>. QED  BY <1>2, <1>3, <1>4, <1>5 DEF event_cb_EOF, do_close_cb

\* One more message is accepted: it is newer than all there are.
LEMMA AcceptedSend ==
    ASSUME LifeInv, SendInv, status = "CONNECTED" \/ (bev # 0 /\ net[bev] \in {"up", "broken"}),
           NEW by \in Sender, NEW n \in Size, NEW s, s = Accept(by, n), NEW m, m = Len(s)
    PROVE  /\ Longer(sent, s) /\ m \in 1 .. Len(s) /\ m # 0 /\ s[m].by = by
           /\ Carried(s, net, bev, "CONNECTED")
           /\ Ordered(active, s) /\ InOrder(wire, s)
           /\ Behind(wire, s, Ahead(Sends(active), calling))
           /\ Newest(calling, s, Sends(active))
           /\ \A x \in Sends(active) : x \in 1 .. Len(sent) /\ x < m
           /\ \A c \in Conn : \A k \in 1 .. Len(wire[c]) : wire[c][k].msg < m
           /\ \A x \in 1 .. Len(s) : x # m => x \in 1 .. Len(sent) /\ s[x] = sent[x]
  <1>1. /\ Longer(sent, s) /\ s[Len(s)] = [by |-> by, len |-> n, conn |-> bev]
        /\ Ordered(active, s)
    BY AcceptKeeps DEF LifeInv, Queue, SendInv
  <1>2. /\ Len(sent) \in Nat /\ m = Len(sent) + 1 /\ m \in 1 .. Len(s) /\ m # 0
        /\ \A x \in 1 .. Len(sent) : x \in 1 .. Len(s) /\ s[x] = sent[x] /\ x < m
        /\ \A x \in 1 .. Len(s) : x # m => x \in 1 .. Len(sent)
    BY <1>1 DEF Longer
  <1>3. \A x \in Sends(active) : x \in 1 .. Len(sent)
    BY DEF LifeInv, Queue, Lengths, Sends
  <1>4. bev \in Conn /\ net[bev] \in {"up", "broken"}
    BY AVClientAssumption DEF LifeInv, TypeOK, Believed, Conn
  <1>5. s[m] = [by |-> by, len |-> n, conn |-> bev]
    BY <1>1
  <1>6. Carried(s, net, bev, "CONNECTED")
    <2>1. ASSUME NEW x \in 1 .. Len(s)
          PROVE  s[x].conn \in Conn /\ net[s[x].conn] \in {"up", "broken", "closed"}
      <3>1. CASE x = m
        BY <1>4, <1>5, <3>1
      <3>2. CASE x # m
        BY <1>2, <3>2 DEF SendInv, Carried
      <3>. QED  BY <3>1, <3>2
    <2>. QED  BY <2>1 DEF Carried
  <1>7. \A c \in Conn : \A k \in 1 .. Len(wire[c]) : wire[c][k].msg \in 1 .. Len(sent)
    BY DEF SendInv, Behind
  <1>8. InOrder(wire, s)
    <2>1. ASSUME NEW c \in Conn, NEW d \in Conn, NEW k \in 1 .. Len(wire[c]), NEW l \in 1 .. Len(wire[d]),
                 c < d \/ (c = d /\ k < l), s[wire[c][k].msg].by = s[wire[d][l].msg].by
          PROVE  wire[c][k].msg < wire[d][l].msg
      <3>1. sent[wire[c][k].msg].by = sent[wire[d][l].msg].by
        BY <1>2, <1>7, <2>1
      <3>. QED  BY <2>1, <3>1 DEF SendInv, InOrder
    <2>. QED  BY <2>1 DEF InOrder
  <1>9. \A x \in Ahead(Sends(active), calling) : x \in 1 .. Len(sent)
    <2>1. calling # 0 => calling \in 1 .. Len(sent)
      BY <1>2 DEF LifeInv, TypeOK
    <2>. QED  BY <1>3, <2>1 DEF Ahead
  <1>10. Behind(wire, s, Ahead(Sends(active), calling))
    <2>1. ASSUME NEW c \in Conn, NEW k \in 1 .. Len(wire[c]), NEW x \in Ahead(Sends(active), calling),
                 s[x].by = s[wire[c][k].msg].by
          PROVE  wire[c][k].msg < x
      <3>1. sent[x].by = sent[wire[c][k].msg].by
        BY <1>2, <1>7, <1>9, <2>1
      <3>. QED  BY <3>1 DEF SendInv, Behind
    <2>2. ASSUME NEW c \in Conn, NEW k \in 1 .. Len(wire[c]) PROVE wire[c][k].msg \in 1 .. Len(s)
      BY <1>2, <1>7
    <2>. QED  BY <2>1, <2>2 DEF Behind
  <1>11. Newest(calling, s, Sends(active))
    BY <1>2, <1>3, <1>9 DEF SendInv, Newest, Ahead
  <1>. QED  BY <1>1, <1>2, <1>3, <1>5, <1>6, <1>7, <1>8, <1>10, <1>11

LEMMA SendDataSend == ASSUME LifeInv, SendInv, NEW n \in Size, SendData(n) PROVE SendInv'
  <1>1. PICK s : s = sent'
    OBVIOUS
  <1>2. PICK m : m = Len(s)
    OBVIOUS
  <1>3. s = Accept("control", n) /\ "control" \in Sender
    BY <1>1 DEF SendData, Sender
  <1>4. calling = 0 /\ calling' = m /\ status = "CONNECTED" /\ UNCHANGED <<status, bev, active, net, wire>>
    BY <1>1, <1>2 DEF SendData
  <1>5. /\ Longer(sent, s) /\ m \in 1 .. Len(s) /\ m # 0 /\ s[m].by = "control"
        /\ Carried(s, net, bev, "CONNECTED")
        /\ Ordered(active, s) /\ InOrder(wire, s)
        /\ Behind(wire, s, Ahead(Sends(active), calling))
        /\ \A x \in Sends(active) : x \in 1 .. Len(sent) /\ x < m
        /\ \A c \in Conn : \A k \in 1 .. Len(wire[c]) : wire[c][k].msg < m
        /\ \A x \in 1 .. Len(s) : x # m => x \in 1 .. Len(sent) /\ s[x] = sent[x]
    BY <1>2, <1>3, <1>4, AcceptedSend
  <1>6. Newest(m, s, Sends(active))
    BY <1>5 DEF Newest
  <1>7. Behind(wire, s, Ahead(Sends(active), m))
    BY <1>4, <1>5 DEF Behind, Ahead
  <1>8. Accounted(m, Sends(active), wire, s, net)
    <2>1. ASSUME NEW x \in 1 .. Len(s), x # m
          PROVE  \/ x \in Sends(active) \/ IsWritten(x, wire)
                 \/ s[x].len + 4 > 32767 \/ net[s[x].conn] = "closed"
      <3>1. x # 0
        OBVIOUS
      <3>. QED  BY <1>4, <1>5, <2>1, <3>1 DEF SendInv, Accounted
    <2>. QED  BY <2>1 DEF Accounted
  <1>9. InTurn(net, bev, wire)
    BY DEF SendInv
  <1>. QED  BY <1>1, <1>4, <1>5, <1>6, <1>7, <1>8, <1>9 DEF SendInv

LEMMA ActivateSendSend == ASSUME LifeInv, SendInv, ActivateSend PROVE SendInv'
  <1>1. PICK q : q = active'
    OBVIOUS
  <1>2. PICK m : m = calling
    OBVIOUS
  <1>3. m # 0 /\ calling' = 0 /\ UNCHANGED <<status, bev, net, sent, wire>>
    BY <1>2 DEF ActivateSend
  <1>4. PICK e \in Callback :
            /\ m \in 1 .. Len(sent) /\ Appended(active, e, q) /\ e.cb = "do_send_cb"
            /\ e.msg = m
    BY <1>1, <1>2, ActivateSendQueue
  <1>5. /\ sent[m].by = "control"
        /\ \A x \in Sends(active) : sent[x].by = sent[m].by => x < m
    BY <1>2, <1>3 DEF SendInv, Newest
  <1>6. Sends(q) = Sends(active) \cup {m} /\ Ordered(q, sent)
    <2>1. active \in Seq(Callback) /\ Ordered(active, sent)
      BY DEF LifeInv, TypeOK, SendInv
    <2>2. e.cb \in Timed \cup {"do_send_cb"}
      BY <1>4
    <2>3. /\ Ordered(q, sent)
          /\ Sends(q) = Sends(active) \cup (IF e.cb = "do_send_cb" THEN {e.msg} ELSE {})
      BY <1>4, <1>5, <2>1, <2>2, AppendKeeps
    <2>. QED  BY <1>4, <2>3
  <1>7. Ahead(Sends(q), 0) = Ahead(Sends(active), calling)
    BY <1>2, <1>3, <1>6 DEF Ahead
  <1>8. Newest(0, sent, Sends(q))
    BY DEF Newest
  <1>9. Accounted(0, Sends(q), wire, sent, net)
    BY <1>2, <1>6 DEF SendInv, Accounted
  <1>. QED  BY <1>1, <1>3, <1>6, <1>7, <1>8, <1>9 DEF SendInv

LEMMA ConnectedSend == ASSUME LifeInv, SendInv, event_cb_CONNECTED PROVE SendInv'
  <1>1. PICK q : q = Tail(active)
    OBVIOUS
  <1>2. PICK r : r = active'
    OBVIOUS
  <1>3. PICK s : s = sent'
    OBVIOUS
  <1>4. /\ active # <<>> /\ Head(active).cb = "CONNECTED"
        /\ ~gone /\ bev \in Conn /\ net[bev] \in {"up", "broken"} /\ status' = "CONNECTED"
        /\ \/ r = q /\ s = sent
           \/ \E n \in Size : /\ Len(sent) < MaxSends /\ s = Accept("loop", n)
                              /\ r = Activate(q, SendEvent(Len(s), n))
    BY <1>1, <1>2, <1>3, ConnectedFacts
  <1>5. UNCHANGED <<bev, net, calling, wire>> /\ bev # 0
    BY <1>4 DEF event_cb_CONNECTED, Conn
  <1>6. q \in Seq(Callback) /\ Sends(q) = Sends(active) /\ Ordered(q, sent) /\ Subqueue(active, q)
    <2>1. Head(active).cb # "do_send_cb"
      BY <1>4
    <2>2. PICK a \in Seq(Callback) : a = active
      BY DEF LifeInv, TypeOK
    <2>3. q \in Seq(Callback) /\ Subqueue(a, q)
      BY <1>1, <1>4, <2>2, TailKeeps
    <2>4. Sends(q) = Sends(active) /\ Ordered(q, sent)
      BY <1>1, <1>4, <2>1, TailSends
    <2>. QED  BY <2>2, <2>3, <2>4
  <1>7. CASE r = q /\ s = sent
    <2>1. Carried(sent, net, bev, "CONNECTED")
      BY DEF SendInv, Carried
    <2>. QED  BY <1>2, <1>3, <1>4, <1>5, <1>6, <1>7, <2>1 DEF SendInv
  <1>8. ASSUME NEW n \in Size, Len(sent) < MaxSends, s = Accept("loop", n),
               r = Activate(q, SendEvent(Len(s), n))
        PROVE  SendInv'
    <2>1. PICK m : m = Len(s)
      OBVIOUS
    <2>2. /\ Longer(sent, s) /\ m \in 1 .. Len(s) /\ m # 0 /\ s[m].by = "loop"
          /\ Carried(s, net, bev, "CONNECTED")
          /\ Ordered(active, s) /\ InOrder(wire, s)
          /\ Behind(wire, s, Ahead(Sends(active), calling))
          /\ Newest(calling, s, Sends(active))
          /\ \A x \in Sends(active) : x \in 1 .. Len(sent) /\ x < m
          /\ \A c \in Conn : \A k \in 1 .. Len(wire[c]) : wire[c][k].msg < m
          /\ \A x \in 1 .. Len(s) : x # m => x \in 1 .. Len(sent) /\ s[x] = sent[x]
      <3>1. "loop" \in Sender
        BY DEF Sender
      <3>. QED  BY <1>4, <1>5, <1>8, <2>1, <3>1, AcceptedSend
    <2>3. PICK e \in Callback : Appended(q, e, r) /\ e.cb = "do_send_cb" /\ e.msg = m
      <3>1. active # <<>>
        BY <1>4
      <3>2. \E e \in Callback : /\ Appended(q, e, r) /\ e.cb = "do_send_cb" /\ e.msg = Len(s)
                                /\ e.len = Short(s[e.msg].len + 4) /\ e.msg \in 1 .. Len(s)
        BY <1>1, <1>8, <3>1, LoopSendFacts
      <3>. QED  BY <2>1, <3>2
    <2>4. Ordered(q, s)
      BY <1>6, <2>2, SubqueueKeeps
    <2>5. Sends(r) = Sends(active) \cup {m} /\ Ordered(r, s)
      <3>1. e.cb \in Timed \cup {"do_send_cb"}
        BY <2>3
      <3>2. \A x \in Sends(q) : x < e.msg
        BY <1>6, <2>2, <2>3
      <3>3. /\ Ordered(r, s)
            /\ Sends(r) = Sends(q) \cup (IF e.cb = "do_send_cb" THEN {e.msg} ELSE {})
        BY <1>6, <2>3, <2>4, <3>1, <3>2, AppendKeeps
      <3>. QED  BY <1>6, <2>3, <3>3
    <2>6. Ahead(Sends(r), calling) = Ahead(Sends(active), calling) \cup {m}
      BY <2>5 DEF Ahead
    <2>7. Behind(wire, s, Ahead(Sends(r), calling))
      BY <2>2, <2>6 DEF Behind
    <2>8. Newest(calling, s, Sends(r))
      BY <2>2, <2>5 DEF Newest
    <2>9. Accounted(calling, Sends(r), wire, s, net)
      <3>1. ASSUME NEW x \in 1 .. Len(s), x # m
            PROVE  \/ calling = x \/ x \in Sends(active) \/ IsWritten(x, wire)
                   \/ s[x].len + 4 > 32767 \/ net[s[x].conn] = "closed"
        BY <2>2, <3>1 DEF SendInv, Accounted
      <3>. QED  BY <2>5, <3>1 DEF Accounted
    <2>. QED  BY <1>2, <1>3, <1>4, <1>5, <2>2, <2>5, <2>7, <2>8, <2>9 DEF SendInv
  <1>. QED  BY <1>4, <1>7, <1>8

\* The head of the queue is written at the end of the connection there is.
LEMMA WriteSend ==
    ASSUME LifeInv, SendInv, do_send_cb,
           NEW m, m = Head(active).msg, NEW q, q = Tail(active),
           status = "CONNECTED", Head(active).len > 0
    PROVE  /\ Behind(wire', sent, Ahead(Sends(q), calling)) /\ InOrder(wire', sent)
           /\ InTurn(net, bev, wire') /\ IsWritten(m, wire')
           /\ \A x : IsWritten(x, wire) => IsWritten(x, wire')
  <1>1. PICK w : w = wire'
    OBVIOUS
  <1>2. PICK z \in Conn : z = bev /\ z # 0
    BY WriteFacts DEF Conn
  <1>3. PICK v \in Seq([msg : 1 .. MaxSends, bytes : Nat]) : v = wire[z]
    BY DEF LifeInv, TypeOK
  <1>4. /\ \A c \in Conn : c # z => w[c] = wire[c]
        /\ Len(v) \in Nat /\ Len(w[z]) = Len(v) + 1 /\ w[z] # <<>>
        /\ \A k \in 1 .. Len(v) : w[z][k] = v[k]
        /\ w[z][Len(v) + 1].msg = m
    <2>1. PICK x : x = [msg |-> Head(active).msg, bytes |-> Head(active).len]
      OBVIOUS
    <2>2. w \in [Conn -> Seq([msg : 1 .. MaxSends, bytes : Nat])] /\ w[z] = Append(v, x)
          /\ \A c \in Conn : c # z => w[c] = wire[c]
      BY <1>1, <1>2, <1>3, <2>1, WriteFacts
    <2>3. Len(v) \in Nat /\ Len(w[z]) = Len(v) + 1 /\ w[z][Len(v) + 1] = x
          /\ \A k \in 1 .. Len(v) : w[z][k] = v[k]
      <3>1. Len(v) \in Nat
        OBVIOUS
      <3>. QED  BY <2>2, <3>1
    <2>4. x.msg = m
      BY <2>1
    <2>. QED  BY <2>2, <2>3, <2>4
  <1>5. ASSUME NEW c \in Conn, NEW k \in 1 .. Len(w[c])
        PROVE  \/ k \in 1 .. Len(wire[c]) /\ w[c][k] = wire[c][k]
               \/ c = z /\ k = Len(v) + 1 /\ w[c][k].msg = m
    <2>1. CASE c # z
      BY <1>4, <2>1
    <2>2. CASE c = z
      BY <1>3, <1>4, <2>2
    <2>. QED  BY <2>1, <2>2
  <1>6. ASSUME NEW c \in Conn, NEW k \in 1 .. Len(wire[c])
        PROVE  k \in 1 .. Len(w[c]) /\ w[c][k] = wire[c][k]
    <2>1. CASE c # z
      BY <1>4, <2>1
    <2>2. CASE c = z
      BY <1>3, <1>4, <2>2
    <2>. QED  BY <2>1, <2>2
  <1>7. PICK a \in Seq(Callback) : a = active
    BY DEF LifeInv, TypeOK
  <1>8. a # <<>> /\ Head(a).cb = "do_send_cb" /\ q = Tail(a) /\ m = Head(a).msg
    BY <1>7 DEF do_send_cb, Runs
  <1>9. /\ Sends(a) = Sends(q) \cup {m}
        /\ \A x \in Sends(q) : sent[m].by = sent[x].by => m < x
    <2>1. Ordered(a, sent)
      BY <1>7 DEF SendInv
    <2>2. /\ Sends(a) = Sends(q) \cup (IF Head(a).cb = "do_send_cb" THEN {Head(a).msg} ELSE {})
          /\ Head(a).cb = "do_send_cb" => \A x \in Sends(q) : sent[Head(a).msg].by = sent[x].by => Head(a).msg < x
      BY <1>8, <2>1, TailKeeps
    <2>. QED  BY <1>8, <2>2
  <1>10. m \in 1 .. Len(sent)
    BY WriteFacts
  <1>11. /\ m \in Ahead(Sends(active), calling)
         /\ Ahead(Sends(q), calling) \subseteq Ahead(Sends(active), calling)
    BY <1>7, <1>9 DEF Ahead
  <1>12. ASSUME NEW x \in Ahead(Sends(q), calling), sent[m].by = sent[x].by PROVE m < x
    <2>1. CASE x \in Sends(q)
      BY <1>9, <1>12, <2>1
    <2>2. CASE x = calling /\ calling # 0
      BY <1>7, <1>9, <1>12, <2>2 DEF SendInv, Newest
    <2>. QED  BY <2>1, <2>2 DEF Ahead
  <1>13. Behind(w, sent, Ahead(Sends(q), calling))
    <2>1. ASSUME NEW c \in Conn, NEW k \in 1 .. Len(w[c])
          PROVE  /\ w[c][k].msg \in 1 .. Len(sent)
                 /\ \A x \in Ahead(Sends(q), calling) : sent[x].by = sent[w[c][k].msg].by => w[c][k].msg < x
      <3>1. CASE k \in 1 .. Len(wire[c]) /\ w[c][k] = wire[c][k]
        BY <1>11, <3>1 DEF SendInv, Behind
      <3>2. CASE w[c][k].msg = m
        BY <1>10, <1>12, <3>2
      <3>. QED  BY <1>5, <3>1, <3>2
    <2>. QED  BY <2>1 DEF Behind
  <1>14. \A d \in Conn : z < d => wire[d] = <<>> /\ w[d] = <<>>
    <2>1. \A d \in Conn : z < d => wire[d] = <<>>
      BY <1>2 DEF SendInv, InTurn
    <2>. QED  BY <1>4, <2>1 DEF Conn
  <1>15. InOrder(w, sent)
    <2>1. ASSUME NEW c \in Conn, NEW d \in Conn, NEW k \in 1 .. Len(w[c]), NEW l \in 1 .. Len(w[d]),
                 c < d \/ (c = d /\ k < l), sent[w[c][k].msg].by = sent[w[d][l].msg].by
          PROVE  w[c][k].msg < w[d][l].msg
      <3>1. k \in 1 .. Len(wire[c]) /\ w[c][k] = wire[c][k]
        <4>1. ~(c = z /\ k = Len(v) + 1)
          <5>1. ASSUME c = z, k = Len(v) + 1 PROVE FALSE
            <6>1. ~(z < d)
              <7>1. w[d] # <<>>
                BY <2>1
              <7>. QED  BY <1>14, <7>1
            <6>2. c = d /\ k < l
              BY <2>1, <5>1, <6>1
            <6>3. l <= Len(v) + 1 /\ l \in Int
              BY <1>4, <5>1, <6>2
            <6>. QED  BY <1>4, <5>1, <6>2, <6>3
          <5>. QED  BY <5>1
        <4>. QED  BY <1>5, <4>1
      <3>2. CASE l \in 1 .. Len(wire[d]) /\ w[d][l] = wire[d][l]
        BY <2>1, <3>1, <3>2 DEF SendInv, InOrder
      <3>3. CASE w[d][l].msg = m
        BY <1>11, <2>1, <3>1, <3>3 DEF SendInv, Behind
      <3>. QED  BY <1>5, <3>2, <3>3
    <2>. QED  BY <2>1 DEF InOrder
  <1>16. InTurn(net, bev, w)
    <2>1. net[z] # "unused"
      BY <1>2 DEF LifeInv, Alive
    <2>2. ASSUME NEW c \in Conn, w[c] # <<>> PROVE net[c] # "unused"
      BY <1>4, <2>1, <2>2 DEF SendInv, InTurn
    <2>. QED  BY <2>2 DEF SendInv, InTurn
  <1>17. IsWritten(m, w)
    <2>1. Len(v) + 1 \in 1 .. Len(w[z])
      BY <1>4
    <2>. QED  BY <1>4, <2>1 DEF IsWritten
  <1>18. ASSUME NEW x, IsWritten(x, wire) PROVE IsWritten(x, w)
    <2>1. PICK c \in Conn : \E k \in 1 .. Len(wire[c]) : wire[c][k].msg = x
      BY <1>18 DEF IsWritten
    <2>2. PICK k \in 1 .. Len(wire[c]) : wire[c][k].msg = x
      BY <2>1
    <2>. QED  BY <1>6, <2>2 DEF IsWritten
  <1>. QED  BY <1>1, <1>13, <1>15, <1>16, <1>17, <1>18

\* What a short int makes of a length is positive, and the length, up to 32767.
LEMMA ShortFits == \A n \in Nat : n <= 32767 => Short(n) = n
  <1>1. SUFFICES ASSUME NEW n \in Nat, n <= 32767 PROVE Short(n) = n
    OBVIOUS
  <1>2. PICK y \in Nat : y = n + 32768 /\ y < 65536
    BY <1>1
  <1>3. y % 65536 = y
    BY <1>2
  <1>. QED  BY <1>2, <1>3 DEF Short

\* From 32768 on it is negative.
LEMMA Wrapped ==
    ASSUME NEW n \in Int, 32768 <= n, n < 65536, NEW r, r = (n + 32768) % 65536,
           NEW d \in Int, d = (n + 32768) \div 65536
    PROVE  r = n - 32768
  <1>1. r \in Int /\ 0 <= r /\ r < 65536
    OBVIOUS
  <1>2. n + 32768 = 65536 * d + r
    OBVIOUS
  <1>3. d = 1
    BY <1>1, <1>2
  <1>. QED  BY <1>2, <1>3

LEMMA ShortWraps == \A n \in Nat : n < 65536 /\ Short(n) > 0 => Short(n) = n
  <1>1. SUFFICES ASSUME NEW n \in Nat, n < 65536, ~(n <= 32767) PROVE ~(Short(n) > 0)
    BY ShortFits
  <1>2. n \in Int /\ 32768 <= n
    BY <1>1
  <1>3. PICK d \in Int : d = (n + 32768) \div 65536
    OBVIOUS
  <1>4. PICK r : r = (n + 32768) % 65536
    OBVIOUS
  <1>5. r = n - 32768
    BY <1>1, <1>2, <1>3, <1>4, Wrapped
  <1>6. Short(n) = n - 65536
    BY <1>4, <1>5 DEF Short
  <1>. QED  BY <1>1, <1>6

LEMMA do_send_cbSend == ASSUME LifeInv, SendInv, do_send_cb PROVE SendInv'
  <1>1. PICK q : q = Tail(active)
    OBVIOUS
  <1>2. PICK m : m = Head(active).msg
    OBVIOUS
  <1>3. active' = q /\ UNCHANGED <<status, bev, net, calling, sent>>
    BY <1>1 DEF do_send_cb
  <1>4. Sends(active) = Sends(q) \cup {m} /\ Ordered(q, sent)
    <2>1. PICK a \in Seq(Callback) : a = active
      BY DEF LifeInv, TypeOK
    <2>2. a # <<>> /\ Head(a).cb = "do_send_cb" /\ q = Tail(a) /\ m = Head(a).msg /\ Ordered(a, sent)
      BY <1>1, <1>2, <2>1 DEF do_send_cb, Runs, SendInv
    <2>3. /\ Ordered(q, sent)
          /\ Sends(a) = Sends(q) \cup (IF Head(a).cb = "do_send_cb" THEN {Head(a).msg} ELSE {})
      BY <2>2, TailKeeps
    <2>. QED  BY <2>1, <2>2, <2>3
  <1>5. Newest(calling, sent, Sends(q))
    BY <1>4 DEF SendInv, Newest
  <1>6. m \in 1 .. Len(sent) /\ Head(active).len = Short(sent[m].len + 4)
    BY <1>2, WriteFacts
  <1>7. /\ Behind(wire', sent, Ahead(Sends(q), calling)) /\ InOrder(wire', sent)
        /\ InTurn(net, bev, wire')
        /\ \A x : IsWritten(x, wire) => IsWritten(x, wire')
        /\ IsWritten(m, wire') \/ sent[m].len + 4 > 32767 \/ net[sent[m].conn] = "closed"
    <2>1. CASE status = "CONNECTED" /\ Head(active).len > 0
      <3>1. status = "CONNECTED" /\ Head(active).len > 0
        BY <2>1
      <3>2. /\ Behind(wire', sent, Ahead(Sends(q), calling)) /\ InOrder(wire', sent)
            /\ InTurn(net, bev, wire') /\ IsWritten(m, wire')
            /\ \A x : IsWritten(x, wire) => IsWritten(x, wire')
        BY <1>1, <1>2, <3>1, WriteSend
      <3>. QED  BY <3>2
    <2>2. CASE ~(status = "CONNECTED" /\ Head(active).len > 0)
      <3>1. wire' = wire
        BY <2>2, WriteFacts
      <3>2. Ahead(Sends(q), calling) \subseteq Ahead(Sends(active), calling)
        BY <1>4 DEF Ahead
      <3>3. CASE status # "CONNECTED"
        <4>1. net[sent[m].conn] = "closed"
          BY <1>6, <3>3 DEF LifeInv, Alive, SendInv, Carried
        <4>. QED  BY <3>1, <3>2, <4>1 DEF SendInv, Behind
      <3>4. CASE ~(Head(active).len > 0)
        <4>1. PICK n \in Nat : n = sent[m].len + 4 /\ n > 0
          <5>1. sent[m].len \in Nat
            <6>1. sent[m] \in Accepted
              BY <1>6, ElementOfSeq DEF LifeInv, TypeOK, Accepted
            <6>. QED  BY <6>1, AVClientAssumption DEF Accepted
          <5>. QED  BY <5>1
        <4>2. n > 32767
          BY <1>6, <3>4, <4>1, ShortFits
        <4>. QED  BY <3>1, <3>2, <4>1, <4>2 DEF SendInv, Behind
      <3>. QED  BY <2>2, <3>3, <3>4
    <2>. QED  BY <2>1, <2>2
  <1>8. Accounted(calling, Sends(q), wire', sent, net)
    BY <1>4, <1>7 DEF SendInv, Accounted
  <1>9. Carried(sent, net, bev, status)
    BY DEF SendInv
  <1>. QED  BY <1>3, <1>4, <1>5, <1>7, <1>8, <1>9 DEF SendInv

LEMMA SendNext == LifeInv /\ SendInv /\ [Next]_vars => SendInv'
  <1>1. SUFFICES ASSUME LifeInv, SendInv, [Next]_vars PROVE SendInv'
    OBVIOUS
  <1>2. CASE Connect \/ Disconnect
    BY <1>1, <1>2, ConnectSend
  <1>3. CASE ActivateSend
    BY <1>1, <1>3, ActivateSendSend
  <1>4. ASSUME NEW n \in Size, SendData(n) PROVE SendInv'
    BY <1>1, <1>4, SendDataSend
  <1>5. ASSUME NEW c \in Timed, FireTimer(c) PROVE SendInv'
    BY <1>1, <1>5, FireTimerSend
  <1>6. ASSUME NEW c \in Conn, Establish(c) \/ Break(c) PROVE SendInv'
    BY <1>1, <1>6, ReportSend
  <1>7. CASE do_conn_cb \/ do_reconn_cb
    BY <1>1, <1>7, PlanSend
  <1>8. CASE event_cb_EOF \/ do_close_cb
    BY <1>1, <1>8, CloseSend
  <1>9. CASE do_send_cb
    BY <1>1, <1>9, do_send_cbSend
  <1>10. CASE event_cb_CONNECTED
    BY <1>1, <1>10, ConnectedSend
  <1>11. CASE UNCHANGED vars
    BY <1>1, <1>11 DEF vars, SendInv
  <1>. QED
    BY <1>1, <1>2, <1>3, <1>4, <1>5, <1>6, <1>7, <1>8, <1>9, <1>10, <1>11 DEF Next, LoopStep

LEMMA Sending == Spec => [](LifeInv /\ SendInv)
  BY LifeInit, LifeNext, SendInit, SendNext, PTL DEF Spec

\* No message is written twice, and what one thread sends is written in the order
\* it sent it, whatever reconnects lie between.
THEOREM InSendOrder == Spec => []SendOrder
  <1>1. LifeInv /\ SendInv => SendOrder
    <2>1. SUFFICES ASSUME LifeInv, SendInv, NEW m \in Message, NEW n \in Message,
                          NEW a \in Places(m), NEW b \in Places(n)
                   PROVE  /\ m = n => a = b
                          /\ m < n /\ sent[m].by = sent[n].by =>
                               a[1] < b[1] \/ (a[1] = b[1] /\ a[2] < b[2])
      BY DEF SendOrder
    <2>2. PICK c \in Conn : a \in {c} \X {k \in 1 .. Len(wire[c]) : wire[c][k].msg = m}
      BY <2>1 DEF Places
    <2>3. PICK d \in Conn : b \in {d} \X {k \in 1 .. Len(wire[d]) : wire[d][k].msg = n}
      BY <2>1 DEF Places
    <2>4. PICK k \in 1 .. Len(wire[c]) : a = <<c, k>> /\ wire[c][k].msg = m
      BY <2>2
    <2>5. PICK l \in 1 .. Len(wire[d]) : b = <<d, l>> /\ wire[d][l].msg = n
      BY <2>3
    <2>6. InOrder(wire, sent)
      BY <2>1 DEF SendInv
    <2>7. c \in Int /\ d \in Int /\ k \in Int /\ l \in Int /\ m \in Int /\ n \in Int
      BY DEF Conn, Message
    <2>8. sent[m].by = sent[n].by /\ (c < d \/ (c = d /\ k < l)) => m < n
      BY <2>4, <2>5, <2>6 DEF InOrder
    <2>9. sent[m].by = sent[n].by /\ (d < c \/ (d = c /\ l < k)) => n < m
      BY <2>4, <2>5, <2>6 DEF InOrder
    <2>10. ASSUME m = n PROVE c = d /\ k = l
      BY <2>7, <2>8, <2>9, <2>10
    <2>11. ASSUME m < n, sent[m].by = sent[n].by PROVE c < d \/ (c = d /\ k < l)
      <3>1. c = d => k # l
        BY <2>4, <2>5, <2>7, <2>11
      <3>. QED  BY <2>7, <2>9, <2>11, <3>1
    <2>. QED  BY <2>4, <2>5, <2>10, <2>11
  <1>. QED  BY Sending, <1>1, PTL

\* A message eAVClient accepted, whose length a short int holds, is dropped only
\* together with the connection it was accepted on.
THEOREM DroppedOnlyWithConnection == Spec => []DroppedWithItsConnection
  <1>1. LifeInv /\ SendInv => DroppedWithItsConnection
    <2>1. SUFFICES ASSUME LifeInv, SendInv, NEW m \in Message
                   PROVE  \/ calling = m \/ (\E i \in Queued("do_send_cb") : active[i].msg = m)
                          \/ Places(m) # {} \/ sent[m].len + 4 > 32767
                          \/ sent[m].conn # 0 /\ net[sent[m].conn] = "closed"
      BY DEF DroppedWithItsConnection
    <2>2. \/ calling = m \/ m \in Sends(active) \/ IsWritten(m, wire)
          \/ sent[m].len + 4 > 32767 \/ net[sent[m].conn] = "closed"
      BY <2>1 DEF SendInv, Accounted, Message
    <2>3. sent[m].conn # 0
      BY <2>1 DEF SendInv, Carried, Message, Conn
    <2>4. m \in Sends(active) => \E i \in Queued("do_send_cb") : active[i].msg = m
      BY DEF Sends, Queued
    <2>5. ASSUME IsWritten(m, wire) PROVE Places(m) # {}
      <3>1. PICK c \in Conn : \E k \in 1 .. Len(wire[c]) : wire[c][k].msg = m
        BY <2>5 DEF IsWritten
      <3>2. PICK k \in 1 .. Len(wire[c]) : wire[c][k].msg = m
        BY <3>1
      <3>3. <<c, k>> \in {c} \X {j \in 1 .. Len(wire[c]) : wire[c][j].msg = m}
        BY <3>2
      <3>. QED  BY <3>3 DEF Places
    <2>. QED  BY <2>2, <2>3, <2>4, <2>5
  <1>. QED  BY Sending, <1>1, PTL

\* If no message is 64 KiB long or longer, what do_send_cb writes of a message is all
\* of it and its header.  (A longer one is cut by the short int: SendData takes
\* any unsigned length.)
ShortMessages == \A n \in Size : n + 4 < 65536

THEOREM WrittenWhole == ShortMessages => (Spec => []WholeMessages)
  <1>. SUFFICES ASSUME ShortMessages PROVE Spec => []WholeMessages
    OBVIOUS
  <1>1. Init => WholeMessages
    <2>1. SUFFICES ASSUME Init, NEW c \in Conn PROVE 1 .. Len(wire[c]) = {}
      BY DEF WholeMessages
    <2>. QED  BY <2>1 DEF Init
  <1>2. ASSUME LifeInv, SendInv, WholeMessages, [Next]_vars PROVE WholeMessages'
    <2>1. ASSUME NEW s, Longer(sent, s), sent' = s, UNCHANGED wire PROVE WholeMessages'
      <3>1. \A c \in Conn : \A k \in 1 .. Len(wire[c]) : s[wire[c][k].msg] = sent[wire[c][k].msg]
        BY <1>2, <2>1 DEF SendInv, Behind, Longer
      <3>. QED  BY <1>2, <2>1, <3>1 DEF WholeMessages
    <2>2. ASSUME NEW by \in Sender, NEW n \in Size, sent' = Accept(by, n), UNCHANGED wire
          PROVE  WholeMessages'
      <3>1. PICK s : s = sent'
        OBVIOUS
      <3>2. s = Accept(by, n) /\ TypeOK
        BY <1>2, <2>2, <3>1 DEF LifeInv
      <3>3. Longer(sent, s)
        BY <3>2, AcceptKeeps
      <3>. QED  BY <2>1, <2>2, <3>1, <3>3
    <2>3. CASE UNCHANGED <<sent, wire>>
      BY <1>2, <2>3 DEF WholeMessages
    <2>4. ASSUME NEW n \in Size, SendData(n) PROVE WholeMessages'
      BY <2>2, <2>4 DEF SendData, Sender
    <2>5. CASE event_cb_CONNECTED
      BY <2>2, <2>3, <2>5 DEF event_cb_CONNECTED, Sender
    <2>6. CASE do_send_cb
      <3>1. PICK h : h = Head(active)
        OBVIOUS
      <3>2. UNCHANGED sent
        BY <2>6 DEF do_send_cb
      <3>3. CASE ~(status = "CONNECTED" /\ h.len > 0)
        <4>1. wire' = wire
          BY <1>2, <2>6, <3>1, <3>3, WriteFacts
        <4>. QED  BY <2>3, <3>2, <4>1
      <3>4. CASE status = "CONNECTED" /\ h.len > 0
        <4>1. /\ bev \in Conn /\ h.msg \in 1 .. Len(sent) /\ h.len = Short(sent[h.msg].len + 4)
              /\ \A c \in Conn : c # bev => wire'[c] = wire[c]
              /\ wire'[bev] = Append(wire[bev], [msg |-> h.msg, bytes |-> h.len])
          BY <1>2, <2>6, <3>1, <3>4, WriteFacts
        <4>2. PICK n \in Nat : n = sent[h.msg].len + 4 /\ n < 65536
          <5>1. sent[h.msg] \in Accepted
            BY <1>2, <4>1, ElementOfSeq DEF LifeInv, TypeOK, Accepted
          <5>2. sent[h.msg].len \in Size
            BY <5>1 DEF Accepted
          <5>3. PICK l \in Size : l = sent[h.msg].len
            BY <5>2
          <5>4. l \in Nat /\ l + 4 < 65536
            BY AVClientAssumption DEF ShortMessages
          <5>. QED  BY <5>3, <5>4
        <4>3. h.len = n
          BY <3>4, <4>1, <4>2, ShortWraps
        <4>4. PICK b \in Conn : b = bev
          BY <4>1
        <4>5. PICK v \in Seq([msg : 1 .. MaxSends, bytes : Nat]) : v = wire[b]
          BY <1>2 DEF LifeInv, TypeOK
        <4>6. PICK x : x = [msg |-> h.msg, bytes |-> h.len]
          OBVIOUS
        <4>7. x.bytes = sent[x.msg].len + 4
          BY <4>2, <4>3, <4>6
        <4>8. /\ Len(v) \in Nat /\ Len(Append(v, x)) = Len(v) + 1 /\ Append(v, x)[Len(v) + 1] = x
              /\ \A k \in 1 .. Len(v) : Append(v, x)[k] = v[k]
          <5>1. Len(v) \in Nat
            OBVIOUS
          <5>2. Len(Append(v, x)) = Len(v) + 1
            OBVIOUS
          <5>3. Append(v, x)[Len(v) + 1] = x /\ \A k \in 1 .. Len(v) : Append(v, x)[k] = v[k]
            BY <5>1
          <5>. QED  BY <5>1, <5>2, <5>3
        <4>9. wire'[b] = Append(v, x)
          BY <4>1, <4>4, <4>5, <4>6
        <4>10. ASSUME NEW c \in Conn, NEW k \in 1 .. Len(wire'[c])
               PROVE  wire'[c][k].bytes = sent[wire'[c][k].msg].len + 4
          <5>1. CASE c # b
            <6>1. wire'[c] = wire[c]
              BY <4>1, <4>4, <5>1
            <6>. QED  BY <1>2, <6>1 DEF WholeMessages
          <5>2. CASE c = b /\ k = Len(v) + 1
            BY <4>7, <4>8, <4>9, <5>2
          <5>3. CASE c = b /\ k # Len(v) + 1
            <6>1. k \in 1 .. Len(v)
              BY <4>8, <4>9, <5>3
            <6>2. wire'[c][k] = wire[c][k] /\ k \in 1 .. Len(wire[c])
              BY <4>4, <4>5, <4>8, <4>9, <5>3, <6>1
            <6>. QED  BY <1>2, <6>2 DEF WholeMessages
          <5>. QED  BY <5>1, <5>2, <5>3
        <4>. QED  BY <3>2, <4>10 DEF WholeMessages
      <3>. QED  BY <3>3, <3>4
    <2>. QED
      BY <1>2, <2>3, <2>4, <2>5, <2>6
         DEF Next, LoopStep, vars, Connect, Disconnect, ActivateSend, FireTimer, Establish, Break,
             Reports, do_conn_cb, do_reconn_cb, do_close_cb, event_cb_EOF
  <1>. QED  BY Sending, <1>1, <1>2, PTL DEF Spec
=============================================================================
