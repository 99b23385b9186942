-------------------------- MODULE Deframer_proofs --------------------------
(***************************************************************************)
(* Theorems about Deframer, for any packages, any way TCP cuts the stream  *)
(* into chunks, and any number of connections.                             *)
(***************************************************************************)
EXTENDS Deframer, FiniteSetTheorems, SequenceTheorems, TLAPS

USE DeframerAssumption

\* A set of numbers that is not empty has a least one: what the facts about a function
\* that is defined by recursion rest on here.
LEMMA LeastOfNaturals ==
    ASSUME NEW S, S \subseteq Nat, S # {}
    PROVE  \E x \in S : \A y \in S : x <= y
  <1>1. PICK x \in S : \A y \in S : ~ (<<y, x>> \in OpToRel(<, Nat))
    BY WFMin, NatLessThanWellFounded
  <1>2. ASSUME NEW y \in S, y < x PROVE FALSE
    <2>1. <<y, x>> \in {p \in Nat \X Nat : p[1] < p[2]}
      BY <1>2
    <2>. QED  BY <1>1, <2>1 DEF OpToRel
  <1>. QED  BY <1>2

----------------------------------------------------------------------------
(* The stream *)

LEMMA PayloadType ==
    /\ Len(Payload) \in Nat
    /\ \A f \in 1 .. Len(Payload) : Payload[f] \in Nat
  OBVIOUS

\* Beginnings of the packages up to the n-th
StartsUpTo(g, n) ==
    g = [f \in 1 .. n |-> IF f = 1 THEN 0 ELSE g[f - 1] + HEAD_SIZE + Payload[f - 1]]

LEMMA StartsExist == \A n \in 0 .. Len(Payload) + 1 : \E g : StartsUpTo(g, n)
  <1>. DEFINE Bad == {n \in Nat : n <= Len(Payload) + 1 /\ ~ \E g : StartsUpTo(g, n)}
  <1>1. ASSUME Bad # {} PROVE FALSE
    <2>1. PICK n \in Bad : \A m \in Bad : n <= m
      BY <1>1, LeastOfNaturals
    <2>2. n \in Nat /\ n <= Len(Payload) + 1 /\ ~ \E g : StartsUpTo(g, n)
      OBVIOUS
    <2>3. n # 0
      <3>1. PICK g : g = [f \in 1 .. 0 |-> 0]
        OBVIOUS
      <3>2. StartsUpTo(g, 0)
        BY <3>1 DEF StartsUpTo
      <3>. QED  BY <2>2, <3>2
    <2>4. PICK m \in Nat : n = m + 1
      <3>1. n - 1 \in Nat /\ n = (n - 1) + 1
        BY <2>2, <2>3
      <3>. QED  BY <3>1
    <2>5. PICK g : StartsUpTo(g, m)
      <3>1. m \notin Bad
        BY <2>1, <2>4
      <3>. QED  BY <2>2, <2>4, <3>1, PayloadType
    <2>6. \A f \in 1 .. m : g[f] = IF f = 1 THEN 0
                                  ELSE g[f - 1] + HEAD_SIZE + Payload[f - 1]
      BY <2>5 DEF StartsUpTo
    <2>7. PICK h : h = [f \in 1 .. n |-> IF f \in 1 .. m THEN g[f] ELSE IF f = 1 THEN 0
                                          ELSE g[f - 1] + HEAD_SIZE + Payload[f - 1]]
      OBVIOUS
    <2>8. h = [f \in 1 .. n |-> IF f = 1 THEN 0 ELSE h[f - 1] + HEAD_SIZE + Payload[f - 1]]
      <3>1. ASSUME NEW f \in 1 .. n
            PROVE  h[f] = IF f = 1 THEN 0 ELSE h[f - 1] + HEAD_SIZE + Payload[f - 1]
        <4>1. h[f] = IF f \in 1 .. m THEN g[f] ELSE IF f = 1 THEN 0
                     ELSE g[f - 1] + HEAD_SIZE + Payload[f - 1]
          BY <2>7
        <4>2. f # 1 => f - 1 \in 1 .. m /\ f - 1 \in 1 .. n
          BY <2>4
        <4>3. f # 1 => h[f - 1] = g[f - 1]
          BY <2>7, <4>2
        <4>. QED  BY <2>6, <4>1, <4>3
      <3>2. PICK e : e = [f \in 1 .. n |-> IF f = 1 THEN 0
                                           ELSE h[f - 1] + HEAD_SIZE + Payload[f - 1]]
        OBVIOUS
      <3>3. DOMAIN h = 1 .. n /\ h = [f \in 1 .. n |-> h[f]]
        BY <2>7
      <3>4. \A f \in 1 .. n : h[f] = e[f]
        BY <3>1, <3>2
      <3>5. h = e
        BY <3>2, <3>3, <3>4
      <3>. QED  BY <3>2, <3>5
    <2>. QED  BY <2>2, <2>8 DEF StartsUpTo
  <1>2. ASSUME NEW n \in 0 .. Len(Payload) + 1 PROVE \E g : StartsUpTo(g, n)
    <2>1. n \in Nat /\ n <= Len(Payload) + 1 /\ n \notin Bad
      BY <1>1, PayloadType
    <2>. QED  BY <2>1
  <1>. QED  BY <1>2

LEMMA StartIs ==
    Start = [f \in 1 .. (Len(Payload) + 1) |->
                IF f = 1 THEN 0 ELSE Start[f - 1] + HEAD_SIZE + Payload[f - 1]]
  <1>1. Len(Payload) + 1 \in 0 .. Len(Payload) + 1
    BY PayloadType
  <1>2. \E g : g = [f \in 1 .. (Len(Payload) + 1) |->
                       IF f = 1 THEN 0 ELSE g[f - 1] + HEAD_SIZE + Payload[f - 1]]
    BY <1>1, StartsExist DEF StartsUpTo
  <1>. QED  BY <1>2 DEF Start

LEMMA StartType == \A f \in 1 .. Len(Payload) + 1 : Start[f] \in Nat
  <1>. DEFINE Bad == {n \in Nat : n \in 1 .. Len(Payload) + 1 /\ Start[n] \notin Nat}
  <1>1. ASSUME Bad # {} PROVE FALSE
    <2>1. PICK n \in Bad : \A m \in Bad : n <= m
      BY <1>1, LeastOfNaturals
    <2>2. n \in 1 .. Len(Payload) + 1 /\ Start[n] \notin Nat
      OBVIOUS
    <2>3. Start[n] = IF n = 1 THEN 0 ELSE Start[n - 1] + HEAD_SIZE + Payload[n - 1]
      BY <2>2, StartIs
    <2>4. n # 1
      BY <2>2, <2>3
    <2>5. n - 1 \in Nat /\ n - 1 \in 1 .. Len(Payload) + 1 /\ n - 1 < n
          /\ n - 1 \in 1 .. Len(Payload)
      BY <2>2, <2>4, PayloadType
    <2>6. n - 1 \notin Bad
      BY <2>1, <2>5
    <2>7. Start[n - 1] \in Nat /\ Payload[n - 1] \in Nat
      BY <2>5, <2>6, PayloadType
    <2>. QED  BY <2>2, <2>3, <2>4, <2>7 DEF HEAD_SIZE
  <1>2. ASSUME NEW n \in 1 .. Len(Payload) + 1 PROVE Start[n] \in Nat
    <2>1. n \in Nat /\ n \notin Bad
      BY <1>1, PayloadType
    <2>. QED  BY <2>1
  <1>. QED  BY <1>2

LEMMA StartStep ==
    /\ Start[1] = 0
    /\ \A f \in 1 .. Len(Payload) : /\ Start[f + 1] = Start[f] + HEAD_SIZE + Payload[f]
                                    /\ f \in 1 .. Len(Payload) + 1
                                    /\ f + 1 \in 1 .. Len(Payload) + 1
  <1>1. 1 \in 1 .. Len(Payload) + 1
    BY PayloadType
  <1>2. Start[1] = 0
    BY <1>1, StartIs
  <1>3. ASSUME NEW f \in 1 .. Len(Payload)
        PROVE  /\ Start[f + 1] = Start[f] + HEAD_SIZE + Payload[f]
               /\ f \in 1 .. Len(Payload) + 1 /\ f + 1 \in 1 .. Len(Payload) + 1
    <2>1. /\ f \in 1 .. Len(Payload) + 1 /\ f + 1 \in 1 .. Len(Payload) + 1
          /\ f + 1 # 1 /\ (f + 1) - 1 = f
      BY PayloadType
    <2>2. Start[f + 1] = IF f + 1 = 1 THEN 0
                         ELSE Start[(f + 1) - 1] + HEAD_SIZE + Payload[(f + 1) - 1]
      BY <2>1, StartIs
    <2>. QED  BY <2>1, <2>2
  <1>. QED  BY <1>2, <1>3

\* Packages follow one another.
LEMMA StartsGrow ==
    ASSUME NEW a \in 1 .. Len(Payload) + 1
    PROVE  \A b \in 1 .. Len(Payload) + 1 : a < b => Start[a + 1] <= Start[b]
  <1>. DEFINE Bad == {b \in Nat : b \in 1 .. Len(Payload) + 1 /\ a < b
                                  /\ ~(Start[a + 1] <= Start[b])}
  <1>1. ASSUME Bad # {} PROVE FALSE
    <2>1. PICK b \in Bad : \A c \in Bad : b <= c
      BY <1>1, LeastOfNaturals
    <2>2. b \in 1 .. Len(Payload) + 1 /\ a < b /\ ~(Start[a + 1] <= Start[b])
      OBVIOUS
    <2>3. a + 1 \in 1 .. Len(Payload) + 1 /\ Start[a + 1] \in Nat
      <3>1. a + 1 \in 1 .. Len(Payload) + 1
        BY <2>2, PayloadType
      <3>. QED  BY <3>1, StartType
    <2>4. b # a + 1
      BY <2>2, <2>3
    <2>5. PICK c \in Nat : /\ b = c + 1 /\ c \in 1 .. Len(Payload) /\ a < c
                           /\ c \in 1 .. Len(Payload) + 1
      <3>1. /\ b - 1 \in Nat /\ b = (b - 1) + 1 /\ b - 1 \in 1 .. Len(Payload) /\ a < b - 1
            /\ b - 1 \in 1 .. Len(Payload) + 1
        BY <2>2, <2>4, PayloadType
      <3>. QED  BY <3>1
    <2>6. Start[a + 1] <= Start[c]
      <3>1. c \notin Bad
        BY <2>1, <2>5
      <3>. QED  BY <2>5, <3>1
    <2>7. Start[b] = Start[c] + HEAD_SIZE + Payload[c]
      BY <2>5, StartStep
    <2>8. PICK x \in Nat : x = Start[c]
      BY <2>5, StartType
    <2>9. PICK y \in Nat : y = Payload[c]
      BY <2>5, PayloadType
    <2>10. PICK z \in Nat : z = Start[a + 1]
      BY <2>3
    <2>11. Start[b] = x + 4 + y /\ z <= x
      BY <2>6, <2>7, <2>8, <2>9, <2>10 DEF HEAD_SIZE
    <2>12. z <= x + 4 + y
      BY <2>11
    <2>. QED  BY <2>2, <2>10, <2>11, <2>12
  <1>2. ASSUME NEW b \in 1 .. Len(Payload) + 1, a < b PROVE Start[a + 1] <= Start[b]
    <2>1. b \in Nat
      BY PayloadType
    <2>2. b \notin Bad
      BY <1>1
    <2>. QED  BY <1>2, <2>1, <2>2
  <1>. QED  BY <1>2

----------------------------------------------------------------------------
(* Bytes of the stream *)

LEMMA BytesType ==
    ASSUME NEW a \in Nat, NEW n \in Nat
    PROVE  /\ Bytes(a, n) \in Seq(Nat) /\ Len(Bytes(a, n)) = n
           /\ \A i \in 1 .. n : Bytes(a, n)[i] = a + i
  <1>1. Bytes(a, n) \in [1 .. n -> Nat]
    BY DEF Bytes
  <1>. QED  BY <1>1, SeqDef DEF Bytes

LEMMA BytesOfStream ==
    ASSUME NEW top \in Nat, NEW a \in Nat, NEW n \in Nat, a + n <= top
    PROVE  Bytes(a, n) \in Seq(1 .. top)
  <1>1. \A i \in 1 .. n : a + i \in 1 .. top
    OBVIOUS
  <1>2. Bytes(a, n) \in [1 .. n -> 1 .. top]
    BY <1>1 DEF Bytes
  <1>. QED  BY <1>2, SeqDef

LEMMA NoBytes == ASSUME NEW a \in Nat PROVE Bytes(a, 0) = <<>>
  <1>1. PICK s : s = Bytes(a, 0)
    OBVIOUS
  <1>2. s \in Seq(Nat) /\ Len(s) = 0
    BY <1>1, BytesType
  <1>. QED  BY <1>1, <1>2, EmptySeq

LEMMA Halves ==
    ASSUME NEW S, NEW s \in Seq(S), NEW m \in Nat, m <= Len(s)
    PROVE  /\ First(s, m) \in Seq(S) /\ Len(First(s, m)) = m
           /\ \A i \in 1 .. m : First(s, m)[i] = s[i]
           /\ Rest(s, m) \in Seq(S) /\ Len(Rest(s, m)) = Len(s) - m
           /\ \A i \in 1 .. Len(s) - m : Rest(s, m)[i] = s[m + i]
  <1>1. PICK n \in Nat : n = Len(s)
    OBVIOUS
  <1>2. /\ \A i \in 1 .. m : s[i] \in S
        /\ \A i \in m + 1 .. n : s[i] \in S
    BY <1>1
  <1>3. /\ SubSeq(s, 1, m) \in Seq(S)
        /\ Len(SubSeq(s, 1, m)) = IF 1 <= m THEN m - 1 + 1 ELSE 0
        /\ \A i \in 1 .. m - 1 + 1 : SubSeq(s, 1, m)[i] = s[1 + i - 1]
    BY <1>2, SubSeqProperties
  <1>4. /\ SubSeq(s, m + 1, n) \in Seq(S)
        /\ Len(SubSeq(s, m + 1, n)) = IF m + 1 <= n THEN n - (m + 1) + 1 ELSE 0
        /\ \A i \in 1 .. n - (m + 1) + 1 : SubSeq(s, m + 1, n)[i] = s[(m + 1) + i - 1]
    BY <1>2, SubSeqProperties
  <1>5. \A i \in 1 .. m : First(s, m)[i] = s[i]
    <2>1. ASSUME NEW i \in 1 .. m PROVE SubSeq(s, 1, m)[i] = s[i]
      <3>1. i \in 1 .. m - 1 + 1 /\ 1 + i - 1 = i
        OBVIOUS
      <3>. QED  BY <1>3, <3>1
    <2>. QED  BY <2>1 DEF First
  <1>6. \A i \in 1 .. n - m : Rest(s, m)[i] = s[m + i]
    <2>1. ASSUME NEW i \in 1 .. n - m PROVE SubSeq(s, m + 1, n)[i] = s[m + i]
      <3>1. i \in 1 .. n - (m + 1) + 1 /\ (m + 1) + i - 1 = m + i
        OBVIOUS
      <3>. QED  BY <1>4, <3>1
    <2>. QED  BY <1>1, <2>1 DEF Rest
  <1>. QED  BY <1>1, <1>3, <1>4, <1>5, <1>6 DEF First, Rest

LEMMA HalvesOfBytes ==
    ASSUME NEW a \in Nat, NEW n \in Nat, NEW m \in Nat, m <= n
    PROVE  /\ First(Bytes(a, n), m) = Bytes(a, m)
           /\ Rest(Bytes(a, n), m) = Bytes(a + m, n - m)
  <1>1. PICK s \in Seq(Nat) : s = Bytes(a, n) /\ Len(s) = n /\ \A i \in 1 .. n : s[i] = a + i
    BY BytesType
  <1>2. PICK t : t = Bytes(a, m)
    OBVIOUS
  <1>3. t \in Seq(Nat) /\ Len(t) = m /\ \A i \in 1 .. m : t[i] = a + i
    BY <1>2, BytesType
  <1>4. PICK u : u = Bytes(a + m, n - m)
    OBVIOUS
  <1>5. u \in Seq(Nat) /\ Len(u) = n - m /\ \A i \in 1 .. n - m : u[i] = (a + m) + i
    <2>1. a + m \in Nat /\ n - m \in Nat
      OBVIOUS
    <2>. QED  BY <1>4, <2>1, BytesType
  <1>6. PICK f : f = First(s, m)
    OBVIOUS
  <1>7. f \in Seq(Nat) /\ Len(f) = m /\ \A i \in 1 .. m : f[i] = s[i]
    <2>1. /\ First(s, m) \in Seq(Nat) /\ Len(First(s, m)) = m
          /\ \A i \in 1 .. m : First(s, m)[i] = s[i]
      <3>1. m <= Len(s)
        BY <1>1
      <3>. QED  BY <3>1, Halves
    <2>. QED  BY <1>6, <2>1
  <1>8. PICK r : r = Rest(s, m)
    OBVIOUS
  <1>9. r \in Seq(Nat) /\ Len(r) = n - m /\ \A i \in 1 .. n - m : r[i] = s[m + i]
    <2>1. /\ Rest(s, m) \in Seq(Nat) /\ Len(Rest(s, m)) = n - m
          /\ \A i \in 1 .. n - m : Rest(s, m)[i] = s[m + i]
      <3>1. m <= Len(s)
        BY <1>1
      <3>2. Rest(s, m) \in Seq(Nat) /\ Len(Rest(s, m)) = Len(s) - m
        BY <3>1, Halves
      <3>3. \A i \in 1 .. Len(s) - m : Rest(s, m)[i] = s[m + i]
        BY <3>1, Halves
      <3>. QED  BY <1>1, <3>2, <3>3
    <2>. QED  BY <1>8, <2>1
  <1>10. f = t
    <2>1. \A i \in 1 .. Len(f) : f[i] = t[i]
      BY <1>1, <1>3, <1>7
    <2>. QED  BY <1>3, <1>7, <2>1, SeqEqual
  <1>11. r = u
    <2>1. \A i \in 1 .. Len(r) : r[i] = u[i]
      <3>1. ASSUME NEW i \in 1 .. n - m PROVE r[i] = u[i]
        <4>1. m + i \in 1 .. n /\ a + (m + i) = (a + m) + i
          OBVIOUS
        <4>. QED  BY <1>1, <1>5, <1>9, <4>1
      <3>. QED  BY <1>9, <3>1
    <2>. QED  BY <1>5, <1>9, <2>1, SeqEqual
  <1>. QED  BY <1>1, <1>2, <1>4, <1>6, <1>8, <1>10, <1>11

\* m bytes from a on and n from b on are l bytes from a on.
Adjoin(a, m, b, n, l) == b = a + m /\ l = m + n
Joined(a, m, b, n, l) == Bytes(a, m) \o Bytes(b, n) = Bytes(a, l)

LEMMA BytesJoined ==
    ASSUME NEW a \in Nat, NEW m \in Nat, NEW n \in Nat, NEW b \in Nat, NEW l \in Nat,
           Adjoin(a, m, b, n, l)
    PROVE  Joined(a, m, b, n, l)
  <1>0. b = a + m /\ l = m + n
    BY DEF Adjoin
  <1>1. PICK s \in Seq(Nat) : s = Bytes(a, m) /\ Len(s) = m /\ \A i \in 1 .. m : s[i] = a + i
    BY BytesType
  <1>2. PICK t \in Seq(Nat) : t = Bytes(b, n) /\ Len(t) = n /\ \A i \in 1 .. n : t[i] = b + i
    BY BytesType
  <1>3. PICK u \in Seq(Nat) : /\ u = Bytes(a, m + n) /\ Len(u) = m + n
                              /\ \A i \in 1 .. m + n : u[i] = a + i
    <2>1. m + n \in Nat
      OBVIOUS
    <2>. QED  BY <2>1, BytesType
  <1>4. PICK r \in Seq(Nat) : /\ r = s \o t /\ Len(r) = m + n
                              /\ \A i \in 1 .. m + n : r[i] = IF i <= m THEN s[i] ELSE t[i - m]
    <2>1. /\ s \o t \in Seq(Nat) /\ Len(s \o t) = Len(s) + Len(t)
          /\ \A i \in 1 .. Len(s) + Len(t) :
                 (s \o t)[i] = IF i <= Len(s) THEN s[i] ELSE t[i - Len(s)]
      BY ConcatProperties
    <2>2. PICK r \in Seq(Nat) : r = s \o t
      BY <2>1
    <2>3. Len(r) = m + n /\ \A i \in 1 .. m + n : r[i] = IF i <= m THEN s[i] ELSE t[i - m]
      BY <1>1, <1>2, <2>1, <2>2
    <2>. QED  BY <2>2, <2>3
  <1>5. \A i \in 1 .. Len(r) : r[i] = u[i]
    <2>1. ASSUME NEW i \in 1 .. m + n PROVE r[i] = u[i]
      <3>1. CASE i <= m
        BY <1>1, <1>3, <1>4, <3>1
      <3>2. CASE ~(i <= m)
        <4>1. i - m \in 1 .. n /\ b + (i - m) = a + i
          BY <1>0, <3>2
        <4>. QED  BY <1>2, <1>3, <1>4, <3>2, <4>1
      <3>. QED  BY <3>1, <3>2
    <2>. QED  BY <1>4, <2>1
  <1>6. r = u
    BY <1>3, <1>4, <1>5, SeqEqual
  <1>. QED  BY <1>0, <1>1, <1>2, <1>3, <1>4, <1>6 DEF Joined

\* The four bytes of a header tell the length of their package and of no other.
LEMMA ValueOfHeader ==
    ASSUME NEW f \in 1 .. Len(Payload)
    PROVE  Value(Bytes(Start[f], HEAD_SIZE)) = {Payload[f]}
  <1>1. ASSUME NEW g \in 1 .. Len(Payload), Bytes(Start[f], HEAD_SIZE) = Bytes(Start[g], HEAD_SIZE)
        PROVE  g = f
    <2>1. PICK x \in Nat : x = Start[f]
      BY StartStep, StartType
    <2>2. PICK y \in Nat : y = Start[g]
      BY StartStep, StartType
    <2>3. Bytes(x, 4)[1] = x + 1 /\ Bytes(y, 4)[1] = y + 1
      <3>1. 4 \in Nat /\ 1 \in 1 .. 4
        OBVIOUS
      <3>. QED  BY <3>1, BytesType
    <2>4. x = y
      <3>1. Bytes(x, 4) = Bytes(y, 4)
        BY <1>1, <2>1, <2>2 DEF HEAD_SIZE
      <3>2. x + 1 = y + 1
        BY <2>3, <3>1
      <3>. QED  BY <3>2
    <2>5. /\ f \in 1 .. Len(Payload) + 1 /\ g \in 1 .. Len(Payload) + 1
          /\ Start[f + 1] = x + 4 + Payload[f] /\ Start[g + 1] = y + 4 + Payload[g]
          /\ Payload[f] \in Nat /\ Payload[g] \in Nat
      BY <2>1, <2>2, StartStep, PayloadType DEF HEAD_SIZE
    <2>6. PICK p \in Nat : p = Payload[f]
      BY <2>5
    <2>7. PICK q \in Nat : q = Payload[g]
      BY <2>5
    <2>8. ~(f < g)
      <3>1. f < g => Start[f + 1] <= Start[g]
        BY <2>5, StartsGrow
      <3>2. ~(x + 4 + p <= x)
        OBVIOUS
      <3>. QED  BY <2>2, <2>4, <2>5, <2>6, <3>1, <3>2
    <2>9. ~(g < f)
      <3>1. g < f => Start[g + 1] <= Start[f]
        BY <2>5, StartsGrow
      <3>2. ~(y + 4 + q <= y)
        OBVIOUS
      <3>. QED  BY <2>1, <2>4, <2>5, <2>7, <3>1, <3>2
    <2>. QED  BY <2>8, <2>9, PayloadType
  <1>2. {g \in 1 .. Len(Payload) : Bytes(Start[f], HEAD_SIZE) = Bytes(Start[g], HEAD_SIZE)} = {f}
    BY <1>1
  <1>. QED  BY <1>2 DEF Value

LEMMA ValueType == ASSUME NEW h PROVE Value(h) \subseteq Nat
  BY PayloadType DEF Value

----------------------------------------------------------------------------
(* Every pass keeps the types *)

LEMMA EndIsNat == Start[Len(Payload) + 1] \in Nat
  <1>1. Len(Payload) + 1 \in 1 .. Len(Payload) + 1
    BY PayloadType
  <1>. QED  BY <1>1, StartType

LEMMA TakeTyped ==
    ASSUME NEW p \in Seq(Byte), NEW d \in Seq(Byte), NEW v \in Nat,
           routed \in Seq(Seq(Byte)), Take(p, v, d)
    PROVE  /\ data' \in Seq(Byte) /\ package' \in Seq(Byte) /\ routed' \in Seq(Seq(Byte))
           /\ len' \in Nat /\ remain' \in Nat
  <1>1. PICK n \in Nat : n = Len(d)
    OBVIOUS
  <1>2. PICK m \in Nat : m = Len(p)
    OBVIOUS
  <1>3. CASE n >= v
    <2>1. /\ routed' = Append(routed, p \o First(d, v)) /\ data' = Rest(d, v)
          /\ len' = 0 /\ remain' = 0 /\ package' = <<>>
      BY <1>1, <1>3 DEF Take
    <2>2. v <= Len(d)
      BY <1>1, <1>3
    <2>3. First(d, v) \in Seq(Byte) /\ Rest(d, v) \in Seq(Byte)
      BY <2>2, Halves
    <2>4. p \o First(d, v) \in Seq(Byte)
      BY <2>3, ConcatProperties
    <2>. QED  BY <2>1, <2>3, <2>4
  <1>4. CASE ~(n >= v)
    <2>1. /\ package' = p \o d /\ remain' = v - n /\ len' = m + v
          /\ data' = <<>> /\ routed' = routed
      BY <1>1, <1>2, <1>4 DEF Take
    <2>2. p \o d \in Seq(Byte)
      BY ConcatProperties
    <2>3. v - n \in Nat /\ m + v \in Nat
      BY <1>4
    <2>. QED  BY <2>1, <2>2, <2>3
  <1>. QED  BY <1>3, <1>4

StreamBounded == pos <= Start[Len(Payload) + 1]

LEMMA NextTyped ==
    ASSUME TypeOK, StreamBounded, [Next]_vars
    PROVE  TypeOK' /\ StreamBounded'
  <1>0. /\ pos \in Nat /\ data \in Seq(Byte) /\ package \in Seq(Byte)
        /\ head \in Seq(Byte) /\ Len(head) < HEAD_SIZE /\ Len(head) \in Nat
        /\ len \in Nat /\ remain \in Nat /\ routed \in Seq(Seq(Byte))
        /\ overrun \in BOOLEAN /\ cut \in BOOLEAN /\ conns \in 1 .. MaxConns
    BY DEF TypeOK
  <1>1. CASE UNCHANGED vars
    BY <1>1 DEF vars, decoder, TypeOK, StreamBounded
  <1>2. ASSUME NEW n \in 1 .. MaxChunk, Arrive(n) PROVE TypeOK' /\ StreamBounded'
    <2>1. n \in Nat /\ pos + n <= Start[Len(Payload) + 1]
      BY <1>2 DEF Arrive
    <2>2. data' = Bytes(pos, n) /\ pos' = pos + n /\ pos' \in Nat
      BY <1>0, <1>2, <2>1 DEF Arrive
    <2>3. Bytes(pos, n) \in Seq(Byte)
      BY <1>0, <2>1, EndIsNat, BytesOfStream DEF Byte
    <2>. QED  BY <1>0, <1>2, <2>1, <2>2, <2>3 DEF Arrive, decoder, TypeOK, StreamBounded
  <1>3. CASE Reconnect
    <2>1. /\ conns' \in 1 .. MaxConns /\ cut' \in BOOLEAN /\ pos' = 0
          /\ routed' = <<>> /\ routed' \in Seq(Seq(Byte))
          /\ UNCHANGED <<data, decoder, overrun>>
      BY <1>0, <1>3 DEF Reconnect
    <2>. QED  BY <1>0, <2>1, EndIsNat DEF decoder, TypeOK, StreamBounded
  <1>4. CASE FinishHead
    <2>1. PICK r \in Nat : r = HEAD_SIZE - Len(head) /\ Len(data) >= r
      BY <1>0, <1>4 DEF FinishHead, HEAD_SIZE
    <2>2. PICK v \in Value(head \o First(data, r)) : Take(<<>>, v, Rest(data, r))
      BY <1>4, <2>1 DEF FinishHead
    <2>3. v \in Nat
      BY ValueType
    <2>4. Rest(data, r) \in Seq(Byte)
      BY <1>0, <2>1, Halves
    <2>5. <<>> \in Seq(Byte) /\ Len(<<>>) < HEAD_SIZE
      BY EmptySeq DEF HEAD_SIZE
    <2>6. /\ data' \in Seq(Byte) /\ package' \in Seq(Byte) /\ routed' \in Seq(Seq(Byte))
          /\ len' \in Nat /\ remain' \in Nat
      BY <1>0, <2>2, <2>3, <2>4, <2>5, TakeTyped
    <2>. QED  BY <1>0, <1>4, <2>5, <2>6 DEF FinishHead, TypeOK, StreamBounded
  <1>5. CASE Overrun
    BY <1>0, <1>5 DEF Overrun, decoder, TypeOK, StreamBounded
  <1>6. CASE StartHead
    <2>1. <<>> \in Seq(Byte) /\ Len(data) < HEAD_SIZE
      BY <1>6, EmptySeq DEF StartHead, Incomplete
    <2>. QED  BY <1>0, <1>6, <2>1 DEF StartHead, TypeOK, StreamBounded
  <1>7. CASE ReadHead
    <2>1. PICK v \in Value(First(data, HEAD_SIZE)) : Take(<<>>, v, Rest(data, HEAD_SIZE))
      BY <1>7 DEF ReadHead
    <2>2. v \in Nat
      BY ValueType
    <2>3. HEAD_SIZE \in Nat /\ HEAD_SIZE <= Len(data)
      BY <1>0, <1>7 DEF ReadHead, Incomplete, HEAD_SIZE
    <2>4. Rest(data, HEAD_SIZE) \in Seq(Byte)
      BY <1>0, <2>3, Halves
    <2>5. <<>> \in Seq(Byte)
      BY EmptySeq
    <2>6. /\ data' \in Seq(Byte) /\ package' \in Seq(Byte) /\ routed' \in Seq(Seq(Byte))
          /\ len' \in Nat /\ remain' \in Nat
      BY <1>0, <2>1, <2>2, <2>4, <2>5, TakeTyped
    <2>. QED  BY <1>0, <1>7, <2>6 DEF ReadHead, TypeOK, StreamBounded
  <1>8. CASE Continue
    <2>1. /\ data' \in Seq(Byte) /\ package' \in Seq(Byte) /\ routed' \in Seq(Seq(Byte))
          /\ len' \in Nat /\ remain' \in Nat
      BY <1>0, <1>8, TakeTyped DEF Continue
    <2>. QED  BY <1>0, <1>8, <2>1 DEF Continue, TypeOK, StreamBounded
  <1>. QED  BY <1>1, <1>2, <1>3, <1>4, <1>5, <1>6, <1>7, <1>8 DEF Next

LEMMA InitTyped == ASSUME Init PROVE TypeOK /\ StreamBounded
  <1>1. <<>> \in Seq(Byte) /\ <<>> \in Seq(Seq(Byte)) /\ Len(<<>>) < HEAD_SIZE
    BY EmptySeq DEF HEAD_SIZE
  <1>2. 1 \in 1 .. MaxConns /\ 0 <= Start[Len(Payload) + 1]
    BY EndIsNat
  <1>3. StreamBounded
    BY <1>2 DEF Init, StreamBounded
  <1>4. TypeOK
    BY <1>1, <1>2 DEF Init, TypeOK
  <1>. QED  BY <1>3, <1>4

----------------------------------------------------------------------------
(* As long as no connection was lost inside a package the decoder is where *)
(* the stream is                                                           *)

\* How many bytes of the stream the loop has taken
Held == pos - Len(data)

\* Between two packages
AtStart(k) ==
    /\ len = 0 /\ head = <<>> /\ remain = 0 /\ package = <<>>
    /\ Held = Start[k + 1]

\* Inside a header
InHeader(k) ==
    /\ k < Len(Payload)
    /\ len = 0 /\ head # <<>> /\ remain = 0 /\ package = <<>>
    /\ head = Bytes(Start[k + 1], Len(head))
    /\ Held = Start[k + 1] + Len(head)

\* Inside a package, whose header was read
InPayload(k) ==
    /\ k < Len(Payload)
    /\ len # 0 /\ head = <<>> /\ remain # 0
    /\ Len(package) + remain = Payload[k + 1]
    /\ package = Bytes(Start[k + 1] + HEAD_SIZE, Len(package))
    /\ Held = Start[k + 1] + HEAD_SIZE + Len(package)

\* The packages routed are the first of the stream.
Routed(s) == s = [f \in 1 .. Len(s) |-> Bytes(Start[f] + HEAD_SIZE, Payload[f])]

InStep ==
    /\ Len(routed) <= Len(Payload) /\ Len(data) <= pos
    /\ Routed(routed)
    /\ data = Bytes(Held, Len(data))
    /\ AtStart(Len(routed)) \/ InHeader(Len(routed)) \/ InPayload(Len(routed))

DecoderInv == TypeOK /\ StreamBounded /\ (~cut => InStep)

Package(k, t) == t = Bytes(Start[k] + HEAD_SIZE, Payload[k])

LEMMA RouteNext ==
    ASSUME NEW s \in Seq(Seq(Byte)), Routed(s), NEW k \in Nat, k = Len(s),
           NEW t \in Seq(Byte), Package(k + 1, t)
    PROVE  Routed(Append(s, t)) /\ Len(Append(s, t)) = k + 1
  <1>1. PICK r : r = Append(s, t)
    OBVIOUS
  <1>2. /\ r \in Seq(Seq(Byte)) /\ Len(r) = k + 1
        /\ \A i \in 1 .. k : r[i] = s[i]
        /\ r[k + 1] = t
    BY <1>1, AppendProperties
  <1>3. \A i \in 1 .. k : s[i] = Bytes(Start[i] + HEAD_SIZE, Payload[i])
    BY DEF Routed
  <1>4. ASSUME NEW i \in 1 .. k + 1 PROVE r[i] = Bytes(Start[i] + HEAD_SIZE, Payload[i])
    <2>1. i \in 1 .. k \/ i = k + 1
      OBVIOUS
    <2>. QED  BY <1>2, <1>3, <2>1 DEF Package
  <1>5. r = [f \in 1 .. k + 1 |-> Bytes(Start[f] + HEAD_SIZE, Payload[f])]
    <2>1. r \in [1 .. k + 1 -> Seq(Byte)]
      BY <1>2, LenProperties
    <2>. QED  BY <1>4, <2>1
  <1>. QED  BY <1>1, <1>2, <1>5 DEF Routed

\* The names the next lemma gives to places of the stream: package k + 1 begins at g and
\* has e bytes, c bytes were received of top.
Named(k, g, e, c, top) ==
    /\ k < Len(Payload) /\ g = Start[k + 1] /\ e = Payload[k + 1]
    /\ c = pos /\ top = Start[Len(Payload) + 1]

\* Its header ends at s, of its bytes there are m, up to b, and v are missing; n follow.
Parts(g, e, c, top, s, b, m, v, n) ==
    s = g + 4 /\ b = s + m /\ c = b + n /\ m + v = e /\ c <= top

\* What Take makes of the first m bytes p of a package, v missing ones, and the n that
\* follow.
LEMMA TakeInStep ==
    ASSUME TypeOK, Routed(routed), NEW k \in Nat, k = Len(routed),
           NEW g \in Nat, NEW e \in Nat, NEW c \in Nat, NEW top \in Nat,
           Named(k, g, e, c, top),
           NEW s \in Nat, NEW b \in Nat,
           NEW m \in Nat, NEW v \in Nat, NEW n \in Nat,
           Parts(g, e, c, top, s, b, m, v, n),
           Take(Bytes(s, m), v, Bytes(b, n)),
           head' = <<>>, pos' = pos
    PROVE  InStep'
  <1>1. s = g + 4 /\ m + v = e /\ c <= top
    BY DEF Parts
  <1>2. b = s + m /\ c = b + n
    BY DEF Parts
  <1>3. b = g + 4 + m /\ s + m <= top /\ b + n = c /\ b + n <= top /\ s + e = b + v
    BY <1>1, <1>2
  <1>4. PICK p : p = Bytes(s, m)
    OBVIOUS
  <1>5. PICK d : d = Bytes(b, n)
    OBVIOUS
  <1>6. Take(p, v, d)
    BY <1>4, <1>5
  <1>7. p \in Seq(1 .. top) /\ Len(p) = m
    BY <1>3, <1>4, BytesOfStream, BytesType
  <1>8. d \in Seq(1 .. top) /\ Len(d) = n
    BY <1>3, <1>5, BytesOfStream, BytesType
  <1>9. Byte = 1 .. top /\ c = pos /\ routed \in Seq(Seq(1 .. top))
    BY DEF Named, Byte, TypeOK
  <1>10. CASE n >= v
    <2>1. /\ routed' = Append(routed, p \o First(d, v)) /\ data' = Rest(d, v)
          /\ len' = 0 /\ remain' = 0 /\ package' = <<>>
      BY <1>6, <1>8, <1>10 DEF Take
    <2>2. PICK q \in Nat : q = n - v
      BY <1>10
    <2>3. PICK h \in Nat : h = b + v
      OBVIOUS
    <2>4. First(d, v) = Bytes(b, v) /\ Rest(d, v) = Bytes(h, q)
      BY <1>5, <1>10, <2>2, <2>3, HalvesOfBytes
    <2>5. p \o First(d, v) = Bytes(s, e)
      <3>1. Adjoin(s, m, b, v, e)
        BY <1>1, <1>2 DEF Adjoin
      <3>2. Joined(s, m, b, v, e)
        BY <3>1, BytesJoined
      <3>. QED  BY <1>4, <2>4, <3>2 DEF Joined
    <2>6. Bytes(s, e) \in Seq(1 .. top)
      <3>1. s + e <= top
        BY <1>1, <1>2, <1>3, <1>10
      <3>. QED  BY <3>1, BytesOfStream
    <2>7. Bytes(s, e) = Bytes(Start[k + 1] + HEAD_SIZE, Payload[k + 1]) /\ k < Len(Payload)
      BY <1>1 DEF Named, HEAD_SIZE
    <2>8. Routed(routed') /\ Len(routed') = k + 1
      <3>1. PICK t : t = Bytes(s, e)
        OBVIOUS
      <3>2. t \in Seq(Byte) /\ Package(k + 1, t) /\ routed \in Seq(Seq(Byte))
        BY <1>9, <2>6, <2>7, <3>1 DEF Package
      <3>3. Routed(Append(routed, t)) /\ Len(Append(routed, t)) = k + 1
        BY <3>2, RouteNext
      <3>. QED  BY <2>1, <2>5, <3>1, <3>3
    <2>9. data' = Bytes(h, q) /\ Len(data') = q
      BY <2>1, <2>4, BytesType
    <2>10. c - q = h /\ q <= c /\ h = g + 4 + e
      BY <1>1, <1>3, <1>10, <2>2, <2>3
    <2>11. Start[(k + 1) + 1] = g + 4 + e
      <3>1. k + 1 \in 1 .. Len(Payload)
        BY <2>7, PayloadType
      <3>. QED  BY <3>1, StartStep DEF Named, HEAD_SIZE
    <2>12. Len(routed') <= Len(Payload)
      BY <2>8, PayloadType DEF Named
    <2>13. pos' - Len(data') = h /\ Len(data') <= pos'
      BY <1>9, <2>9, <2>10
    <2>14. AtStart(Len(routed))'
      BY <2>1, <2>8, <2>10, <2>11, <2>13 DEF AtStart, Held
    <2>. QED  BY <2>8, <2>9, <2>12, <2>13, <2>14 DEF InStep, Held
  <1>11. CASE ~(n >= v)
    <2>1. /\ package' = p \o d /\ remain' = v - n /\ len' = m + v
          /\ data' = <<>> /\ routed' = routed
      BY <1>6, <1>7, <1>8, <1>11 DEF Take
    <2>2. PICK j \in Nat : j = m + n
      OBVIOUS
    <2>3. p \o d = Bytes(s, j) /\ Len(p \o d) = j
      <3>1. Adjoin(s, m, b, n, j)
        BY <1>2, <2>2 DEF Adjoin
      <3>2. Joined(s, m, b, n, j)
        BY <3>1, BytesJoined
      <3>3. Len(Bytes(s, j)) = j
        BY BytesType
      <3>. QED  BY <1>4, <1>5, <3>2, <3>3 DEF Joined
    <2>4. c - 0 = c /\ 0 <= c /\ c = g + 4 + j /\ v - n # 0 /\ m + v # 0 /\ j + (v - n) = e
      BY <1>1, <1>2, <1>11, <2>2
    <2>5. Len(data') = 0 /\ data' = Bytes(c, 0)
      BY <2>1, NoBytes
    <2>6. pos' - Len(data') = c /\ Len(data') <= pos'
      BY <1>9, <2>4, <2>5
    <2>7. InPayload(Len(routed))'
      <3>1. g = Start[k + 1] /\ e = Payload[k + 1] /\ k < Len(Payload) /\ HEAD_SIZE = 4
        BY DEF Named, HEAD_SIZE
      <3>2. /\ Len(routed') = k /\ len' # 0 /\ remain' # 0
            /\ package' = Bytes(g + 4, j) /\ Len(package') = j
            /\ j + remain' = e /\ pos' - Len(data') = g + 4 + j
        BY <1>1, <2>1, <2>3, <2>4, <2>6
      <3>. QED  BY <3>1, <3>2 DEF InPayload, Held
    <2>8. k <= Len(Payload)
      BY PayloadType DEF Named
    <2>. QED  BY <2>1, <2>5, <2>6, <2>7, <2>8 DEF InStep, Held
  <1>. QED  BY <1>10, <1>11

\* The end of the k-th package and what comes of it, as numbers
LEMMA Places ==
    ASSUME TypeOK, StreamBounded, InStep
    PROVE  \E k, c, n, top \in Nat :
               /\ k = Len(routed) /\ k <= Len(Payload) /\ c = pos /\ n = Len(data) /\ n <= c
               /\ top = Start[Len(Payload) + 1] /\ c <= top
               /\ data = Bytes(c - n, n) /\ Held = c - n /\ c - n \in Nat
  <1>1. PICK k \in Nat : k = Len(routed)
    BY DEF TypeOK
  <1>2. PICK c \in Nat : c = pos
    BY DEF TypeOK
  <1>3. PICK n \in Nat : n = Len(data)
    BY DEF TypeOK
  <1>4. PICK top \in Nat : top = Start[Len(Payload) + 1]
    BY EndIsNat
  <1>5. k <= Len(Payload) /\ n <= c /\ data = Bytes(c - n, n) /\ Held = c - n /\ c <= top
    BY <1>1, <1>2, <1>3, <1>4 DEF InStep, Held, StreamBounded
  <1>6. c - n \in Nat
    BY <1>5
  <1>. QED  BY <1>1, <1>2, <1>3, <1>4, <1>5, <1>6

\* At the beginning of package k + 1, if bytes are to come, there is such a package.
LEMMA PackageBegins ==
    ASSUME NEW k \in Nat, k <= Len(Payload), Start[k + 1] < Start[Len(Payload) + 1]
    PROVE  k < Len(Payload)
  <1>1. CASE k = Len(Payload)
    BY <1>1, EndIsNat
  <1>. QED  BY <1>1, PayloadType

LEMMA NextInStep ==
    ASSUME TypeOK, StreamBounded, InStep, [Next]_vars, ~cut'
    PROVE  InStep'
  <1>0. PICK k \in Nat : k = Len(routed) /\ k <= Len(Payload)
    BY Places
  <1>1. PICK c \in Nat : c = pos
    BY Places
  <1>2. PICK n \in Nat : n = Len(data) /\ n <= c /\ data = Bytes(c - n, n) /\ Held = c - n
    BY <1>1, Places
  <1>3. PICK top \in Nat : top = Start[Len(Payload) + 1] /\ c <= top
    BY <1>1, Places
  <1>4. PICK a \in Nat : a = c - n
    <2>1. n <= c
      BY <1>2
    <2>2. c - n \in Nat
      BY <2>1
    <2>. QED  BY <2>2
  <1>5. PICK g \in Nat : g = Start[k + 1]
    <2>1. k + 1 \in 1 .. Len(Payload) + 1
      BY <1>0, PayloadType
    <2>. QED  BY <2>1, StartType
  <1>6. data = Bytes(a, n) /\ Held = a /\ c = a + n /\ Routed(routed)
    <2>1. Routed(routed)
      BY DEF InStep
    <2>2. c = a + n
      BY <1>4
    <2>. QED  BY <1>2, <1>4, <2>1, <2>2
  <1>7. AtStart(k) \/ InHeader(k) \/ InPayload(k)
    BY <1>0 DEF InStep
  <1>8. ASSUME k < Len(Payload), NEW e \in Nat, e = Payload[k + 1]
        PROVE  Named(k, g, e, c, top) /\ Value(Bytes(g, 4)) = {e}
    <2>1. Named(k, g, e, c, top)
      BY <1>1, <1>3, <1>5, <1>8 DEF Named
    <2>2. k + 1 \in 1 .. Len(Payload)
      BY <1>8, PayloadType
    <2>3. Value(Bytes(Start[k + 1], HEAD_SIZE)) = {Payload[k + 1]}
      BY <2>2, ValueOfHeader
    <2>. QED  BY <1>5, <1>8, <2>1, <2>3 DEF HEAD_SIZE
  <1>9. ASSUME k < Len(Payload) PROVE \E e \in Nat : e = Payload[k + 1]
    <2>1. k + 1 \in 1 .. Len(Payload)
      BY <1>9, PayloadType
    <2>. QED  BY <2>1, PayloadType
  <1>10. CASE UNCHANGED vars \/ Overrun
    BY <1>10 DEF vars, decoder, Overrun, InStep, Routed, Held, AtStart, InHeader, InPayload
  <1>11. ASSUME NEW i \in 1 .. MaxChunk, Arrive(i) PROVE InStep'
    <2>1. /\ n = 0 /\ data' = Bytes(c, i) /\ pos' = c + i
          /\ UNCHANGED <<len, remain, head, package, routed>>
      BY <1>1, <1>2, <1>11 DEF Arrive, decoder
    <2>2. i \in Nat
      OBVIOUS
    <2>3. Len(data') = i /\ pos' - Len(data') = c /\ Len(data') <= pos' /\ a = c
      <3>1. Len(Bytes(c, i)) = i
        BY <2>2, BytesType
      <3>2. (c + i) - i = c /\ i <= c + i /\ c - 0 = c
        OBVIOUS
      <3>. QED  BY <1>4, <2>1, <3>1, <3>2
    <2>4. (AtStart(k) \/ InHeader(k) \/ InPayload(k))'
      BY <1>6, <1>7, <2>1, <2>3 DEF AtStart, InHeader, InPayload, Held
    <2>5. Routed(routed')
      BY <1>6, <2>1
    <2>. QED  BY <1>0, <2>1, <2>3, <2>4, <2>5 DEF InStep, Held
  <1>12. CASE Reconnect
    <2>1. /\ data = <<>> /\ data' = <<>> /\ pos' = 0 /\ routed' = <<>>
          /\ UNCHANGED <<len, remain, head, package>>
          /\ len = 0 /\ head = <<>>
      BY <1>12 DEF Reconnect, decoder
    <2>2. remain = 0 /\ package = <<>>
      BY <1>7, <2>1 DEF AtStart, InHeader, InPayload
    <2>3. /\ Len(data') = 0 /\ pos' - Len(data') = 0 /\ Len(data') <= pos'
          /\ data' = Bytes(0, 0) /\ Len(routed') = 0 /\ 0 <= Len(Payload)
      <3>1. Bytes(0, 0) = <<>> /\ 0 <= Len(Payload)
        BY NoBytes, PayloadType
      <3>2. Len(data') = 0 /\ Len(routed') = 0 /\ 0 - 0 = 0
        BY <2>1
      <3>3. PICK z \in Nat : z = Len(data') /\ z = 0
        BY <3>2
      <3>4. pos' = 0
        BY <2>1
      <3>5. pos' - z = 0 /\ z <= pos'
        BY <3>3, <3>4
      <3>. QED  BY <2>1, <3>1, <3>2, <3>3, <3>5
    <2>4. Routed(routed')
      BY <2>1 DEF Routed
    <2>5. AtStart(0)'
      BY <2>1, <2>2, <2>3, StartStep DEF AtStart, Held
    <2>. QED  BY <2>3, <2>4, <2>5 DEF InStep, Held
  <1>13. CASE FinishHead
    <2>1. len = 0 /\ head # <<>> /\ head' = <<>> /\ pos' = pos
      BY <1>13 DEF FinishHead
    <2>2. InHeader(k)
      BY <1>7, <2>1 DEF AtStart, InPayload
    <2>3. PICK h \in Nat : h = Len(head) /\ h < 4
      BY DEF TypeOK, HEAD_SIZE
    <2>4. head = Bytes(g, h) /\ a = g + h /\ k < Len(Payload)
      BY <1>5, <1>6, <2>2, <2>3 DEF InHeader
    <2>5. PICK e \in Nat : e = Payload[k + 1]
      BY <1>9, <2>4
    <2>6. PICK r \in Nat : r = 4 - h
      BY <2>3
    <2>7. /\ n >= r
          /\ \E v \in Value(head \o First(data, r)) : Take(<<>>, v, Rest(data, r))
      BY <1>2, <1>13, <2>3, <2>6 DEF FinishHead, HEAD_SIZE
    <2>8. PICK q \in Nat : q = n - r
      BY <2>7
    <2>9. First(data, r) = Bytes(a, r) /\ Rest(data, r) = Bytes(a + r, q)
      BY <1>6, <2>7, <2>8, HalvesOfBytes
    <2>10. head \o First(data, r) = Bytes(g, 4)
      <3>1. Adjoin(g, h, a, r, 4)
        BY <2>4, <2>6 DEF Adjoin
      <3>2. Joined(g, h, a, r, 4)
        BY <3>1, BytesJoined
      <3>. QED  BY <2>4, <2>9, <3>2 DEF Joined
    <2>11. Named(k, g, e, c, top) /\ Value(Bytes(g, 4)) = {e}
      BY <1>8, <2>4, <2>5
    <2>12. Take(<<>>, e, Rest(data, r))
      BY <2>7, <2>10, <2>11
    <2>13. PICK s \in Nat : s = g + 4
      OBVIOUS
    <2>14. a + r = s /\ Parts(g, e, c, top, s, s, 0, e, q)
      BY <1>3, <1>6, <2>4, <2>6, <2>8, <2>13 DEF Parts
    <2>15. Bytes(s, 0) = <<>>
      BY NoBytes
    <2>16. Take(Bytes(s, 0), e, Bytes(s, q))
      BY <2>9, <2>12, <2>14, <2>15
    <2>. QED  BY <1>0, <1>6, <2>1, <2>11, <2>14, <2>16, TakeInStep
  <1>14. CASE StartHead
    <2>1. /\ len = 0 /\ head = <<>> /\ head' = data /\ data' = <<>> /\ n < 4 /\ data # <<>>
          /\ UNCHANGED <<pos, len, remain, package, routed>>
      BY <1>2, <1>14 DEF StartHead, InLoop, Incomplete, HEAD_SIZE
    <2>2. AtStart(k)
      BY <1>7, <2>1 DEF InHeader, InPayload
    <2>3. a = g /\ remain = 0 /\ package = <<>> /\ head' = Bytes(g, n) /\ Len(head') = n
      BY <1>2, <1>5, <1>6, <2>1, <2>2 DEF AtStart
    <2>4. n # 0
      BY <1>2, <2>1 DEF TypeOK
    <2>5. k < Len(Payload)
      <3>1. g < top
        BY <1>3, <1>6, <2>3, <2>4
      <3>. QED  BY <1>0, <1>3, <1>5, <3>1, PackageBegins
    <2>6. /\ Len(data') = 0 /\ pos' = c /\ data' = Bytes(c, 0) /\ c - 0 = c /\ c = g + n
          /\ 0 <= c
      <3>1. Bytes(c, 0) = <<>>
        BY NoBytes
      <3>2. c = g + n /\ c - 0 = c /\ 0 <= c
        BY <1>6, <2>3
      <3>. QED  BY <1>1, <2>1, <3>1, <3>2
    <2>7. InHeader(k)'
      BY <1>5, <2>1, <2>3, <2>5, <2>6 DEF InHeader, Held
    <2>8. Routed(routed')
      BY <1>6, <2>1
    <2>. QED  BY <1>0, <2>1, <2>6, <2>7, <2>8 DEF InStep, Held
  <1>15. CASE ReadHead
    <2>1. /\ len = 0 /\ head = <<>> /\ head' = <<>> /\ pos' = pos /\ n >= 4
          /\ \E v \in Value(First(data, 4)) : Take(<<>>, v, Rest(data, 4))
      BY <1>2, <1>15 DEF ReadHead, Incomplete, HEAD_SIZE
    <2>2. AtStart(k)
      BY <1>7, <2>1 DEF InHeader, InPayload
    <2>3. a = g
      BY <1>5, <1>6, <2>2 DEF AtStart
    <2>4. k < Len(Payload)
      <3>1. g < top
        BY <1>3, <1>6, <2>1, <2>3
      <3>. QED  BY <1>0, <1>3, <1>5, <3>1, PackageBegins
    <2>5. PICK e \in Nat : e = Payload[k + 1]
      BY <1>9, <2>4
    <2>6. PICK q \in Nat : q = n - 4
      BY <2>1
    <2>7. First(data, 4) = Bytes(g, 4) /\ Rest(data, 4) = Bytes(g + 4, q)
      BY <1>6, <2>1, <2>3, <2>6, HalvesOfBytes
    <2>8. Named(k, g, e, c, top) /\ Value(Bytes(g, 4)) = {e}
      BY <1>8, <2>4, <2>5
    <2>9. PICK s \in Nat : s = g + 4
      OBVIOUS
    <2>10. Parts(g, e, c, top, s, s, 0, e, q)
      BY <1>3, <1>6, <2>1, <2>3, <2>6, <2>9 DEF Parts
    <2>11. Bytes(s, 0) = <<>>
      BY NoBytes
    <2>12. Take(Bytes(s, 0), e, Bytes(s, q))
      BY <2>1, <2>7, <2>8, <2>9, <2>11
    <2>. QED  BY <1>0, <1>6, <2>1, <2>8, <2>10, <2>12, TakeInStep
  <1>16. CASE Continue
    <2>1. len # 0 /\ Take(package, remain, data) /\ UNCHANGED <<pos, head>>
      BY <1>16 DEF Continue
    <2>2. InPayload(k)
      BY <1>7, <2>1 DEF AtStart, InHeader
    <2>3. PICK m \in Nat : m = Len(package)
      BY DEF TypeOK
    <2>4. PICK v \in Nat : v = remain
      BY DEF TypeOK
    <2>5. /\ package = Bytes(g + 4, m) /\ a = g + 4 + m /\ m + v = Payload[k + 1]
          /\ head' = <<>> /\ k < Len(Payload)
      BY <1>5, <1>6, <2>1, <2>2, <2>3, <2>4 DEF InPayload, HEAD_SIZE
    <2>6. PICK e \in Nat : e = Payload[k + 1] /\ m + v = e
      BY <1>9, <2>5
    <2>7. Named(k, g, e, c, top)
      BY <1>8, <2>5, <2>6
    <2>8. PICK s \in Nat : s = g + 4
      OBVIOUS
    <2>9. Parts(g, e, c, top, s, a, m, v, n)
      BY <1>3, <1>6, <2>5, <2>6, <2>8 DEF Parts
    <2>10. Take(Bytes(s, m), v, Bytes(a, n))
      BY <1>6, <2>1, <2>4, <2>5, <2>8
    <2>. QED  BY <1>0, <1>6, <2>1, <2>5, <2>7, <2>9, <2>10, TakeInStep
  <1>. QED  BY <1>10, <1>11, <1>12, <1>13, <1>14, <1>15, <1>16 DEF Next

----------------------------------------------------------------------------
(* The theorems *)

LEMMA InitInStep == ASSUME Init PROVE InStep
  <1>1. pos = 0 /\ data = <<>> /\ routed = <<>> /\ len = 0 /\ remain = 0 /\ head = <<>>
        /\ package = <<>>
    BY DEF Init
  <1>2. /\ Bytes(0, 0) = <<>> /\ 0 <= Len(Payload) /\ Len(data) = 0 /\ Len(routed) = 0
        /\ 0 - 0 = 0
    BY <1>1, NoBytes, PayloadType
  <1>3. Routed(routed)
    BY <1>1 DEF Routed
  <1>4. Held = 0
    BY <1>1, <1>2 DEF Held
  <1>5. AtStart(0)
    BY <1>1, <1>4, StartStep DEF AtStart
  <1>. QED  BY <1>1, <1>2, <1>3, <1>4, <1>5 DEF InStep

\* Between two passes of the loop the decoder stands where the stream does: at the start of
\* a package, in its header or in its payload, with what it collected of it, unless a
\* connection was lost inside a package; this is the inductive invariant.
THEOREM DecoderKept == Spec => []DecoderInv
  <1>1. Init => DecoderInv
    BY InitTyped, InitInStep DEF DecoderInv
  <1>2. DecoderInv /\ [Next]_vars => DecoderInv'
    <2>. SUFFICES ASSUME DecoderInv, [Next]_vars PROVE DecoderInv'
      OBVIOUS
    <2>1. TypeOK' /\ StreamBounded'
      BY NextTyped DEF DecoderInv
    <2>2. ASSUME ~cut' PROVE InStep'
      <3>1. ~cut
        <4>1. CASE Reconnect
          BY <2>2, <4>1 DEF Reconnect
        <4>2. CASE ~Reconnect
          BY <2>2, <4>2 DEF Next, vars, Arrive, FinishHead, Overrun, StartHead, ReadHead, Continue
        <4>. QED  BY <4>1, <4>2
      <3>. QED  BY <2>2, <3>1, NextInStep DEF DecoderInv
    <2>. QED  BY <2>1, <2>2 DEF DecoderInv
  <1>. QED  BY <1>1, <1>2, PTL DEF Spec

\* Between chunks exactly the packages that ended were routed.
LEMMA CompleteAreRouted ==
    ASSUME TypeOK, StreamBounded, InStep, data = <<>>
    PROVE  Complete = 1 .. Len(routed)
  <1>0. PICK k \in Nat : k = Len(routed) /\ k <= Len(Payload)
    BY Places
  <1>1. PICK c \in Nat : c = pos /\ Held = c
    <2>1. PICK c, n \in Nat : c = pos /\ n = Len(data) /\ Held = c - n
      BY Places
    <2>2. n = 0
      BY <2>1
    <2>. QED  BY <2>1, <2>2
  <1>2. PICK g \in Nat : g = Start[k + 1]
    <2>1. k + 1 \in 1 .. Len(Payload) + 1
      BY <1>0, PayloadType
    <2>. QED  BY <2>1, StartType
  <1>3. AtStart(k) \/ InHeader(k) \/ InPayload(k)
    BY <1>0 DEF InStep
  <1>4. g <= c
    <2>1. CASE AtStart(k)
      BY <1>1, <1>2, <2>1 DEF AtStart
    <2>2. CASE InHeader(k)
      <3>1. PICK h \in Nat : h = Len(head)
        BY DEF TypeOK
      <3>. QED  BY <1>1, <1>2, <2>2, <3>1 DEF InHeader
    <2>3. CASE InPayload(k)
      <3>1. PICK m \in Nat : m = Len(package)
        BY DEF TypeOK
      <3>. QED  BY <1>1, <1>2, <2>3, <3>1 DEF InPayload, HEAD_SIZE
    <2>. QED  BY <1>3, <2>1, <2>2, <2>3
  <1>5. ASSUME k < Len(Payload) PROVE /\ k + 2 \in 1 .. Len(Payload) + 1
                                      /\ Start[k + 2] \in Nat /\ c < Start[k + 2]
    <2>1. k + 1 \in 1 .. Len(Payload) /\ (k + 1) + 1 = k + 2 /\ k + 2 \in 1 .. Len(Payload) + 1
      BY <1>5, PayloadType
    <2>2. PICK e \in Nat : e = Payload[k + 1]
      BY <2>1, PayloadType
    <2>3. Start[k + 2] = g + 4 + e
      BY <1>2, <2>1, <2>2, StartStep DEF HEAD_SIZE
    <2>4. CASE AtStart(k)
      <3>1. c = g
        BY <1>1, <1>2, <2>4 DEF AtStart
      <3>2. c < g + 4 + e
        BY <3>1
      <3>. QED  BY <2>1, <2>3, <3>2
    <2>5. CASE InHeader(k)
      <3>1. PICK h \in Nat : h = Len(head) /\ h < 4
        BY DEF TypeOK, HEAD_SIZE
      <3>2. c = g + h
        BY <1>1, <1>2, <2>5, <3>1 DEF InHeader
      <3>3. c < g + 4 + e
        BY <3>1, <3>2
      <3>. QED  BY <2>1, <2>3, <3>3
    <2>6. CASE InPayload(k)
      <3>1. PICK m \in Nat : m = Len(package)
        BY DEF TypeOK
      <3>2. PICK v \in Nat : v = remain
        BY DEF TypeOK
      <3>3. m + v = e /\ v # 0 /\ c = g + 4 + m
        BY <1>1, <1>2, <2>2, <2>6, <3>1, <3>2 DEF InPayload, HEAD_SIZE
      <3>. QED  BY <2>1, <2>3, <3>3
    <2>. QED  BY <1>3, <2>4, <2>5, <2>6
  <1>6. ASSUME NEW f \in 1 .. k PROVE f \in 1 .. Len(Payload) /\ Start[f + 1] <= pos
    <2>1. f \in 1 .. Len(Payload) /\ f \in 1 .. Len(Payload) + 1 /\ k + 1 \in 1 .. Len(Payload) + 1
          /\ f < k + 1
      BY <1>0, PayloadType
    <2>2. Start[f + 1] <= g
      BY <1>2, <2>1, StartsGrow
    <2>3. Start[f + 1] \in Nat
      BY <2>1, StartStep, StartType
    <2>. QED  BY <1>1, <1>4, <2>1, <2>2, <2>3
  <1>7. ASSUME NEW f \in 1 .. Len(Payload), Start[f + 1] <= pos PROVE f \in 1 .. k
    <2>1. SUFFICES ASSUME k < f PROVE FALSE
      BY <1>0, PayloadType
    <2>2. k < Len(Payload)
      BY <2>1, <1>0, PayloadType
    <2>3. PICK x \in Nat : x = Start[k + 2] /\ c < x
      BY <1>5, <2>2
    <2>4. PICK y \in Nat : y = Start[f + 1] /\ y <= c
      BY <1>1, <1>7, StartStep, StartType
    <2>5. CASE f = k + 1
      BY <2>3, <2>4, <2>5
    <2>6. CASE f # k + 1
      <3>1. /\ k + 1 \in 1 .. Len(Payload) + 1 /\ (k + 1) + 1 = k + 2
            /\ f + 1 \in 1 .. Len(Payload) + 1 /\ k + 1 < f + 1
        BY <2>1, <2>2, <2>6, PayloadType
      <3>2. x <= y
        BY <2>3, <2>4, <3>1, StartsGrow
      <3>. QED  BY <2>3, <2>4, <3>2
    <2>. QED  BY <2>5, <2>6
  <1>8. \A f : f \in Complete <=> f \in 1 .. k
    BY <1>6, <1>7 DEF Complete
  <1>9. Complete = 1 .. k
    BY <1>8
  <1>. QED  BY <1>0, <1>9

\* Every variable of the decoder keeps its type, and a header is kept between chunks only
\* as long as it is incomplete, whatever the packages, the chunks and the losses are.
THEOREM TypeCorrect == Spec => []TypeOK
  <1>1. DecoderInv => TypeOK
    BY DEF DecoderInv
  <1>. QED  BY <1>1, DecoderKept, PTL

\* However the stream is cut into chunks, once a chunk is dealt with exactly the packages
\* that ended in what was received were routed, byte for byte and in order, unless a
\* connection was lost inside a package.
THEOREM PackagesRouted == Spec => []RoutedExactly
  <1>1. DecoderInv => RoutedExactly
    <2>. SUFFICES ASSUME DecoderInv, data = <<>>, ~cut
                  PROVE  routed = [f \in 1 .. Cardinality(Complete) |->
                                      Bytes(Start[f] + HEAD_SIZE, Payload[f])]
      BY DEF RoutedExactly
    <2>1. PICK k \in Nat : k = Len(routed) /\ Complete = 1 .. k
      BY CompleteAreRouted DEF DecoderInv, TypeOK
    <2>2. Cardinality(1 .. k) = k
      BY FS_Interval
    <2>3. routed = [f \in 1 .. Len(routed) |-> Bytes(Start[f] + HEAD_SIZE, Payload[f])]
      BY DEF DecoderInv, InStep, Routed
    <2>. QED  BY <2>1, <2>2, <2>3
  <1>. QED  BY <1>1, DecoderKept, PTL
============================================================================
