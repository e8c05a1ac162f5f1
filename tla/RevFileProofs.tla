---------------------------- MODULE RevFileProofs ----------------------------
(***************************************************************************)
(* Proofs about undo files, for bytes, words and fields of any size.       *)
(* The numbers: what is written reads back, and an amount has one          *)
(* compressed form and no other has it.  The files: scripts, coins and     *)
(* the undo data of blocks read back as they were written but for          *)
(* uncompressed keys; a file is laid out by its records, and parsing it    *)
(* goes from record to record.                                             *)
(***************************************************************************)
EXTENDS RevFile, NumberFormats, Loops, SequenceTheorems, TLAPS

(***************************************************************************)
(* Numbers, powers and digits.                                             *)
(***************************************************************************)

\* The bytes and their halves.
LEMMA ByteFacts == Half \in Nat \ {0} /\ Radix = 2 * Half /\ Half >= 3 /\ Radix \in Nat /\ Word \in Nat \ {0}
  BY RadixAssumption DEF Half

\* A number that fits into a word does not wrap around.
LEMMA FitsWord == ASSUME NEW x \in 0 .. Word - 1 PROVE x % Word = x
  BY ByteFacts

\* Powers are what the recursion says.
LEMMA Powers ==
    ASSUME NEW b \in Nat, NEW k \in Nat
    PROVE  Power(b, k) \in Nat /\ Power(b, 0) = 1 /\ Power(b, k + 1) = b * Power(b, k)
<1> DEFINE Is(m, g) == g = [i \in 0 .. m |-> IF i = 0 THEN 1 ELSE b * g[i - 1]]
           power(m) == CHOOSE g : Is(m, g)
<1>1. \A m : Power(b, m) = power(m)[m]
  BY Zenon DEF Power
<1>2. ASSUME NEW m \in Nat
      PROVE  /\ power(m)[0] = 1
             /\ \A i \in 1 .. m : power(m)[i] = b * power(m)[i - 1]
             /\ \A i \in 0 .. m : power(m)[i] \in Nat
  <2> DEFINE round == [i \in 1 .. m |-> [p \in Nat |-> b * p]]
             x == power(m)
  <2>1. round \in [1 .. m -> [Nat -> Nat]]
    OBVIOUS
  <2>2. PICK g : Runs(g, m, Nat, 1, round)
    <3> HIDE DEF round
    <3>1. QED
      BY <2>1, LoopRuns
  <2>3. ASSUME NEW i \in 1 .. m PROVE g[i] = b * g[i - 1]
    <3>1. i - 1 \in 0 .. m /\ g[i - 1] \in Nat
      BY <2>2 DEF Runs
    <3>2. QED
      BY <2>2, <3>1 DEF Runs
  <2>4. Is(m, g)
    BY <2>2, <2>3 DEF Runs
  <2>5. Is(m, x)
    BY <2>4, Zenon
  <2> HIDE DEF x
  <2>6. \A i \in 0 .. m : x[i] = IF i = 0 THEN 1 ELSE b * x[i - 1]
    BY <2>5, Zenon
  <2>7. x[0] = 1 /\ \A i \in 1 .. m : x[i] = b * x[i - 1]
    BY <2>6
  <2>8. x[0] \in Nat /\ \A i \in 1 .. m : x[i - 1] \in Nat => x[i] \in Nat
    BY <2>7
  <2>9. \A i \in 0 .. m : x[i] \in Nat
    BY <2>8, LoopStays
  <2>10. QED
    BY <2>7, <2>9, Zenon DEF x
<1> HIDE DEF power
<1>3. \A i \in 0 .. k : power(k)[i] = power(k + 1)[i]
  <2> DEFINE T == {i \in 0 .. k : power(k)[i] = power(k + 1)[i]}
  <2>1. 0 \in T
    BY <1>2
  <2>2. ASSUME NEW i \in 0 .. k - 1, i \in T PROVE i + 1 \in T
    <3>1. i + 1 \in 1 .. k /\ i + 1 \in 1 .. k + 1 /\ (i + 1) - 1 = i
      OBVIOUS
    <3>2. power(k)[i + 1] = b * power(k)[i]
      BY <1>2, <3>1
    <3>3. power(k + 1)[i + 1] = b * power(k + 1)[i]
      BY <1>2, <3>1
    <3>4. QED
      BY <2>2, <3>1, <3>2, <3>3
  <2> HIDE DEF T
  <2>3. 0 .. k \subseteq T
    BY <2>1, <2>2, UpTo
  <2>4. QED
    BY <2>3 DEF T
<1>4. Power(b, k + 1) = b * power(k + 1)[k] /\ power(k + 1)[k] = power(k)[k]
  BY <1>1, <1>2, <1>3
<1>5. QED
  BY <1>1, <1>2, <1>4

\* Powers of a base that is not zero are not zero and grow.
LEMMA PowersGrow ==
    ASSUME NEW b \in Nat \ {0}, NEW k \in Nat, NEW j \in 0 .. k
    PROVE  Power(b, j) \in Nat \ {0} /\ Power(b, j) <= Power(b, k)
<1> DEFINE P(i) == Power(b, i)
<1>1. \A i \in Nat : P(i) \in Nat /\ P(0) = 1 /\ P(i + 1) = b * P(i)
  BY Powers
<1> HIDE DEF P
<1>2. \A i \in 0 .. k : P(i) \in Nat \ {0} /\ P(i) <= P(i + 1)
  <2> DEFINE T == {i \in 0 .. k : P(i) # 0}
  <2>1. 0 \in T
    BY <1>1
  <2>2. ASSUME NEW i \in 0 .. k - 1, i \in T PROVE i + 1 \in T
    BY <1>1, <2>2
  <2> HIDE DEF T
  <2>3. 0 .. k \subseteq T
    BY <2>1, <2>2, UpTo
  <2>4. ASSUME NEW i \in 0 .. k PROVE P(i) \in Nat \ {0} /\ P(i) <= P(i + 1)
    <3>1. P(i) \in Nat \ {0} /\ P(i + 1) = b * P(i)
      BY <1>1, <2>3 DEF T
    <3>2. \A x, y \in Nat \ {0} : x <= y * x
      OBVIOUS
    <3>3. QED
      BY <3>1, <3>2
  <2>5. QED
    BY <2>4
<1>3. \A i \in 0 .. k - j : P(j) <= P(j + i)
  <2> DEFINE T == {i \in 0 .. k - j : P(j) <= P(j + i)}
  <2>1. 0 \in T
    BY <1>1
  <2>2. ASSUME NEW i \in 0 .. k - j - 1, i \in T PROVE i + 1 \in T
    <3>1. j + i \in 0 .. k /\ j + i + 1 = j + (i + 1) /\ j + i \in Nat /\ j + (i + 1) \in Nat
      OBVIOUS
    <3>2. P(j + i) <= P(j + (i + 1))
      BY <1>2, <3>1
    <3>3. QED
      BY <1>1, <2>2, <3>1, <3>2
  <2> HIDE DEF T
  <2>3. k - j \in Nat
    OBVIOUS
  <2>4. 0 .. k - j \subseteq T
    BY <2>1, <2>2, <2>3, UpTo
  <2>5. QED
    BY <2>4 DEF T
<1>4. k - j \in 0 .. k - j /\ j + (k - j) = k
  OBVIOUS
<1>5. QED
  BY <1>2, <1>3, <1>4 DEF P

\* Quotient and rest.
LEMMA DivMod ==
    ASSUME NEW n \in Nat, NEW b \in Nat \ {0}
    PROVE  n \div b \in Nat /\ n % b \in 0 .. b - 1 /\ n = b * (n \div b) + (n % b)
<1>1. n \div b \in Nat
  OBVIOUS
<1>2. n % b \in 0 .. b - 1
  OBVIOUS
<1>3. n = b * (n \div b) + (n % b)
  OBVIOUS
<1>4. QED
  BY <1>1, <1>2, <1>3

\* They are the only ones.
LEMMA DivUnique ==
    ASSUME NEW b \in Nat \ {0}, NEW q \in Nat, NEW r \in 0 .. b - 1
    PROVE  (b * q + r) \div b = q /\ (b * q + r) % b = r
<1> DEFINE n == b * q + r
<1>1. n \in Nat
  OBVIOUS
<1>2. \A m \in Nat : m = b * q + r => m \div b = q /\ m % b = r
  OBVIOUS
<1>3. QED
  BY <1>1, <1>2

\* A number below b * m has a quotient below m.
LEMMA DivBelow ==
    ASSUME NEW n \in Nat, NEW b \in Nat \ {0}, NEW m \in Nat, n < b * m
    PROVE  n \div b < m
  OBVIOUS

(***************************************************************************)
(* VarInts.                                                                *)
(***************************************************************************)

\* A round of WriteVarInt's loop.
Group(s) ==
    IF s.n = 0 THEN s
    ELSE [n |-> (s.n - 1) \div Half, buf |-> <<Half + ((s.n - 1) % Half)>> \o s.buf]
\* The number left and the bytes written.
Writing == [n : Nat, buf : Seq(Byte)]
\* Its states for n.
Writes(after, n) ==
    /\ WriteVarInt(n) = after[BufLen - 1].buf
    /\ after[0] = [n |-> n \div Half, buf |-> <<n % Half>>]
    /\ \A i \in 1 .. BufLen - 1 : after[i] = Group(after[i - 1])
    /\ \A i \in 0 .. BufLen - 1 : after[i] \in Writing

\* A round writes a byte.
LEMMA GroupType ==
    ASSUME NEW s \in Writing PROVE Group(s) \in Writing
<1>1. CASE s.n = 0
  BY <1>1 DEF Group
<1>2. CASE s.n # 0
  <2>1. s.n \in Nat /\ s.n - 1 \in Nat /\ s.buf \in Seq(Byte) /\ Half \in Nat \ {0}
    BY <1>2, ByteFacts DEF Writing
  <2> DEFINE q == (s.n - 1) \div Half
             r == (s.n - 1) % Half
  <2>2. q \in Nat /\ r \in 0 .. Half - 1
    BY <2>1, DivMod
  <2>3. Half + r \in Byte
    BY <2>1, <2>2, ByteFacts DEF Byte
  <2>4. Group(s) = [n |-> q, buf |-> <<Half + r>> \o s.buf]
    BY <1>2 DEF Group
  <2> HIDE DEF q, r
  <2>5. <<Half + r>> \o s.buf \in Seq(Byte)
    BY <2>1, <2>3
  <2>6. QED
    BY <2>2, <2>4, <2>5 DEF Writing
<1>3. QED
  BY <1>1, <1>2

\* WriteVarInt is the loop.
LEMMA WriteLoop ==
    ASSUME NEW n \in Nat
    PROVE  \E after : Writes(after, n)
<1> DEFINE m == BufLen - 1
           start == [n |-> n \div Half, buf |-> <<n % Half>>]
           round == [i \in 1 .. m |-> [s \in Writing |-> Group(s)]]
           Is(g) == g = [i \in 0 .. BufLen - 1 |-> IF i = 0 THEN start ELSE Group(g[i - 1])]
           after == CHOOSE g : Is(g)
<1>1. WriteVarInt(n) = after[BufLen - 1].buf
  BY Zenon DEF WriteVarInt, Group
<1>2. m \in Nat /\ m = BufLen - 1
  BY RadixAssumption
<1>3. start \in Writing
  <2>1. n \div Half \in Nat /\ n % Half \in 0 .. Half - 1
    BY DivMod, ByteFacts
  <2>2. n % Half \in Byte
    BY <2>1, ByteFacts DEF Byte
  <2>3. <<n % Half>> \in Seq(Byte)
    BY <2>2
  <2>4. QED
    BY <2>1, <2>3 DEF Writing
<1> HIDE DEF m, start
<1>4. round \in [1 .. m -> [Writing -> Writing]]
  BY GroupType
<1>5. PICK g : Runs(g, m, Writing, start, round)
  <2> HIDE DEF round
  <2>1. QED
    BY <1>2, <1>3, <1>4, LoopRuns
<1>6. ASSUME NEW i \in 1 .. m PROVE g[i] = Group(g[i - 1])
  <2>1. i - 1 \in 0 .. m /\ g[i - 1] \in Writing
    BY <1>2, <1>5 DEF Runs
  <2>2. QED
    BY <1>5, <2>1 DEF Runs
<1>7. Is(g)
  BY <1>2, <1>5, <1>6 DEF Runs
<1>8. Is(after)
  BY <1>7, Zenon
<1> HIDE DEF after
<1>9. \A i \in 0 .. m : after[i] = IF i = 0 THEN start ELSE Group(after[i - 1])
  BY <1>2, <1>8
<1>10. after[0] = start /\ \A i \in 1 .. m : after[i] = Group(after[i - 1])
  BY <1>2, <1>9
<1>11. after[0] \in Writing /\ \A i \in 1 .. m : after[i - 1] \in Writing => after[i] \in Writing
  BY <1>3, <1>10, GroupType
<1>12. \A i \in 0 .. m : after[i] \in Writing
  BY <1>2, <1>11, LoopStays
<1>13. QED
  BY <1>1, <1>2, <1>10, <1>12 DEF Writes, start, m

\* A reader's states on the bytes s: the number read so far.
Accumulates(n, s, m) ==
    /\ n[0] = 0
    /\ \A k \in 1 .. m : n[k] = (n[k - 1] * Half + (s[k] % Half) + IF s[k] < Half THEN 0 ELSE 1) % Word

\* ReadVarInt stops at the first byte without a continuation bit.
LEMMA ReadLoop ==
    ASSUME NEW s \in Seq(Byte), NEW m \in 1 .. Len(s), s[m] < Half,
           \A k \in 1 .. m - 1 : s[k] >= Half
    PROVE  \E n \in [0 .. m -> Nat] :
              /\ Accumulates(n, s, m)
              /\ ReadVarInt(s) = Ok(n[m], SubSeq(s, m + 1, Len(s)))
<1> DEFINE ends == {k \in DOMAIN s : s[k] < Half}
           last == CHOOSE k \in ends : \A j \in ends : k <= j
           Add(p, k) == (p * Half + (s[k] % Half) + IF s[k] < Half THEN 0 ELSE 1) % Word
           round == [k \in 1 .. m |-> [p \in Nat |-> Add(p, k)]]
           Is(g) == g = [k \in 0 .. last |-> IF k = 0 THEN 0 ELSE Add(g[k - 1], k)]
           n == CHOOSE g : Is(g)
<1>1. ReadVarInt(s) = IF ends = {} THEN Fail("eof") ELSE Ok(n[last], SubSeq(s, last + 1, Len(s)))
  BY Zenon DEF ReadVarInt
<1>2. m \in Nat /\ Len(s) \in Nat /\ DOMAIN s = 1 .. Len(s) /\ \A k \in 1 .. Len(s) : s[k] \in Byte /\ s[k] \in Nat
  BY ByteFacts DEF Byte
<1>3. m \in ends /\ \A j \in ends : j \in Nat /\ m <= j
  <2>1. m \in ends
    BY <1>2
  <2>2. ASSUME NEW j \in ends PROVE j \in Nat /\ m <= j
    <3>1. j \in 1 .. Len(s) /\ s[j] < Half
      BY <1>2
    <3>2. CASE j < m
      <4>1. s[j] >= Half
        BY <3>1, <3>2
      <4>2. QED
        BY <1>2, <3>1, <4>1, ByteFacts
    <3>3. QED
      BY <3>1, <3>2
  <2>3. QED
    BY <2>1, <2>2
<1>4. last = m
  <2> HIDE DEF ends
  <2>1. last \in ends /\ \A j \in ends : last <= j
    BY <1>3
  <2> HIDE DEF last
  <2>2. last \in Nat /\ m <= last /\ last <= m
    BY <1>3, <2>1
  <2>3. QED
    BY <1>2, <2>2
<1>5. ends # {}
  BY <1>3
<1> HIDE DEF last, ends
<1>6. ASSUME NEW k \in 1 .. m, NEW p \in Nat PROVE Add(p, k) \in Nat
  <2>1. s[k] \in Nat /\ Half \in Nat \ {0} /\ Word \in Nat \ {0}
    BY <1>2, ByteFacts
  <2>2. p * Half \in Nat /\ s[k] % Half \in Nat
    BY <2>1
  <2>3. (IF s[k] < Half THEN 0 ELSE 1) \in Nat
    OBVIOUS
  <2>4. \A a, b, c \in Nat : (a + b + c) % Word \in Nat
    BY <2>1
  <2>5. QED
    BY <2>2, <2>3, <2>4
<1> HIDE DEF Add
<1>7. round \in [1 .. m -> [Nat -> Nat]]
  BY <1>6
<1>8. PICK g : Runs(g, m, Nat, 0, round)
  <2> HIDE DEF round
  <2>1. QED
    BY <1>2, <1>7, LoopRuns
<1>9. ASSUME NEW k \in 1 .. m PROVE g[k] = Add(g[k - 1], k)
  <2>1. k - 1 \in 0 .. m /\ g[k - 1] \in Nat
    BY <1>2, <1>8 DEF Runs
  <2>2. QED
    BY <1>8, <2>1 DEF Runs
<1>10. Is(g)
  BY <1>2, <1>4, <1>8, <1>9 DEF Runs
<1>11. Is(n)
  BY <1>10, Zenon
<1> HIDE DEF n
<1>12. n = [k \in 0 .. m |-> n[k]] /\ \A k \in 0 .. m : n[k] = IF k = 0 THEN 0 ELSE Add(n[k - 1], k)
  BY <1>4, <1>11
<1>13. n[0] = 0 /\ \A k \in 1 .. m : n[k] = Add(n[k - 1], k)
  <2>1. 0 \in 0 .. m /\ \A k \in 1 .. m : k \in 0 .. m /\ k # 0
    BY <1>2
  <2>2. QED
    BY <1>12, <2>1, Zenon
<1>14. n[0] \in Nat /\ \A k \in 1 .. m : n[k - 1] \in Nat => n[k] \in Nat
  <2>1. 0 \in Nat
    OBVIOUS
  <2>2. QED
    BY <1>6, <1>13, <2>1, Zenon
<1>15. \A k \in 0 .. m : n[k] \in Nat
  BY <1>2, <1>14, LoopStays
<1>16. n \in [0 .. m -> Nat]
  BY <1>12, <1>15
<1>17. ReadVarInt(s) = Ok(n[m], SubSeq(s, m + 1, Len(s)))
  BY <1>1, <1>4, <1>5
<1>18. QED
  BY <1>13, <1>16, <1>17 DEF Accumulates, Add

\* The bytes t.buf, read by a reader that stands at t.n, give n: a are its numbers.
Trace(a, t, n) ==
    LET len == Len(t.buf) IN
    /\ len > 0 /\ t.buf[len] < Half /\ \A k \in 1 .. len - 1 : t.buf[k] >= Half
    /\ a[0] = t.n /\ a[len] = n
    /\ \A k \in 0 .. len : a[k] \in 0 .. n
    /\ \A k \in 1 .. len :
          a[k] = a[k - 1] * Half + (t.buf[k] % Half) + IF t.buf[k] < Half THEN 0 ELSE 1

\* The last byte alone is read as the number from the groups above it.
LEMMA TraceStart ==
    ASSUME NEW n \in Nat
    PROVE  \E a : Trace(a, [n |-> n \div Half, buf |-> <<n % Half>>], n)
<1> DEFINE q == n \div Half
           r == n % Half
           t == [n |-> q, buf |-> <<r>>]
           a == [k \in 0 .. 1 |-> IF k = 0 THEN q ELSE n]
<1>1. Half \in Nat \ {0} /\ q \in Nat /\ r \in 0 .. Half - 1 /\ n = Half * q + r
  BY ByteFacts, DivMod
<1> HIDE DEF q, r
<1>2. r % Half = r /\ r < Half
  BY <1>1
<1>3. q <= n
  BY <1>1
<1>4. Len(t.buf) = 1 /\ t.buf[1] = r /\ t.n = q
  OBVIOUS
<1>5. a[0] = q /\ a[1] = n
  OBVIOUS
<1> HIDE DEF t, a
<1>6. n = q * Half + (r % Half) + 0
  BY <1>1, <1>2
<1>7. 0 .. 1 = {0, 1} /\ 1 .. 1 = {1} /\ 1 .. 1 - 1 = {}
  OBVIOUS
<1>8. Trace(a, t, n)
  <2>1. \A k \in 0 .. 1 : a[k] \in 0 .. n
    BY <1>1, <1>3, <1>5, <1>7
  <2>2. a[1] = a[1 - 1] * Half + (t.buf[1] % Half) + IF t.buf[1] < Half THEN 0 ELSE 1
    BY <1>2, <1>4, <1>5, <1>6
  <2>3. QED
    BY <1>2, <1>4, <1>5, <1>7, <2>1, <2>2 DEF Trace
<1>9. QED
  BY <1>8 DEF t, q, r

\* A round keeps what is read.
LEMMA TraceGroup ==
    ASSUME NEW n \in Nat, NEW t \in Writing, NEW a, Trace(a, t, n)
    PROVE  \E b : Trace(b, Group(t), n)
<1>1. CASE t.n = 0
  BY <1>1 DEF Group
<1>2. CASE t.n # 0
  <2> DEFINE m == t.n
             q == (t.n - 1) \div Half
             r == (t.n - 1) % Half
             len == Len(t.buf)
             c == Half + r
             buf == <<c>> \o t.buf
             u == [n |-> q, buf |-> buf]
             b == [k \in 0 .. len + 1 |-> IF k = 0 THEN q ELSE a[k - 1]]
  <2>1. m \in Nat \ {0} /\ t.buf \in Seq(Byte) /\ len \in Nat /\ Half \in Nat \ {0} /\ m - 1 \in Nat
    BY <1>2, ByteFacts DEF Writing
  <2>2. q \in Nat /\ r \in 0 .. Half - 1 /\ m - 1 = Half * q + r
    BY <2>1, DivMod
  <2>3. Group(t) = u
    BY <1>2 DEF Group
  <2> HIDE DEF q, r
  <2>4. c \in Byte /\ c >= Half /\ ~(c < Half) /\ c % Half = r
    <3>1. c = Half * 1 + r /\ c \in Byte
      BY <2>1, <2>2, ByteFacts DEF Byte
    <3>2. c % Half = r
      <4>1. (Half * 1 + r) % Half = r
        BY <2>1, <2>2, DivUnique
      <4>2. QED
        BY <3>1, <4>1
    <3>3. QED
      BY <2>1, <2>2, <3>1, <3>2
  <2> HIDE DEF c
  <2>5. Len(buf) = len + 1 /\ buf[1] = c /\ \A k \in 1 .. len : buf[k + 1] = t.buf[k]
    BY <2>1, <2>4
  <2> HIDE DEF buf
  <2>6. u.n = q /\ u.buf = buf
    OBVIOUS
  <2> HIDE DEF u
  <2>7. \A k \in 0 .. len : a[k] \in 0 .. n
    BY DEF Trace
  <2>8. a[0] = m /\ a[len] = n /\ len > 0
    BY DEF Trace
  <2>9. b[0] = q /\ \A k \in 0 .. len : b[k + 1] = a[k]
    BY <2>1
  <2> HIDE DEF b, len
  <2>10. \A k \in 0 .. len + 1 : k = 0 \/ (k - 1 \in 0 .. len /\ (k - 1) + 1 = k)
    BY <2>1
  <2>11. q <= m /\ m <= n
    <3>1. m \in 0 .. n
      BY <2>1, <2>7, <2>8
    <3>2. QED
      BY <2>1, <2>2, <3>1
  <2>12. \A k \in 0 .. len + 1 : b[k] \in 0 .. n
    <3>1. q \in 0 .. n
      BY <2>1, <2>2, <2>11
    <3>2. \A k \in 0 .. len : b[k + 1] \in 0 .. n
      BY <2>7, <2>9
    <3>3. QED
      BY <2>9, <2>10, <3>1, <3>2
  <2>13. b[1] = b[0] * Half + (buf[1] % Half) + 1
    <3>1. b[0 + 1] = a[0]
      BY <2>1, <2>9
    <3>2. b[1] = m /\ b[0] = q
      BY <2>8, <2>9, <3>1
    <3>3. QED
      BY <2>1, <2>2, <2>4, <2>5, <3>2
  <2>14. ASSUME NEW k \in 1 .. len
         PROVE  b[k + 1] = b[k] * Half + (buf[k + 1] % Half) + IF buf[k + 1] < Half THEN 0 ELSE 1
    <3>1. a[k] = a[k - 1] * Half + (t.buf[k] % Half) + IF t.buf[k] < Half THEN 0 ELSE 1
      BY DEF Trace, len
    <3>2. b[k + 1] = a[k] /\ b[(k - 1) + 1] = a[k - 1] /\ (k - 1) + 1 = k
      BY <2>1, <2>9
    <3>3. QED
      BY <2>5, <3>1, <3>2
  <2>15. ASSUME NEW k \in 1 .. len + 1
         PROVE  b[k] = b[k - 1] * Half + (buf[k] % Half) + IF buf[k] < Half THEN 0 ELSE 1
    <3>1. CASE k = 1
      BY <2>4, <2>5, <2>13, <3>1
    <3>2. CASE k # 1
      <4>1. k - 1 \in 1 .. len /\ (k - 1) + 1 = k
        BY <2>1, <3>2
      <4>2. QED
        BY <2>14, <4>1
    <3>3. QED
      BY <3>1, <3>2
  <2>16. ASSUME NEW k \in 1 .. len PROVE buf[k] >= Half
    <3>1. CASE k = 1
      BY <2>4, <2>5, <3>1
    <3>2. CASE k # 1
      <4>1. k - 1 \in 1 .. len /\ k - 1 \in 1 .. len - 1 /\ (k - 1) + 1 = k
        BY <2>1, <3>2
      <4>2. t.buf[k - 1] >= Half
        BY <4>1 DEF Trace, len
      <4>3. buf[k] = t.buf[k - 1]
        BY <2>5, <4>1
      <4>4. QED
        BY <4>2, <4>3
    <3>3. QED
      BY <3>1, <3>2
  <2>17. b[len + 1] = n /\ buf[len + 1] < Half
    <3>1. len \in 1 .. len /\ len \in 0 .. len
      BY <2>1, <2>8
    <3>2. t.buf[len] < Half
      BY DEF Trace, len
    <3>3. QED
      BY <2>5, <2>8, <2>9, <3>1, <3>2
  <2>18. Len(u.buf) = len + 1 /\ (len + 1) - 1 = len /\ len + 1 > 0
    BY <2>1, <2>5, <2>6
  <2>19. Trace(b, u, n)
    <3>1. \A k \in 1 .. (len + 1) - 1 : buf[k] >= Half
      BY <2>16, <2>18
    <3>2. QED
      BY <2>6, <2>9, <2>12, <2>15, <2>17, <2>18, <3>1, Zenon DEF Trace
  <2>20. QED
    BY <2>3, <2>19
<1>3. QED
  BY <1>1, <1>2

\* The buffer has room for all groups: nothing is left at the end.
LEMMA NothingLeft ==
    ASSUME NEW n \in 0 .. Word - 1, NEW after, Writes(after, n)
    PROVE  after[BufLen - 1].n = 0
<1> DEFINE m == BufLen - 1
           P(i) == Power(Half, m - i)
           T == {i \in 0 .. m : after[i].n < P(i)}
<1>1. m \in Nat /\ Half \in Nat \ {0} /\ n \in Nat /\ BufLen \in Nat /\ BufLen = m + 1
  BY ByteFacts, RadixAssumption
<1>2. n < Half * P(0)
  <2>1. PICK k \in 1 .. BufLen : Word <= Power(Half, k)
    BY RadixAssumption
  <2>2. k \in 0 .. BufLen
    BY <1>1
  <2>3. Power(Half, k) <= Power(Half, BufLen) /\ Power(Half, k) \in Nat
    BY <1>1, <2>2, PowersGrow
  <2>4. Power(Half, m + 1) = Half * Power(Half, m) /\ Power(Half, m) \in Nat
    BY <1>1, Powers
  <2>5. Half * Power(Half, m) \in Nat /\ Word \in Nat
    BY <1>1, <2>4, ByteFacts
  <2>6. n < Half * Power(Half, m)
    BY <1>1, <2>1, <2>3, <2>4, <2>5
  <2>7. P(0) = Power(Half, m)
    BY <1>1
  <2>8. QED
    BY <2>6, <2>7
<1>3. \A i \in 0 .. m : P(i) \in Nat
  <2>1. \A i \in 0 .. m : m - i \in Nat
    BY <1>1
  <2>2. QED
    BY <1>1, <2>1, Powers
<1>4. ASSUME NEW i \in 0 .. m - 1 PROVE P(i) = Half * P(i + 1)
  <2>1. m - (i + 1) \in Nat /\ (m - (i + 1)) + 1 = m - i
    BY <1>1
  <2>2. QED
    BY <1>1, <2>1, Powers
<1>5. P(m) = 1
  <2>1. m - m = 0
    BY <1>1
  <2>2. QED
    BY <1>1, <2>1, Powers
<1>6. \A i \in 0 .. m : after[i].n \in Nat
  <2>1. \A i \in 0 .. m : after[i] \in Writing
    BY DEF Writes
  <2>2. QED
    BY <2>1 DEF Writing
<1> HIDE DEF P, m
<1>7. 0 \in T
  <2>1. after[0].n = n \div Half
    BY DEF Writes
  <2>2. n \div Half < P(0)
    BY <1>1, <1>2, <1>3, DivBelow
  <2>3. QED
    BY <1>1, <2>1, <2>2
<1>8. ASSUME NEW i \in 0 .. m - 1, i \in T PROVE i + 1 \in T
  <2>1. i + 1 \in 0 .. m /\ i + 1 \in 1 .. m /\ (i + 1) - 1 = i /\ i \in 0 .. m
    BY <1>1
  <2>2. after[i + 1] = Group(after[i])
    BY <2>1 DEF Writes, m
  <2>3. after[i].n \in Nat /\ after[i].n < P(i) /\ P(i) = Half * P(i + 1) /\ P(i + 1) \in Nat
    BY <1>3, <1>4, <1>6, <1>8, <2>1
  <2>4. CASE after[i].n = 0
    <3>1. after[i + 1].n = 0
      BY <2>2, <2>4 DEF Group
    <3>2. P(i + 1) # 0
      BY <1>1, <2>3, <2>4
    <3>3. QED
      BY <2>1, <2>3, <3>1, <3>2
  <2>5. CASE after[i].n # 0
    <3> DEFINE p == after[i].n
    <3>1. after[i + 1].n = (p - 1) \div Half
      BY <2>2, <2>5 DEF Group
    <3> HIDE DEF p
    <3>2. p - 1 \in Nat /\ p - 1 < Half * P(i + 1)
      BY <1>1, <2>3, <2>5 DEF p
    <3>3. (p - 1) \div Half < P(i + 1)
      BY <1>1, <2>3, <3>2, DivBelow
    <3>4. QED
      BY <2>1, <3>1, <3>3
  <2>6. QED
    BY <2>4, <2>5
<1> HIDE DEF T
<1>9. m \in T
  <2>1. 0 .. m \subseteq T
    BY <1>1, <1>7, <1>8, UpTo
  <2>2. QED
    BY <1>1, <2>1
<1>10. after[m].n < 1 /\ after[m].n \in Nat
  BY <1>1, <1>5, <1>6, <1>9 DEF T
<1>11. QED
  BY <1>10 DEF m

\* What WriteVarInt writes reads as the number, from zero.
LEMMA WrittenTrace ==
    ASSUME NEW n \in 0 .. Word - 1
    PROVE  /\ WriteVarInt(n) \in Seq(Byte)
           /\ \E a : Trace(a, [n |-> 0, buf |-> WriteVarInt(n)], n)
<1>1. n \in Nat /\ BufLen - 1 \in Nat
  BY RadixAssumption
<1>2. PICK after : Writes(after, n)
  BY <1>1, WriteLoop
<1> DEFINE m == BufLen - 1
           T == {i \in 0 .. m : \E a : Trace(a, after[i], n)}
<1>3. 0 \in T
  <2>1. \E a : Trace(a, after[0], n)
    BY <1>1, <1>2, TraceStart DEF Writes
  <2>2. QED
    BY <1>1, <2>1
<1>4. ASSUME NEW i \in 0 .. m - 1, i \in T PROVE i + 1 \in T
  <2>1. i + 1 \in 0 .. m /\ i + 1 \in 1 .. m /\ (i + 1) - 1 = i /\ i \in 0 .. m
    BY <1>1
  <2>2. after[i + 1] = Group(after[i]) /\ after[i] \in Writing
    BY <1>2, <2>1 DEF Writes
  <2>3. PICK a : Trace(a, after[i], n)
    BY <1>4
  <2>4. \E b : Trace(b, Group(after[i]), n)
    BY <1>1, <2>2, <2>3, TraceGroup
  <2>5. QED
    BY <2>1, <2>2, <2>4
<1>5. m \in T
  <2> HIDE DEF T
  <2>1. 0 .. m \subseteq T
    BY <1>1, <1>3, <1>4, UpTo
  <2>2. QED
    BY <1>1, <2>1
<1>6. after[m].n = 0 /\ after[m] \in Writing /\ WriteVarInt(n) = after[m].buf
  <2>1. m \in 0 .. m
    BY <1>1
  <2>2. QED
    BY <1>2, <2>1, NothingLeft DEF Writes
<1>7. PICK a : Trace(a, after[m], n)
  BY <1>5
<1> HIDE DEF m, T
<1>8. Trace(a, [n |-> 0, buf |-> WriteVarInt(n)], n)
  BY <1>6, <1>7 DEF Trace
<1>9. WriteVarInt(n) \in Seq(Byte)
  BY <1>6 DEF Writing
<1>10. QED
  BY <1>8, <1>9

\* A VarInt reads back as it was written, whatever follows it.
LEMMA VarIntReadsBack ==
    ASSUME NEW n \in 0 .. Word - 1, NEW follows \in Seq(Byte)
    PROVE  ReadVarInt(WriteVarInt(n) \o follows) = Ok(n, follows)
<1> DEFINE w == WriteVarInt(n)
           len == Len(w)
           s == w \o follows
<1>1. w \in Seq(Byte)
  BY WrittenTrace
<1>2. PICK a : Trace(a, [n |-> 0, buf |-> w], n)
  BY WrittenTrace
<1>3. /\ len > 0 /\ w[len] < Half /\ \A k \in 1 .. len - 1 : w[k] >= Half
      /\ a[0] = 0 /\ a[len] = n
      /\ \A k \in 0 .. len : a[k] \in 0 .. n
      /\ \A k \in 1 .. len : a[k] = a[k - 1] * Half + (w[k] % Half) + IF w[k] < Half THEN 0 ELSE 1
  BY <1>2, Zenon DEF Trace
<1> HIDE DEF w
<1>4. len \in Nat /\ n \in Nat /\ n < Word /\ Word \in Nat \ {0}
  BY <1>1, ByteFacts
<1>5. s \in Seq(Byte) /\ Len(s) = len + Len(follows) /\ (\A k \in 1 .. len : s[k] = w[k])
      /\ SubSeq(s, len + 1, Len(s)) = follows
  BY <1>1
<1> HIDE DEF len, s
<1>6. len \in 1 .. Len(s) /\ s[len] < Half /\ \A k \in 1 .. len - 1 : s[k] >= Half
  <2>1. Len(follows) \in Nat /\ len \in 1 .. len /\ \A k \in 1 .. len - 1 : k \in 1 .. len
    BY <1>3, <1>4
  <2>2. len \in 1 .. Len(s)
    BY <1>3, <1>4, <1>5, <2>1
  <2>3. s[len] < Half
    BY <1>3, <1>5, <2>1
  <2>4. \A k \in 1 .. len - 1 : s[k] >= Half
    BY <1>3, <1>5, <2>1
  <2>5. QED
    BY <2>2, <2>3, <2>4
<1>7. PICK v \in [0 .. len -> Nat] : Accumulates(v, s, len) /\ ReadVarInt(s) = Ok(v[len], SubSeq(s, len + 1, Len(s)))
  BY <1>5, <1>6, ReadLoop
<1> DEFINE T == {k \in 0 .. len : v[k] = a[k]}
<1>8. 0 \in T
  BY <1>3, <1>4, <1>7 DEF Accumulates
<1>9. ASSUME NEW k \in 0 .. len - 1, k \in T PROVE k + 1 \in T
  <2>1. k + 1 \in 1 .. len /\ (k + 1) - 1 = k /\ k + 1 \in 0 .. len
    BY <1>4
  <2> DEFINE Sum(p) == p * Half + (w[k + 1] % Half) + IF w[k + 1] < Half THEN 0 ELSE 1
  <2>2. a[k + 1] = Sum(a[k])
    BY <1>3, <2>1
  <2>3. v[k + 1] = Sum(v[k]) % Word
    BY <1>5, <1>7, <2>1 DEF Accumulates
  <2>4. v[k] = a[k]
    BY <1>9
  <2> HIDE DEF Sum
  <2>5. v[k + 1] = a[k + 1] % Word
    BY <2>2, <2>3, <2>4
  <2>6. a[k + 1] \in 0 .. n
    BY <1>3, <2>1
  <2>7. a[k + 1] % Word = a[k + 1]
    <3>1. a[k + 1] \in 0 .. Word - 1
      BY <1>4, <2>6
    <3>2. QED
      BY <3>1, FitsWord
  <2>8. QED
    BY <2>1, <2>5, <2>7
<1> HIDE DEF T
<1>10. len \in T
  <2>1. 0 .. len \subseteq T
    BY <1>4, <1>8, <1>9, UpTo
  <2>2. QED
    BY <1>4, <2>1
<1>11. v[len] = n
  BY <1>3, <1>10 DEF T
<1>12. QED
  BY <1>5, <1>7, <1>11 DEF s, w

\* Where a VarInt ends, if it can be read at all.
LEMMA VarIntEnds ==
    ASSUME NEW s \in Seq(Byte), ReadVarInt(s).ok
    PROVE  \E m \in 1 .. Len(s) : s[m] < Half /\ \A k \in 1 .. m - 1 : s[k] >= Half
<1> DEFINE ends == {k \in DOMAIN s : s[k] < Half}
<1>1. ends # {}
  <2> SUFFICES ASSUME ends = {} PROVE FALSE
    OBVIOUS
  <2>1. ReadVarInt(s) = Fail("eof")
    BY Zenon DEF ReadVarInt
  <2>2. QED
    BY <2>1 DEF Fail
<1>2. DOMAIN s = 1 .. Len(s) /\ Len(s) \in Nat /\ \A k \in 1 .. Len(s) : s[k] \in Nat
  BY ByteFacts DEF Byte
<1>3. ends \in SUBSET Nat
  BY <1>2
<1>4. PICK m \in ends : \A j \in ends : m <= j
  <2> HIDE DEF ends
  <2>1. QED
    BY <1>1, <1>3, LeastNumber
<1>5. m \in 1 .. Len(s) /\ s[m] < Half
  BY <1>2, <1>4
<1>6. ASSUME NEW k \in 1 .. m - 1 PROVE s[k] >= Half
  <2>1. k \in 1 .. Len(s) /\ ~(m <= k)
    BY <1>2, <1>5
  <2>2. ~(s[k] < Half)
    BY <1>2, <1>4, <2>1
  <2>3. QED
    BY <1>2, <2>1, <2>2, ByteFacts
<1>7. QED
  BY <1>5, <1>6

\* What a reader adds for a byte.
Added(p, b) == p * Half + (b % Half) + IF b < Half THEN 0 ELSE 1

\* A byte more, and the number stays below twice the power.
LEMMA AddedBound ==
    ASSUME NEW a \in Nat, NEW h \in Nat, h >= 2, NEW d \in 0 .. h - 1, NEW c \in {0, 1},
           NEW p \in Nat, a + 2 <= 2 * p
    PROVE  a * h + d + c \in Nat /\ a * h + d + c + 2 <= 2 * (h * p) /\ h * p \in Nat
<1>1. a * h \in Nat /\ h * p \in Nat
  OBVIOUS
<1>2. \A x, y \in Nat : x <= y => x * h <= y * h
  OBVIOUS
<1>3. (a + 2) * h <= (2 * p) * h
  BY <1>2
<1>4. (a + 2) * h = a * h + 2 * h /\ (2 * p) * h = 2 * (h * p)
  OBVIOUS
<1> DEFINE ah == a * h
           hp == h * p
<1>5. ah + 2 * h <= 2 * hp
  BY <1>3, <1>4
<1>6. ah \in Nat /\ hp \in Nat
  BY <1>1
<1> HIDE DEF ah, hp
<1>7. ah + d + c \in Nat /\ ah + d + c + 2 <= 2 * hp
  BY <1>5, <1>6
<1>8. QED
  BY <1>1, <1>7 DEF ah, hp

\* A reader does not wrap around within the first bytes.
LEMMA NoOverflow ==
    ASSUME NEW width \in 1 .. BufLen, 2 * Power(Half, width) <= Word,
           NEW s \in Seq(Byte), NEW m \in 1 .. Len(s), m <= width,
           NEW v \in [0 .. m -> Nat], Accumulates(v, s, m)
    PROVE  v[m] < Word /\ \A k \in 1 .. m : v[k] = Added(v[k - 1], s[k])
<1> DEFINE P(k) == Power(Half, k)
           T == {k \in 0 .. m : v[k] + 2 <= 2 * P(k) /\ (k # 0 => v[k] = Added(v[k - 1], s[k]))}
<1>1. m \in Nat /\ width \in Nat /\ Half \in Nat \ {0} /\ Half >= 2 /\ Word \in Nat \ {0}
  BY RadixAssumption, ByteFacts
<1>2. \A k \in 0 .. width : P(k) \in Nat /\ P(k) <= P(width)
  BY <1>1, PowersGrow
<1>3. \A k \in 0 .. width : P(0) = 1 /\ P(k + 1) = Half * P(k)
  BY <1>1, Powers
<1>4. \A k \in 0 .. m : v[k] \in Nat /\ k \in 0 .. width
  BY <1>1
<1> HIDE DEF P
<1>5. 2 * P(width) <= Word
  BY DEF P
<1>6. 0 \in T
  <2>1. v[0] = 0
    BY DEF Accumulates
  <2>2. QED
    BY <1>1, <1>3, <1>4, <2>1
<1>7. ASSUME NEW k \in 0 .. m - 1, k \in T PROVE k + 1 \in T
  <2> DEFINE x == Added(v[k], s[k + 1])
             d == s[k + 1] % Half
             c == IF s[k + 1] < Half THEN 0 ELSE 1
  <2>1. k + 1 \in 1 .. m /\ k + 1 \in 0 .. m /\ (k + 1) - 1 = k /\ k \in 0 .. m /\ k \in 0 .. width /\ k + 1 \in 0 .. width
    BY <1>1
  <2>2. s[k + 1] \in Nat /\ d \in 0 .. Half - 1 /\ c \in {0, 1}
    <3>1. s[k + 1] \in Nat
      BY <2>1, ByteFacts DEF Byte
    <3>2. QED
      BY <1>1, <3>1, DivMod
  <2>3. x = v[k] * Half + d + c
    BY DEF Added
  <2>4. v[k + 1] = x % Word
    BY <2>1 DEF Accumulates, Added
  <2> HIDE DEF x, d, c
  <2>5. v[k] \in Nat /\ v[k] + 2 <= 2 * P(k) /\ P(k) \in Nat /\ P(k + 1) \in Nat /\ P(k + 1) = Half * P(k)
    BY <1>2, <1>3, <1>4, <1>7, <2>1
  <2>6. x \in Nat /\ x + 2 <= 2 * P(k + 1)
    <3>1. x \in Nat /\ x + 2 <= 2 * (Half * P(k))
      BY <1>1, <2>2, <2>3, <2>5, AddedBound
    <3>2. QED
      BY <2>5, <3>1
  <2>10. x < Word
    <3>1. P(k + 1) <= P(width) /\ P(width) \in Nat /\ P(k + 1) \in Nat
      BY <1>1, <1>2, <2>1
    <3>2. \A y, z \in Nat : x + 2 <= 2 * y /\ y <= z /\ 2 * z <= Word => x < Word
      BY <1>1, <2>6
    <3>3. QED
      BY <1>5, <2>6, <3>1, <3>2
  <2>11. v[k + 1] = x
    <3>1. x \in 0 .. Word - 1
      BY <1>1, <2>6, <2>10
    <3>2. QED
      BY <2>4, <3>1, FitsWord
  <2>12. v[k + 1] = Added(v[(k + 1) - 1], s[k + 1])
    BY <2>1, <2>11 DEF x
  <2>13. QED
    BY <2>1, <2>6, <2>11, <2>12
<1> HIDE DEF T
<1>8. 0 .. m \subseteq T
  BY <1>1, <1>6, <1>7, UpTo
<1>9. \A k \in 1 .. m : k \in 0 .. m /\ k # 0
  BY <1>1
<1>10. \A k \in 1 .. m : v[k] = Added(v[k - 1], s[k])
  BY <1>8, <1>9 DEF T
<1>11. v[m] < Word
  <2>1. m \in 0 .. m /\ m \in 0 .. width
    BY <1>1
  <2>2. v[m] \in Nat /\ v[m] + 2 <= 2 * P(m) /\ P(m) \in Nat /\ P(width) \in Nat /\ P(m) <= P(width)
    BY <1>1, <1>2, <1>4, <1>8, <2>1 DEF T
  <2>3. QED
    BY <1>1, <1>5, <2>2
<1>12. QED
  BY <1>10, <1>11

\* A byte that was read is the one that is written for the number it led to.
LEMMA AddedBack ==
    ASSUME NEW p \in Nat, NEW b \in Byte, NEW x, x = Added(p, b)
    PROVE  /\ b < Half => x \div Half = p /\ x % Half = b
           /\ b >= Half => /\ x - 1 \in Nat /\ (x - 1) \div Half = p
                           /\ Half + ((x - 1) % Half) = b
<1>1. Half \in Nat \ {0} /\ b \in Nat /\ b < 2 * Half /\ p * Half = Half * p /\ Half * p \in Nat
  BY ByteFacts DEF Byte
<1>2. CASE b < Half
  <2>1. b \in 0 .. Half - 1 /\ b % Half = b
    BY <1>1, <1>2
  <2>2. x = Half * p + b
    <3>1. x = p * Half + (b % Half) + 0
      BY <1>2 DEF Added
    <3>2. x = Half * p + b + 0
      BY <1>1, <2>1, <3>1, Zenon
    <3>3. \A u \in Nat : u + b + 0 = u + b
      BY <1>1
    <3>4. QED
      BY <1>1, <3>2, <3>3, Zenon
  <2>3. x \div Half = p /\ x % Half = b
    BY <1>1, <2>1, <2>2, DivUnique
  <2>4. QED
    BY <1>1, <1>2, <2>3
<1>3. CASE b >= Half
  <2>1. b - Half \in 0 .. Half - 1 /\ b = Half * 1 + (b - Half)
    BY <1>1, <1>3
  <2>2. b % Half = b - Half
    <3>1. (Half * 1 + (b - Half)) % Half = b - Half
      BY <1>1, <2>1, DivUnique
    <3>2. QED
      BY <2>1, <3>1
  <2>3. x = Half * p + (b - Half) + 1
    <3>1. ~(b < Half)
      BY <1>1, <1>3
    <3>2. x = p * Half + (b % Half) + 1
      BY <3>1 DEF Added
    <3>3. QED
      BY <1>1, <2>1, <2>2, <3>2
  <2>4. x - 1 = Half * p + (b - Half) /\ x - 1 \in Nat
    BY <1>1, <2>1, <2>3
  <2>5. (x - 1) \div Half = p /\ (x - 1) % Half = b - Half
    BY <1>1, <2>1, <2>4, DivUnique
  <2>6. Half + ((x - 1) % Half) = b
    BY <1>1, <2>5
  <2>7. QED
    BY <1>1, <1>3, <2>4, <2>5, <2>6
<1>4. QED
  BY <1>1, <1>2, <1>3

\* A part of a sequence, from its first element on.
LEMMA SubSeqFirst ==
    ASSUME NEW S, NEW s \in Seq(S), NEW k \in 1 .. Len(s), NEW m \in k .. Len(s)
    PROVE  <<s[k]>> \o SubSeq(s, k + 1, m) = SubSeq(s, k, m)
<1> DEFINE a == <<s[k]>> \o SubSeq(s, k + 1, m)
           b == SubSeq(s, k, m)
<1>1. Len(s) \in Nat /\ s[k] \in S /\ SubSeq(s, k + 1, m) \in Seq(S) /\ Len(SubSeq(s, k + 1, m)) = m - k
  <2>1. CASE m = k
    BY <2>1
  <2>2. CASE m # k
    BY <2>2
  <2>3. QED
    BY <2>1, <2>2
<1>2. a \in Seq(S) /\ Len(a) = m - k + 1 /\ b \in Seq(S) /\ Len(b) = m - k + 1
  BY <1>1
<1>3. ASSUME NEW i \in 1 .. m - k + 1 PROVE a[i] = b[i]
  <2>1. b[i] = s[k + i - 1]
    OBVIOUS
  <2>2. CASE i = 1
    BY <1>1, <2>1, <2>2
  <2>3. CASE i # 1
    <3>1. i - 1 \in 1 .. m - k
      BY <2>3
    <3>2. a[i] = SubSeq(s, k + 1, m)[i - 1]
      BY <1>1, <2>3, <3>1
    <3>3. SubSeq(s, k + 1, m)[i - 1] = s[(k + 1) + (i - 1) - 1]
      BY <3>1
    <3>4. (k + 1) + (i - 1) - 1 = k + i - 1
      OBVIOUS
    <3>5. QED
      BY <2>1, <3>2, <3>3, <3>4
  <2>4. QED
    BY <2>2, <2>3
<1> HIDE DEF a, b
<1>4. a = b
  BY <1>2, <1>3, SeqEqual
<1>5. QED
  BY <1>4 DEF a, b

\* The write loop goes back over the bytes that were read.
LEMMA WritesBack ==
    ASSUME NEW s \in Seq(Byte), NEW m \in 1 .. Len(s), m <= BufLen,
           s[m] < Half, \A k \in 1 .. m - 1 : s[k] >= Half,
           NEW v \in [0 .. m -> Nat], v[0] = 0, \A k \in 1 .. m : v[k] = Added(v[k - 1], s[k])
    PROVE  WriteVarInt(v[m]) = SubSeq(s, 1, m)
<1> DEFINE last == BufLen - 1
           State(j) == [n |-> v[m - 1 - j], buf |-> SubSeq(s, m - j, m)]
<1>1. m \in Nat /\ BufLen \in Nat /\ last \in Nat /\ m - 1 \in 0 .. last /\ v[m] \in Nat /\ Len(s) \in Nat
  BY RadixAssumption
<1>2. PICK after : Writes(after, v[m])
  BY <1>1, WriteLoop
<1>3. \A k \in 1 .. m : s[k] \in Byte /\ v[k - 1] \in Nat
  BY <1>1
<1>4. after[0] = State(0)
  <2>1. v[m] = Added(v[m - 1], s[m]) /\ s[m] \in Byte /\ v[m - 1] \in Nat
    BY <1>1, <1>3
  <2>2. v[m] \div Half = v[m - 1] /\ v[m] % Half = s[m]
    BY <2>1, AddedBack
  <2>3. after[0] = [n |-> v[m - 1], buf |-> <<s[m]>>]
    BY <1>2, <2>2 DEF Writes
  <2>4. m - 0 = m /\ m - 1 - 0 = m - 1
    BY <1>1
  <2>5. SubSeq(s, m, m) = <<s[m]>>
    <3>1. <<s[m]>> \o SubSeq(s, m + 1, m) = SubSeq(s, m, m)
      BY <1>1, SubSeqFirst
    <3>2. SubSeq(s, m + 1, m) = <<>>
      BY <1>1
    <3>3. <<s[m]>> \o <<>> = <<s[m]>>
      OBVIOUS
    <3>4. QED
      BY <3>1, <3>2, <3>3
  <2>6. QED
    BY <2>3, <2>4, <2>5
<1>5. ASSUME NEW j \in 0 .. m - 2, after[j] = State(j) PROVE after[j + 1] = State(j + 1)
  <2> DEFINE k == m - 1 - j
  <2>1. k \in 1 .. m - 1 /\ k \in 1 .. m /\ k - 1 = m - 1 - (j + 1) /\ m - j = k + 1 /\ m - (j + 1) = k
        /\ j + 1 \in 1 .. last /\ (j + 1) - 1 = j
    BY <1>1
  <2>2. State(j) = [n |-> v[k], buf |-> SubSeq(s, k + 1, m)]
    BY <2>1
  <2>3. State(j + 1) = [n |-> v[k - 1], buf |-> SubSeq(s, k, m)]
    BY <2>1
  <2>4. after[j + 1] = Group(after[j])
    BY <1>2, <2>1 DEF Writes
  <2> HIDE DEF k, State, last
  <2>5. v[k] = Added(v[k - 1], s[k]) /\ s[k] \in Byte /\ v[k - 1] \in Nat /\ s[k] >= Half
    BY <1>3, <2>1
  <2>6. v[k] - 1 \in Nat /\ (v[k] - 1) \div Half = v[k - 1] /\ Half + ((v[k] - 1) % Half) = s[k]
    <3> DEFINE p == v[k - 1]
               b == s[k]
               x == v[k]
    <3>1. p \in Nat /\ b \in Byte /\ x = Added(p, b) /\ b >= Half
      BY <2>5
    <3> HIDE DEF p, b, x
    <3>2. x - 1 \in Nat /\ (x - 1) \div Half = p /\ Half + ((x - 1) % Half) = b
      BY <3>1, AddedBack
    <3>3. QED
      BY <3>2 DEF p, b, x
  <2>7. v[k] # 0
    BY <2>6
  <2>8. <<s[k]>> \o SubSeq(s, k + 1, m) = SubSeq(s, k, m)
    <3>1. k \in 1 .. Len(s) /\ m \in k .. Len(s)
      BY <1>1, <2>1
    <3>2. QED
      BY <3>1, SubSeqFirst
  <2>9. Group([n |-> v[k], buf |-> SubSeq(s, k + 1, m)]) = [n |-> v[k - 1], buf |-> SubSeq(s, k, m)]
    BY <2>6, <2>7, <2>8 DEF Group
  <2>10. QED
    BY <1>5, <2>2, <2>3, <2>4, <2>9
<1> HIDE DEF State, last
<1>6. after[m - 1] = State(m - 1)
  <2> DEFINE T == {j \in 0 .. m - 1 : after[j] = State(j)}
  <2>1. 0 \in T
    BY <1>1, <1>4
  <2>2. ASSUME NEW j \in 0 .. (m - 1) - 1, j \in T PROVE j + 1 \in T
    <3>1. j \in 0 .. m - 2 /\ j + 1 \in 0 .. m - 1
      BY <1>1
    <3>2. QED
      BY <1>5, <2>2, <3>1
  <2> HIDE DEF T
  <2>3. 0 .. m - 1 \subseteq T
    <3>1. m - 1 \in Nat
      BY <1>1
    <3>2. QED
      BY <2>1, <2>2, <3>1, UpTo
  <2>4. QED
    BY <1>1, <2>3 DEF T
<1>7. State(m - 1) = [n |-> 0, buf |-> SubSeq(s, 1, m)]
  <2>1. m - 1 - (m - 1) = 0 /\ m - (m - 1) = 1
    BY <1>1
  <2>2. QED
    BY <2>1 DEF State
<1>8. after[last] = State(m - 1)
  <2> DEFINE T == {j \in 0 .. last - (m - 1) : after[(m - 1) + j] = State(m - 1)}
  <2>1. last - (m - 1) \in Nat /\ (m - 1) + 0 = m - 1 /\ (m - 1) + (last - (m - 1)) = last
    BY <1>1
  <2>2. 0 \in T
    BY <1>6, <2>1
  <2>3. ASSUME NEW j \in 0 .. (last - (m - 1)) - 1, j \in T PROVE j + 1 \in T
    <3>1. (m - 1) + (j + 1) \in 1 .. last /\ ((m - 1) + (j + 1)) - 1 = (m - 1) + j /\ j + 1 \in 0 .. last - (m - 1)
      BY <1>1
    <3>2. after[(m - 1) + (j + 1)] = Group(after[(m - 1) + j])
      BY <1>2, <3>1 DEF Writes, last
    <3>3. Group(State(m - 1)) = State(m - 1)
      BY <1>7 DEF Group
    <3>4. QED
      BY <2>3, <3>1, <3>2, <3>3
  <2>4. last - (m - 1) \in T
    <3> HIDE DEF T
    <3>1. 0 .. last - (m - 1) \subseteq T
      BY <2>1, <2>2, <2>3, UpTo
    <3>2. QED
      BY <2>1, <3>1
  <2>5. QED
    BY <2>1, <2>4
<1>9. WriteVarInt(v[m]) = after[last].buf
  BY <1>2 DEF Writes, last
<1>10. QED
  BY <1>7, <1>8, <1>9

\* Every byte sequence that reads as a VarInt begins with what is written for its value.
LEMMA VarIntCanonical ==
    ASSUME NEW width \in 1 .. BufLen, 2 * Power(Half, width) <= Word,
           NEW s \in Seq(Byte), Len(s) <= width, ReadVarInt(s).ok
    PROVE  /\ ReadVarInt(s).value \in 0 .. Word - 1
           /\ WriteVarInt(ReadVarInt(s).value) \o ReadVarInt(s).rest = s
<1>1. PICK m \in 1 .. Len(s) : s[m] < Half /\ \A k \in 1 .. m - 1 : s[k] >= Half
  BY VarIntEnds
<1>2. Len(s) \in Nat /\ BufLen \in Nat /\ m \in Nat /\ m <= width /\ m <= BufLen
  BY RadixAssumption
<1>3. PICK v \in [0 .. m -> Nat] : Accumulates(v, s, m) /\ ReadVarInt(s) = Ok(v[m], SubSeq(s, m + 1, Len(s)))
  BY <1>1, ReadLoop
<1>4. v[m] < Word /\ \A k \in 1 .. m : v[k] = Added(v[k - 1], s[k])
  BY <1>2, <1>3, NoOverflow
<1>5. v[0] = 0
  BY <1>3 DEF Accumulates
<1>6. WriteVarInt(v[m]) = SubSeq(s, 1, m)
  BY <1>1, <1>2, <1>4, <1>5, WritesBack
<1>7. SubSeq(s, 1, m) \o SubSeq(s, m + 1, Len(s)) = s
  BY <1>2
<1>8. ReadVarInt(s).value = v[m] /\ ReadVarInt(s).rest = SubSeq(s, m + 1, Len(s)) /\ v[m] \in Nat
  BY <1>2, <1>3 DEF Ok
<1>9. v[m] \in 0 .. Word - 1
  BY <1>4, <1>8, ByteFacts
<1>10. QED
  BY <1>6, <1>7, <1>8, <1>9, Zenon

(***************************************************************************)
(* CompactSizes.                                                           *)
(***************************************************************************)

\* The number, shifted by more and more bytes.
Shifts(shifted, n, width) ==
    /\ shifted \in [0 .. width -> Nat] /\ shifted[0] = n
    /\ \A i \in 1 .. width : shifted[i] = shifted[i - 1] \div Radix
    /\ LittleEndian(n, width) = [i \in 1 .. width |-> shifted[i - 1] % Radix]

\* LittleEndian is a loop.
LEMMA LittleEndianLoop ==
    ASSUME NEW n \in Nat, NEW width \in Nat
    PROVE  \E shifted : Shifts(shifted, n, width)
<1> DEFINE Shift(p) == p \div Radix
           round == [i \in 1 .. width |-> [p \in Nat |-> Shift(p)]]
           Is(g) == g = [i \in 0 .. width |-> IF i = 0 THEN n ELSE Shift(g[i - 1])]
           shifted == CHOOSE g : Is(g)
<1>1. LittleEndian(n, width) = [i \in 1 .. width |-> shifted[i - 1] % Radix]
  BY Zenon DEF LittleEndian
<1>2. \A p \in Nat : Shift(p) \in Nat
  BY ByteFacts
<1> HIDE DEF Shift
<1>3. round \in [1 .. width -> [Nat -> Nat]]
  BY <1>2
<1>4. PICK g : Runs(g, width, Nat, n, round)
  <2> HIDE DEF round
  <2>1. QED
    BY <1>3, LoopRuns
<1>5. ASSUME NEW i \in 1 .. width PROVE g[i] = Shift(g[i - 1])
  <2>1. i - 1 \in 0 .. width /\ g[i - 1] \in Nat
    BY <1>4 DEF Runs
  <2>2. QED
    BY <1>4, <2>1 DEF Runs
<1>6. Is(g)
  BY <1>4, <1>5 DEF Runs
<1>7. Is(shifted)
  BY <1>6, Zenon
<1> HIDE DEF shifted
<1>8. shifted = [i \in 0 .. width |-> shifted[i]]
      /\ \A i \in 0 .. width : shifted[i] = IF i = 0 THEN n ELSE Shift(shifted[i - 1])
  BY <1>7
<1>9. shifted[0] = n /\ \A i \in 1 .. width : shifted[i] = Shift(shifted[i - 1])
  <2>1. 0 \in 0 .. width /\ \A i \in 1 .. width : i \in 0 .. width /\ i # 0
    OBVIOUS
  <2>2. QED
    BY <1>8, <2>1, Zenon
<1>10. shifted[0] \in Nat /\ \A i \in 1 .. width : shifted[i - 1] \in Nat => shifted[i] \in Nat
  BY <1>2, <1>9
<1>11. \A i \in 0 .. width : shifted[i] \in Nat
  BY <1>10, LoopStays
<1>12. shifted \in [0 .. width -> Nat]
  BY <1>8, <1>11
<1>13. QED
  BY <1>1, <1>9, <1>12, Zenon DEF Shifts, Shift

\* LittleEndian gives as many bytes as it is asked for.
LEMMA LittleEndianBytes ==
    ASSUME NEW n \in Nat, NEW width \in Nat
    PROVE  LittleEndian(n, width) \in Seq(Byte) /\ Len(LittleEndian(n, width)) = width
<1>1. PICK shifted : Shifts(shifted, n, width)
  BY LittleEndianLoop
<1> DEFINE bytes == [i \in 1 .. width |-> shifted[i - 1] % Radix]
<1>2. ASSUME NEW i \in 1 .. width PROVE shifted[i - 1] % Radix \in Byte
  <2>1. shifted[i - 1] \in Nat /\ Radix \in Nat \ {0}
    BY <1>1, ByteFacts DEF Shifts
  <2>2. QED
    BY <2>1, DivMod DEF Byte
<1>3. bytes \in [1 .. width -> Byte]
  BY <1>2
<1>4. LittleEndian(n, width) = bytes
  BY <1>1 DEF Shifts
<1> HIDE DEF bytes
<1>5. QED
  BY <1>3, <1>4

\* What is read from the bytes, the highest first.
Gathers(v, s) ==
    /\ v \in [0 .. Len(s) -> Nat] /\ v[0] = 0
    /\ \A i \in 1 .. Len(s) : v[i] = v[i - 1] * Radix + s[Len(s) + 1 - i]
    /\ FromLittleEndian(s) = v[Len(s)]

\* FromLittleEndian is a loop.
LEMMA FromLittleEndianLoop ==
    ASSUME NEW s \in Seq(Byte)
    PROVE  \E v : Gathers(v, s)
<1> DEFINE m == Len(s)
           Add(p, i) == p * Radix + s[m + 1 - i]
           round == [i \in 1 .. m |-> [p \in Nat |-> Add(p, i)]]
           Is(g) == g = [i \in 0 .. m |-> IF i = 0 THEN 0 ELSE Add(g[i - 1], i)]
           v == CHOOSE g : Is(g)
<1>1. FromLittleEndian(s) = v[m]
  BY Zenon DEF FromLittleEndian
<1>2. m \in Nat
  OBVIOUS
<1>3. ASSUME NEW i \in 1 .. m, NEW p \in Nat PROVE Add(p, i) \in Nat
  <2>1. m + 1 - i \in 1 .. m
    BY <1>2
  <2>2. s[m + 1 - i] \in Nat /\ Radix \in Nat
    BY <2>1, ByteFacts DEF Byte
  <2>3. p * Radix \in Nat
    BY <2>2
  <2>4. QED
    BY <2>2, <2>3
<1> HIDE DEF Add, m
<1>4. round \in [1 .. m -> [Nat -> Nat]]
  BY <1>3
<1>5. PICK g : Runs(g, m, Nat, 0, round)
  <2> HIDE DEF round
  <2>1. QED
    BY <1>2, <1>4, LoopRuns
<1>6. ASSUME NEW i \in 1 .. m PROVE g[i] = Add(g[i - 1], i)
  <2>1. i - 1 \in 0 .. m /\ g[i - 1] \in Nat
    BY <1>2, <1>5 DEF Runs
  <2>2. QED
    BY <1>5, <2>1 DEF Runs
<1>7. Is(g)
  BY <1>2, <1>5, <1>6 DEF Runs
<1>8. Is(v)
  BY <1>7, Zenon
<1> HIDE DEF v
<1>9. v = [i \in 0 .. m |-> v[i]] /\ \A i \in 0 .. m : v[i] = IF i = 0 THEN 0 ELSE Add(v[i - 1], i)
  BY <1>8
<1>10. v[0] = 0 /\ \A i \in 1 .. m : v[i] = Add(v[i - 1], i)
  <2>1. 0 \in 0 .. m /\ \A i \in 1 .. m : i \in 0 .. m /\ i # 0
    BY <1>2
  <2>2. QED
    BY <1>9, <2>1, Zenon
<1>11. v[0] \in Nat /\ \A i \in 1 .. m : v[i - 1] \in Nat => v[i] \in Nat
  <2>1. 0 \in Nat
    OBVIOUS
  <2>2. QED
    BY <1>3, <1>10, <2>1, Zenon
<1>12. \A i \in 0 .. m : v[i] \in Nat
  BY <1>2, <1>11, LoopStays
<1>13. v \in [0 .. m -> Nat]
  BY <1>9, <1>12
<1>14. QED
  BY <1>1, <1>10, <1>13 DEF Gathers, Add, m

\* A number that fits into the bytes is read back from them.
LEMMA LittleEndianReadsBack ==
    ASSUME NEW width \in Nat, NEW n \in Nat, n < Power(Radix, width)
    PROVE  FromLittleEndian(LittleEndian(n, width)) = n
<1> DEFINE s == LittleEndian(n, width)
           P(i) == Power(Radix, width - i)
<1>1. PICK shifted : Shifts(shifted, n, width)
  BY LittleEndianLoop
<1>2. s \in Seq(Byte) /\ Len(s) = width
  BY LittleEndianBytes
<1>3. Radix \in Nat \ {0} /\ \A i \in 0 .. width : shifted[i] \in Nat
  BY <1>1, ByteFacts DEF Shifts
<1>4. \A i \in 1 .. width : shifted[i] = shifted[i - 1] \div Radix /\ s[i] = shifted[i - 1] % Radix
  BY <1>1 DEF Shifts
<1>5. shifted[0] = n
  BY <1>1 DEF Shifts
<1> HIDE DEF s
<1>6. shifted[width] = 0
  <2> DEFINE T == {i \in 0 .. width : shifted[i] < P(i)}
  <2>1. ASSUME NEW i \in 0 .. width - 1 PROVE P(i) = Radix * P(i + 1) /\ P(i + 1) \in Nat
    <3> DEFINE q == width - (i + 1)
    <3>1. q \in Nat /\ q + 1 = width - i
      OBVIOUS
    <3> HIDE DEF q
    <3>2. Power(Radix, q + 1) = Radix * Power(Radix, q) /\ Power(Radix, q) \in Nat
      BY <1>3, <3>1, Powers
    <3>3. QED
      BY <3>1, <3>2 DEF q
  <2>2. P(0) = Power(Radix, width) /\ P(width) = 1
    <3>1. width - 0 = width /\ width - width = 0
      OBVIOUS
    <3>2. QED
      BY <1>3, <3>1, Powers
  <2> HIDE DEF P
  <2>3. 0 \in T
    BY <1>5, <2>2
  <2>4. ASSUME NEW i \in 0 .. width - 1, i \in T PROVE i + 1 \in T
    <3>1. i + 1 \in 1 .. width /\ i + 1 \in 0 .. width /\ (i + 1) - 1 = i /\ i \in 0 .. width
      OBVIOUS
    <3>2. shifted[i + 1] = shifted[i] \div Radix
      BY <1>4, <3>1
    <3>3. shifted[i] \in Nat /\ shifted[i] < Radix * P(i + 1) /\ P(i + 1) \in Nat
      BY <1>3, <2>1, <2>4, <3>1
    <3>4. shifted[i] \div Radix < P(i + 1)
      BY <1>3, <3>3, DivBelow
    <3>5. QED
      BY <3>1, <3>2, <3>4
  <2> HIDE DEF T
  <2>5. width \in T
    <3>1. 0 .. width \subseteq T
      BY <2>3, <2>4, UpTo
    <3>2. QED
      BY <3>1
  <2>6. shifted[width] < 1 /\ shifted[width] \in Nat
    BY <1>3, <2>2, <2>5 DEF T
  <2>7. QED
    BY <2>6
<1>7. PICK v : Gathers(v, s)
  BY <1>2, FromLittleEndianLoop
<1> DEFINE T == {i \in 0 .. width : v[i] = shifted[width - i]}
<1>8. 0 \in T
  <2>1. width - 0 = width
    OBVIOUS
  <2>2. QED
    BY <1>6, <1>7, <2>1 DEF Gathers
<1>9. ASSUME NEW i \in 0 .. width - 1, i \in T PROVE i + 1 \in T
  <2> DEFINE k == width - i
             p == shifted[k - 1]
  <2>1. i + 1 \in 1 .. width /\ i + 1 \in 0 .. width /\ (i + 1) - 1 = i /\ width + 1 - (i + 1) = k
        /\ k \in 1 .. width /\ k - 1 \in 0 .. width /\ width - (i + 1) = k - 1
    OBVIOUS
  <2>2. v[i + 1] = v[i] * Radix + s[k]
    BY <1>2, <1>7, <2>1 DEF Gathers
  <2>3. v[i] = shifted[k]
    BY <1>9
  <2> HIDE DEF k
  <2>4. p \in Nat /\ shifted[k] = p \div Radix /\ s[k] = p % Radix
    BY <1>3, <1>4, <2>1
  <2> HIDE DEF p
  <2>5. p = Radix * (p \div Radix) + (p % Radix) /\ p \div Radix \in Nat
    BY <1>3, <2>4, DivMod
  <2>6. (p \div Radix) * Radix = Radix * (p \div Radix)
    BY <1>3, <2>5
  <2>7. v[i + 1] = p
    BY <2>2, <2>3, <2>4, <2>5, <2>6, Zenon
  <2>8. QED
    BY <2>1, <2>7 DEF p
<1> HIDE DEF T
<1>10. width \in T
  <2>1. 0 .. width \subseteq T
    BY <1>8, <1>9, UpTo
  <2>2. QED
    BY <2>1
<1>11. v[width] = n
  <2>1. width - width = 0
    OBVIOUS
  <2>2. QED
    BY <1>5, <1>10, <2>1 DEF T
<1>12. QED
  BY <1>2, <1>7, <1>11 DEF Gathers, s

\* The rest of a CompactSize behind its marker.
Marked(t, width) ==
    LET r == ReadFull(t, width) IN IF r.ok THEN Ok(FromLittleEndian(r.value), r.rest) ELSE r

\* The first byte tells how to go on.
LEMMA ReadCases ==
    ASSUME NEW c \in Byte, NEW t \in Seq(Byte)
    PROVE  ReadCompactSize(<<c>> \o t) =
             IF c = Radix - 3 THEN Marked(t, 2) ELSE IF c = Radix - 2 THEN Marked(t, 4)
             ELSE IF c = Radix - 1 THEN Marked(t, 8) ELSE Ok(c, t)
<1> DEFINE s == <<c>> \o t
<1>1. s # <<>> /\ s[1] = c /\ SubSeq(s, 2, Len(s)) = t
  <2>1. s \in Seq(Byte) /\ Len(s) = Len(t) + 1 /\ s[1] = c /\ Len(t) \in Nat
    OBVIOUS
  <2>2. s # <<>>
    BY <2>1
  <2>3. SubSeq(s, 2, Len(s)) = t
    <3> DEFINE u == SubSeq(s, 2, Len(s))
    <3>1. u \in Seq(Byte) /\ Len(u) = Len(t)
      BY <2>1
    <3>2. ASSUME NEW i \in 1 .. Len(t) PROVE u[i] = t[i]
      <4>1. u[i] = s[i + 1]
        BY <2>1
      <4>2. s[i + 1] = t[i]
        OBVIOUS
      <4>3. QED
        BY <4>1, <4>2
    <3> HIDE DEF u
    <3>3. u = t
      BY <3>1, <3>2, SeqEqual
    <3>4. QED
      BY <3>3 DEF u
  <2>4. QED
    BY <2>1, <2>2, <2>3
<1> HIDE DEF s
<1>2. ReadCompactSize(s) =
        IF s = <<>> THEN Fail("eof")
        ELSE IF s[1] = Radix - 3 THEN Marked(SubSeq(s, 2, Len(s)), 2)
        ELSE IF s[1] = Radix - 2 THEN Marked(SubSeq(s, 2, Len(s)), 4)
        ELSE IF s[1] = Radix - 1 THEN Marked(SubSeq(s, 2, Len(s)), 8)
        ELSE Ok(s[1], SubSeq(s, 2, Len(s)))
  BY Zenon DEF ReadCompactSize, Marked
<1>3. QED
  BY <1>1, <1>2, Zenon DEF s

\* io.ReadFull takes what is there in full, whatever follows.
LEMMA ReadFullTakes ==
    ASSUME NEW S, NEW s \in Seq(S), NEW t \in Seq(S)
    PROVE  ReadFull(s \o t, Len(s)) = Ok(s, t)
<1> DEFINE u == s \o t
<1>1. Len(s) \in Nat /\ Len(t) \in Nat /\ u \in Seq(S) /\ Len(u) = Len(s) + Len(t)
  OBVIOUS
<1>2. SubSeq(u, 1, Len(s)) = s
  OBVIOUS
<1>3. SubSeq(u, Len(s) + 1, Len(u)) = t
  OBVIOUS
<1>4. ~(Len(u) < Len(s))
  BY <1>1
<1> HIDE DEF u
<1>5. ReadFull(u, Len(s)) = Ok(s, t)
  BY <1>2, <1>3, <1>4 DEF ReadFull
<1>6. QED
  BY <1>5 DEF u

\* The number behind a marker is read back; with less than its bytes there is none.
LEMMA MarkedReadsBack ==
    ASSUME NEW width \in Nat, NEW n \in Nat, n < Power(Radix, width), NEW follows \in Seq(Byte)
    PROVE  /\ Marked(LittleEndian(n, width) \o follows, width) = Ok(n, follows)
           /\ \A t \in Seq(Byte) : Len(t) < width => ~Marked(t, width).ok
<1> DEFINE le == LittleEndian(n, width)
<1>1. le \in Seq(Byte) /\ Len(le) = width
  BY LittleEndianBytes
<1>2. FromLittleEndian(le) = n
  BY LittleEndianReadsBack
<1> HIDE DEF le
<1>3. ReadFull(le \o follows, width) = Ok(le, follows)
  <2>1. ReadFull(le \o follows, Len(le)) = Ok(le, follows)
    BY <1>1, ReadFullTakes
  <2>2. QED
    BY <1>1, <2>1
<1>4. Marked(le \o follows, width) = Ok(n, follows)
  BY <1>2, <1>3 DEF Marked, Ok
<1>5. ASSUME NEW t \in Seq(Byte), Len(t) < width PROVE ~Marked(t, width).ok
  <2>1. ReadFull(t, width) = Fail("eof")
    BY <1>5 DEF ReadFull
  <2>2. QED
    BY <2>1 DEF Marked, Fail
<1>6. QED
  BY <1>4, <1>5 DEF le

\* The bytes read as the number, whatever follows, and do not read if they are cut off.
ReadsWhole(bytes, n, follows) ==
    /\ bytes \in Seq(Byte)
    /\ ReadCompactSize(bytes \o follows) = Ok(n, follows)
    /\ \A k \in 0 .. Len(bytes) - 1 : ~ReadCompactSize(SubSeq(bytes, 1, k)).ok

\* The first byte of a CompactSize with a number of this many bytes.
Marker(width) == IF width = 2 THEN Radix - 3 ELSE IF width = 4 THEN Radix - 2 ELSE Radix - 1

\* A CompactSize in the form of a marker and a number, as it is read.
LEMMA MarkerReadsBack ==
    ASSUME NEW width \in {2, 4, 8}, NEW n \in Nat, n < Power(Radix, width), NEW follows \in Seq(Byte),
           NEW bytes, bytes = <<Marker(width)>> \o LittleEndian(n, width)
    PROVE  ReadsWhole(bytes, n, follows)
<1> DEFINE le == LittleEndian(n, width)
           c == Marker(width)
<1>0. bytes = <<c>> \o le
  OBVIOUS
<1>1. le \in Seq(Byte) /\ Len(le) = width /\ width \in Nat
  BY LittleEndianBytes
<1>2. c \in Byte
  BY ByteFacts DEF Byte, Marker
<1>3. Marked(le \o follows, width) = Ok(n, follows)
      /\ \A t \in Seq(Byte) : Len(t) < width => ~Marked(t, width).ok
  BY MarkedReadsBack
<1>4. \A t \in Seq(Byte) : ReadCompactSize(<<c>> \o t) = Marked(t, width)
  <2>1. CASE width = 2
    <3>1. c = Radix - 3
      BY <2>1 DEF Marker
    <3>2. QED
      BY <1>2, <2>1, <3>1, ReadCases
  <2>2. CASE width = 4
    <3>1. c = Radix - 2 /\ c # Radix - 3
      BY <2>2, ByteFacts DEF Marker
    <3>2. QED
      BY <1>2, <2>2, <3>1, ReadCases
  <2>3. CASE width = 8
    <3>1. c = Radix - 1 /\ c # Radix - 3 /\ c # Radix - 2
      BY <2>3, ByteFacts DEF Marker
    <3>2. QED
      BY <1>2, <2>3, <3>1, ReadCases
  <2>4. QED
    BY <2>1, <2>2, <2>3
<1> HIDE DEF le, c
<1>5. bytes \in Seq(Byte) /\ Len(bytes) = width + 1 /\ bytes[1] = c
  <2>1. (<<c>> \o le) \in Seq(Byte) /\ Len(<<c>> \o le) = width + 1 /\ (<<c>> \o le)[1] = c
    BY <1>1, <1>2
  <2>2. QED
    BY <1>0, <2>1
<1>6. bytes \o follows = <<c>> \o (le \o follows) /\ le \o follows \in Seq(Byte)
  BY <1>0, <1>1, <1>2
<1>7. ASSUME NEW k \in 0 .. width PROVE ~ReadCompactSize(SubSeq(bytes, 1, k)).ok
  <2>1. CASE k = 0
    <3>1. SubSeq(bytes, 1, k) = <<>>
      BY <2>1
    <3>2. ReadCompactSize(<<>>) = Fail("eof")
      BY Zenon DEF ReadCompactSize
    <3>3. ReadCompactSize(SubSeq(bytes, 1, k)) = Fail("eof")
      BY <3>1, <3>2, Zenon
    <3>4. QED
      BY <3>3 DEF Fail
  <2>2. CASE k # 0
    <3> DEFINE t == SubSeq(bytes, 2, k)
    <3>1. k \in 1 .. Len(bytes) /\ 1 \in 1 .. Len(bytes)
      BY <1>1, <1>5, <2>2
    <3>2. <<bytes[1]>> \o SubSeq(bytes, 1 + 1, k) = SubSeq(bytes, 1, k)
      BY <1>5, <3>1, SubSeqFirst
    <3>3. 1 + 1 = 2
      OBVIOUS
    <3>4. t \in Seq(Byte) /\ Len(t) < width
      BY <1>1, <1>5, <3>1
    <3>5. SubSeq(bytes, 1, k) = <<c>> \o t
      BY <1>5, <3>2, <3>3, Zenon
    <3> HIDE DEF t
    <3>6. QED
      BY <1>3, <1>4, <3>4, <3>5
  <2>3. QED
    BY <2>1, <2>2
<1>8. Len(bytes) - 1 = width
  BY <1>1, <1>5
<1>9. QED
  BY <1>3, <1>4, <1>5, <1>6, <1>7, <1>8 DEF ReadsWhole

\* A CompactSize reads back as it was written, whatever follows; if it is cut off,
\* it does not read at all.
LEMMA CompactSizeReadsBack ==
    ASSUME NEW n \in 0 .. Word - 1, NEW follows \in Seq(Byte)
    PROVE  ReadsWhole(WriteCompactSize(n), n, follows)
<1>1. n \in Nat /\ n < Word /\ Word \in Nat /\ Radix \in Nat \ {0}
  BY ByteFacts
<1>2. Power(Radix, 2) \in Nat /\ Power(Radix, 4) \in Nat /\ Power(Radix, 8) \in Nat
  BY <1>1, Powers
<1>3. CASE n <= Radix - 4
  <2>1. WriteCompactSize(n) = <<n>>
    BY <1>3, Zenon DEF WriteCompactSize
  <2>2. n \in Byte /\ n # Radix - 3 /\ n # Radix - 2 /\ n # Radix - 1
    BY <1>1, <1>3 DEF Byte
  <2>3. ReadCompactSize(<<n>> \o follows) = Ok(n, follows)
    BY <2>2, ReadCases
  <2>4. <<n>> \in Seq(Byte) /\ Len(<<n>>) = 1 /\ SubSeq(<<n>>, 1, 0) = <<>>
    BY <2>2
  <2>5. ReadCompactSize(<<>>) = Fail("eof")
    BY Zenon DEF ReadCompactSize
  <2>6. ~ReadCompactSize(<<>>).ok
    BY <2>5 DEF Fail
  <2>7. \A k \in 0 .. 1 - 1 : k = 0
    OBVIOUS
  <2>8. QED
    BY <2>1, <2>3, <2>4, <2>6, <2>7 DEF ReadsWhole
<1>4. ASSUME NEW width \in {2, 4, 8},
             n < Power(Radix, width), WriteCompactSize(n) = <<Marker(width)>> \o LittleEndian(n, width)
      PROVE  ReadsWhole(WriteCompactSize(n), n, follows)
  BY <1>1, <1>4, MarkerReadsBack
<1>5. CASE ~(n <= Radix - 4) /\ n < Power(Radix, 2)
  <2>1. WriteCompactSize(n) = <<Marker(2)>> \o LittleEndian(n, 2)
    <3>1. Marker(2) = Radix - 3
      BY DEF Marker
    <3>2. QED
      BY <1>5, <3>1, Zenon DEF WriteCompactSize
  <2>2. QED
    BY <1>4, <1>5, <2>1
<1>6. CASE ~(n <= Radix - 4) /\ ~(n < Power(Radix, 2)) /\ n < Power(Radix, 4)
  <2>1. WriteCompactSize(n) = <<Marker(4)>> \o LittleEndian(n, 4)
    <3>1. Marker(4) = Radix - 2
      BY DEF Marker
    <3>2. QED
      BY <1>6, <3>1, Zenon DEF WriteCompactSize
  <2>2. QED
    BY <1>4, <1>6, <2>1
<1>7. CASE ~(n <= Radix - 4) /\ ~(n < Power(Radix, 2)) /\ ~(n < Power(Radix, 4))
  <2>1. WriteCompactSize(n) = <<Marker(8)>> \o LittleEndian(n, 8)
    <3>1. Marker(8) = Radix - 1
      BY DEF Marker
    <3>2. QED
      BY <1>7, <3>1, Zenon DEF WriteCompactSize
  <2>2. n < Power(Radix, 8)
    <3>1. PICK k \in 1 .. 8 : Word <= Power(Radix, k)
      BY RadixAssumption
    <3>2. Power(Radix, k) <= Power(Radix, 8) /\ Power(Radix, k) \in Nat
      <4>1. 8 \in Nat /\ k \in 0 .. 8
        OBVIOUS
      <4>2. QED
        BY <1>1, <4>1, PowersGrow
    <3>3. QED
      BY <1>1, <1>2, <3>1, <3>2
  <2>3. QED
    BY <1>4, <2>1, <2>2
<1>8. QED
  BY <1>3, <1>5, <1>6, <1>7

(***************************************************************************)
(* Amounts.                                                                *)
(***************************************************************************)

\* A round of CompressAmount's loop.
Strip(s) == IF s.n % 10 = 0 THEN [n |-> s.n \div 10, e |-> s.e + 1] ELSE s
\* An amount that is being stripped.
Stripping == [n : Nat, e : Nat]
\* The states of the loop.
Strips(after, n) ==
    /\ Stripped(n) = after[Zeros] /\ after[0] = [n |-> n, e |-> 0]
    /\ \A i \in 1 .. Zeros : after[i] = Strip(after[i - 1])

\* Stripped is a loop.
LEMMA StripLoop ==
    ASSUME NEW n \in Nat
    PROVE  \E after : Strips(after, n)
<1> DEFINE start == [n |-> n, e |-> 0]
           round == [i \in 1 .. Zeros |-> [s \in Stripping |-> Strip(s)]]
           Is(g) == g = [i \in 0 .. Zeros |-> IF i = 0 THEN start ELSE Strip(g[i - 1])]
           after == CHOOSE g : Is(g)
<1>1. Stripped(n) = after[Zeros]
  BY Zenon DEF Stripped, Strip
<1>2. Zeros \in Nat /\ start \in Stripping
  BY RadixAssumption DEF Stripping
<1>3. ASSUME NEW s \in Stripping PROVE Strip(s) \in Stripping
  <2>1. s.n \in Nat /\ s.e \in Nat
    BY DEF Stripping
  <2>2. s.n \div 10 \in Nat /\ s.e + 1 \in Nat
    BY <2>1
  <2>3. QED
    BY <2>1, <2>2 DEF Strip, Stripping
<1> HIDE DEF start
<1>4. round \in [1 .. Zeros -> [Stripping -> Stripping]]
  BY <1>3
<1>5. PICK g : Runs(g, Zeros, Stripping, start, round)
  <2> HIDE DEF round
  <2>1. QED
    BY <1>2, <1>4, LoopRuns
<1>6. ASSUME NEW i \in 1 .. Zeros PROVE g[i] = Strip(g[i - 1])
  <2>1. i - 1 \in 0 .. Zeros /\ g[i - 1] \in Stripping
    BY <1>2, <1>5 DEF Runs
  <2>2. QED
    BY <1>5, <2>1 DEF Runs
<1>7. Is(g)
  BY <1>2, <1>5, <1>6 DEF Runs
<1>8. Is(after)
  BY <1>7, Zenon
<1> HIDE DEF after
<1>9. \A i \in 0 .. Zeros : after[i] = IF i = 0 THEN start ELSE Strip(after[i - 1])
  BY <1>8, Zenon
<1>10. after[0] = start /\ \A i \in 1 .. Zeros : after[i] = Strip(after[i - 1])
  <2>1. 0 \in 0 .. Zeros /\ \A i \in 1 .. Zeros : i \in 0 .. Zeros /\ i # 0
    BY <1>2
  <2>2. QED
    BY <1>9, <2>1, Zenon
<1>11. QED
  BY <1>1, <1>10 DEF Strips, start

\* The mantissa and the exponent of an amount: no more zeros can be stripped.
Parts(m, e) == m \in Nat \ {0} /\ e \in 0 .. Zeros /\ (e < Zeros => m % 10 # 0)

\* An amount is its parts.
LEMMA StrippedParts ==
    ASSUME NEW n \in Nat \ {0}
    PROVE  \E m, e : Parts(m, e) /\ Stripped(n) = [n |-> m, e |-> e] /\ n = m * Power(10, e)
<1>1. PICK after : Strips(after, n)
  BY StripLoop
<1> DEFINE Inv(i) == \E m \in Nat \ {0}, e \in 0 .. i :
              after[i] = [n |-> m, e |-> e] /\ (e < i => m % 10 # 0) /\ n = m * Power(10, e)
           T == {i \in 0 .. Zeros : Inv(i)}
<1>2. Zeros \in Nat
  BY RadixAssumption
<1>3. 0 \in T
  <2>1. after[0] = [n |-> n, e |-> 0]
    BY <1>1 DEF Strips
  <2>2. n = n * Power(10, 0)
    <3>1. Power(10, 0) = 1
      BY Powers
    <3>2. QED
      BY <3>1
  <2>3. 0 \in 0 .. 0
    OBVIOUS
  <2>4. Inv(0)
    BY <2>1, <2>2, <2>3
  <2>5. QED
    BY <1>2, <2>4
<1>4. ASSUME NEW i \in 0 .. Zeros - 1, i \in T PROVE i + 1 \in T
  <2>1. i + 1 \in 1 .. Zeros /\ (i + 1) - 1 = i /\ i + 1 \in 0 .. Zeros /\ i \in Nat
    BY <1>2
  <2>2. after[i + 1] = Strip(after[i])
    BY <1>1, <2>1 DEF Strips
  <2>3. PICK m \in Nat \ {0}, e \in 0 .. i :
           after[i] = [n |-> m, e |-> e] /\ (e < i => m % 10 # 0) /\ n = m * Power(10, e)
    BY <1>4
  <2>4. CASE m % 10 # 0
    <3>1. after[i + 1] = [n |-> m, e |-> e] /\ e \in 0 .. i + 1
      BY <2>2, <2>3, <2>4 DEF Strip
    <3>2. Inv(i + 1)
      BY <2>3, <2>4, <3>1
    <3>3. QED
      BY <2>1, <3>2
  <2>5. CASE m % 10 = 0
    <3> DEFINE q == m \div 10
    <3>1. q \in Nat /\ m = 10 * q + (m % 10)
      BY DivMod
    <3>2. after[i + 1] = [n |-> q, e |-> e + 1]
      BY <2>2, <2>3, <2>5 DEF Strip
    <3> HIDE DEF q
    <3>3. m = 10 * q /\ q # 0
      BY <2>5, <3>1
    <3>4. e = i /\ e + 1 \in 0 .. i + 1 /\ ~(e + 1 < i + 1)
      BY <2>3, <2>5
    <3>5. n = q * Power(10, e + 1)
      <4> DEFINE p == Power(10, e)
      <4>0. e \in Nat /\ 10 \in Nat
        OBVIOUS
      <4>1. p \in Nat /\ Power(10, e + 1) = 10 * p
        BY <4>0, Powers
      <4> HIDE DEF p
      <4>2. (10 * q) * p = q * (10 * p)
        BY <3>1, <4>1
      <4>3. n = (10 * q) * p
        BY <2>3, <3>3 DEF p
      <4>4. QED
        BY <4>1, <4>2, <4>3
    <3>6. Inv(i + 1)
      BY <3>1, <3>2, <3>3, <3>4, <3>5
    <3>7. QED
      BY <2>1, <3>6
  <2>6. QED
    BY <2>4, <2>5
<1>5. Zeros \in T
  <2> HIDE DEF T
  <2>1. 0 .. Zeros \subseteq T
    BY <1>2, <1>3, <1>4, UpTo
  <2>2. QED
    BY <1>2, <2>1
<1>6. PICK m \in Nat \ {0}, e \in 0 .. Zeros :
         after[Zeros] = [n |-> m, e |-> e] /\ (e < Zeros => m % 10 # 0) /\ n = m * Power(10, e)
  BY <1>5
<1>7. Parts(m, e) /\ Stripped(n) = [n |-> m, e |-> e]
  BY <1>1, <1>6 DEF Parts, Strips
<1>8. QED
  BY <1>6, <1>7

\* Stripping finds the parts of the amount they make.
LEMMA StripsParts ==
    ASSUME NEW m, NEW e, Parts(m, e)
    PROVE  m * Power(10, e) \in Nat \ {0} /\ Stripped(m * Power(10, e)) = [n |-> m, e |-> e]
<1> DEFINE P(i) == Power(10, i)
           n == m * P(e)
           State(i) == [n |-> m * P(e - i), e |-> i]
<1>1. Zeros \in Nat /\ m \in Nat \ {0} /\ e \in Nat /\ e <= Zeros /\ (e < Zeros => m % 10 # 0)
  BY RadixAssumption DEF Parts
<1>2. \A i \in 0 .. e : P(e - i) \in Nat \ {0}
  <2>1. \A i \in 0 .. e : e - i \in Nat /\ e - i \in 0 .. e
    BY <1>1
  <2>2. QED
    BY <1>1, <2>1, PowersGrow
<1>3. ASSUME NEW i \in 0 .. e - 1 PROVE P(e - i) = 10 * P(e - (i + 1))
  <2> DEFINE q == e - (i + 1)
  <2>1. q \in Nat /\ q + 1 = e - i
    BY <1>1
  <2> HIDE DEF q
  <2>2. Power(10, q + 1) = 10 * Power(10, q)
    BY <2>1, Powers
  <2>3. QED
    BY <2>1, <2>2 DEF q
<1>4. P(0) = 1 /\ e - 0 = e /\ e - e = 0 /\ 0 \in 0 .. e
  BY <1>1, Powers
<1>5. n \in Nat \ {0}
  <2>1. P(e) \in Nat \ {0}
    BY <1>2, <1>4
  <2>2. \A a, b \in Nat \ {0} : a * b \in Nat \ {0}
    OBVIOUS
  <2>3. QED
    BY <1>1, <2>1, <2>2
<1>6. PICK after : Strips(after, n)
  <2>1. n \in Nat
    BY <1>5
  <2> HIDE DEF n
  <2>2. QED
    BY <2>1, StripLoop
<1>7. ASSUME NEW i \in 0 .. e PROVE after[i] = State(i)
  <2> DEFINE T == {j \in 0 .. e : after[j] = State(j)}
  <2>1. 0 \in T
    <3>1. after[0] = [n |-> n, e |-> 0]
      BY <1>6, Zenon DEF Strips
    <3>2. State(0) = [n |-> n, e |-> 0]
      BY <1>4
    <3>3. QED
      BY <1>4, <3>1, <3>2
  <2>2. ASSUME NEW j \in 0 .. e - 1, j \in T PROVE j + 1 \in T
    <3> DEFINE p == P(e - (j + 1))
               mp == m * p
    <3>1. j + 1 \in 1 .. Zeros /\ (j + 1) - 1 = j /\ j + 1 \in 0 .. e
      BY <1>1
    <3>2. after[j + 1] = Strip(after[j])
      BY <1>6, <3>1 DEF Strips
    <3>3. after[j] = [n |-> m * P(e - j), e |-> j]
      BY <2>2
    <3>4. P(e - j) = 10 * p /\ p \in Nat
      BY <1>2, <1>3, <3>1
    <3> HIDE DEF p, P
    <3>5. m * (10 * p) = 10 * mp + 0 /\ mp \in Nat
      BY <1>1, <3>4
    <3> HIDE DEF mp
    <3>6. (10 * mp + 0) \div 10 = mp /\ (10 * mp + 0) % 10 = 0
      <4>1. 0 \in 0 .. 10 - 1 /\ 10 \in Nat \ {0}
        OBVIOUS
      <4>2. QED
        BY <3>5, <4>1, DivUnique
    <3>7. after[j] = [n |-> 10 * mp + 0, e |-> j]
      BY <3>3, <3>4, <3>5
    <3>8. Strip(after[j]) = [n |-> mp, e |-> j + 1]
      BY <3>6, <3>7 DEF Strip
    <3>9. after[j + 1] = State(j + 1)
      BY <3>2, <3>8 DEF mp, p
    <3>10. QED
      BY <3>1, <3>9
  <2>3. 0 .. e \subseteq T
    <3> HIDE DEF T
    <3>1. QED
      BY <1>1, <2>1, <2>2, UpTo
  <2>4. QED
    BY <2>3
<1>8. after[e] = [n |-> m, e |-> e]
  <2>1. after[e] = State(e) /\ m * 1 = m
    BY <1>1, <1>7
  <2>2. QED
    BY <1>4, <2>1
<1>9. after[Zeros] = [n |-> m, e |-> e]
  <2> DEFINE T == {j \in 0 .. Zeros - e : after[e + j] = [n |-> m, e |-> e]}
  <2>1. Zeros - e \in Nat /\ e + 0 = e /\ e + (Zeros - e) = Zeros
    BY <1>1
  <2>2. 0 \in T
    BY <1>8, <2>1
  <2>3. ASSUME NEW j \in 0 .. (Zeros - e) - 1, j \in T PROVE j + 1 \in T
    <3>1. e + (j + 1) \in 1 .. Zeros /\ (e + (j + 1)) - 1 = e + j /\ j + 1 \in 0 .. Zeros - e /\ e < Zeros
      BY <1>1
    <3>2. after[e + (j + 1)] = Strip(after[e + j])
      BY <1>6, <3>1 DEF Strips
    <3>3. Strip([n |-> m, e |-> e]) = [n |-> m, e |-> e]
      BY <1>1, <3>1 DEF Strip
    <3>4. QED
      BY <2>3, <3>1, <3>2, <3>3
  <2>4. Zeros - e \in T
    <3> HIDE DEF T
    <3>1. 0 .. Zeros - e \subseteq T
      BY <2>1, <2>2, <2>3, UpTo
    <3>2. QED
      BY <2>1, <3>1
  <2>5. QED
    BY <2>1, <2>4
<1>10. Stripped(n) = [n |-> m, e |-> e]
  BY <1>6, <1>9, Zenon DEF Strips
<1>11. QED
  BY <1>5, <1>10

\* The number that stands for a mantissa and an exponent.
Packed(m, e) ==
    IF e < Zeros THEN 1 + ((m \div 10) * 9 + (m % 10) - 1) * (Zeros + 1) + e
    ELSE 1 + (m - 1) * (Zeros + 1) + e

\* A mantissa that does not end in zero, without the zeros that cannot occur.
LEMMA Nines ==
    ASSUME NEW m \in Nat \ {0}, m % 10 # 0, NEW y, y = (m \div 10) * 9 + (m % 10) - 1
    PROVE  y \in Nat /\ y <= m - 1 /\ (y \div 9) * 10 + (y % 9) + 1 = m
<1> DEFINE q == m \div 10
           r == m % 10
<1>1. q \in Nat /\ r \in 0 .. 10 - 1 /\ m = 10 * q + r
  BY DivMod
<1>2. y = q * 9 + r - 1 /\ r # 0
  OBVIOUS
<1> HIDE DEF q, r
<1>3. r - 1 \in 0 .. 9 - 1 /\ y = 9 * q + (r - 1) /\ 9 \in Nat \ {0}
  BY <1>1, <1>2
<1>4. y \div 9 = q /\ y % 9 = r - 1
  BY <1>1, <1>3, DivUnique
<1>5. QED
  BY <1>1, <1>3, <1>4

\* And back.
LEMMA Tens ==
    ASSUME NEW y \in Nat, NEW m, m = (y \div 9) * 10 + (y % 9) + 1
    PROVE  m \in Nat \ {0} /\ m % 10 # 0 /\ (m \div 10) * 9 + (m % 10) - 1 = y
<1> DEFINE q == y \div 9
           r == y % 9
<1>1. q \in Nat /\ r \in 0 .. 9 - 1 /\ y = 9 * q + r
  BY DivMod
<1>2. m = q * 10 + r + 1
  OBVIOUS
<1> HIDE DEF q, r
<1>3. r + 1 \in 0 .. 10 - 1 /\ m = 10 * q + (r + 1) /\ 10 \in Nat \ {0}
  BY <1>1, <1>2
<1>4. m \div 10 = q /\ m % 10 = r + 1
  BY <1>1, <1>3, DivUnique
<1>5. QED
  BY <1>1, <1>3, <1>4

\* The parts can be told from the number, and the number is not much larger.
LEMMA PackedParts ==
    ASSUME NEW m, NEW e, Parts(m, e), NEW x, x = Packed(m, e)
    PROVE  x \in Nat \ {0} /\ x <= (Zeros + 1) * m /\ Exponent(x) = e /\ Mantissa(x) = m
<1> DEFINE b == Zeros + 1
<1>1. b \in Nat \ {0} /\ Zeros \in Nat /\ m \in Nat \ {0} /\ e \in 0 .. b - 1 /\ e <= Zeros
  BY RadixAssumption DEF Parts
<1>2. ASSUME NEW y \in Nat, y <= m - 1, x = 1 + y * b + e
      PROVE  x \in Nat \ {0} /\ x <= b * m /\ (x - 1) % b = e /\ (x - 1) \div b = y
  <2> HIDE DEF b
  <2>1. y * b = b * y /\ b * y \in Nat /\ x - 1 = b * y + e
    <3>1. y * b = b * y /\ b * y \in Nat
      BY <1>1
    <3>2. QED
      BY <1>1, <1>2, <3>1
  <2>2. (x - 1) % b = e /\ (x - 1) \div b = y
    BY <1>1, <2>1, DivUnique
  <2>3. b * (y + 1) <= b * m
    <3>1. \A c, d \in Nat : c <= d => b * c <= b * d
      BY <1>1
    <3>2. y + 1 \in Nat /\ y + 1 <= m
      BY <1>1, <1>2
    <3>3. QED
      BY <1>1, <3>1, <3>2
  <2>4. b * (y + 1) = b * y + b
    BY <1>1
  <2> DEFINE u == b * y
             w == b * m
  <2>5. u \in Nat /\ w \in Nat /\ u + b <= w /\ x - 1 = u + e
    BY <1>1, <2>1, <2>3, <2>4
  <2> HIDE DEF u, w
  <2>6. x = 1 + y * b + e /\ y * b \in Nat
    BY <1>2, <2>1
  <2>7. x \in Nat \ {0}
    BY <1>1, <2>6
  <2>8. x <= w
    BY <1>1, <2>5, <2>7
  <2>9. QED
    BY <2>2, <2>7, <2>8 DEF w
<1>3. CASE e < Zeros
  <2> DEFINE y == (m \div 10) * 9 + (m % 10) - 1
  <2>1. m % 10 # 0
    BY <1>3 DEF Parts
  <2>2. y \in Nat /\ y <= m - 1 /\ (y \div 9) * 10 + (y % 9) + 1 = m
    BY <1>1, <2>1, Nines
  <2>3. x = 1 + y * b + e
    BY <1>3 DEF Packed
  <2> HIDE DEF y
  <2>4. x \in Nat \ {0} /\ x <= b * m /\ (x - 1) % b = e /\ (x - 1) \div b = y
    BY <1>2, <2>2, <2>3
  <2>5. Exponent(x) = e
    BY <2>4 DEF Exponent
  <2>6. Mantissa(x) = m
    BY <1>3, <2>2, <2>4, <2>5 DEF Mantissa
  <2>7. QED
    BY <2>4, <2>5, <2>6
<1>4. CASE ~(e < Zeros)
  <2> DEFINE y == m - 1
  <2>1. y \in Nat /\ y <= m - 1 /\ y + 1 = m
    BY <1>1
  <2>2. x = 1 + y * b + e
    BY <1>4 DEF Packed
  <2> HIDE DEF y
  <2>3. x \in Nat \ {0} /\ x <= b * m /\ (x - 1) % b = e /\ (x - 1) \div b = y
    BY <1>2, <2>1, <2>2
  <2>4. Exponent(x) = e
    BY <2>3 DEF Exponent
  <2>5. Mantissa(x) = m
    BY <1>4, <2>1, <2>3, <2>4 DEF Mantissa
  <2>6. QED
    BY <2>3, <2>4, <2>5
<1>5. QED
  BY <1>3, <1>4

\* Every number but zero stands for its parts.
LEMMA PartsPacked ==
    ASSUME NEW x \in Nat \ {0}
    PROVE  Parts(Mantissa(x), Exponent(x)) /\ Packed(Mantissa(x), Exponent(x)) = x
<1> DEFINE b == Zeros + 1
           e == (x - 1) % b
           y == (x - 1) \div b
           m == Mantissa(x)
<1>1. b \in Nat \ {0} /\ Zeros \in Nat /\ x - 1 \in Nat
  BY RadixAssumption
<1>2. e \in 0 .. b - 1 /\ y \in Nat /\ x - 1 = b * y + e
  BY <1>1, DivMod
<1>3. Exponent(x) = e /\ e \in 0 .. Zeros
  BY <1>1, <1>2 DEF Exponent
<1>4. m = IF e < Zeros THEN (y \div 9) * 10 + (y % 9) + 1 ELSE y + 1
  BY <1>3 DEF Mantissa
<1> HIDE DEF e, y, m
<1>5. x = 1 + y * b + e
  <2>1. y * b = b * y /\ b * y \in Nat
    BY <1>1, <1>2
  <2> DEFINE u == b * y
  <2>2. u \in Nat /\ x - 1 = u + e /\ y * b = u
    BY <1>2, <2>1
  <2> HIDE DEF u
  <2>3. x = 1 + u + e
    BY <1>1, <1>2, <2>2
  <2>4. QED
    BY <2>2, <2>3
<1>6. CASE e < Zeros
  <2>1. m = (y \div 9) * 10 + (y % 9) + 1
    BY <1>4, <1>6
  <2>2. m \in Nat \ {0} /\ m % 10 # 0 /\ (m \div 10) * 9 + (m % 10) - 1 = y
    BY <1>2, <2>1, Tens
  <2>3. Packed(m, e) = x
    BY <1>5, <1>6, <2>2 DEF Packed
  <2>4. QED
    BY <1>3, <2>2, <2>3 DEF Parts, m
<1>7. CASE ~(e < Zeros)
  <2>1. m = y + 1 /\ m - 1 = y /\ m \in Nat \ {0}
    BY <1>2, <1>4, <1>7
  <2>2. Packed(m, e) = x
    BY <1>5, <1>7, <2>1 DEF Packed
  <2>3. QED
    BY <1>3, <1>7, <2>1, <2>2 DEF Parts, m
<1>8. QED
  BY <1>6, <1>7

\* The states of DecompressAmount's loop.
Raises(n, x) ==
    /\ DecompressAmount(x) = n[Exponent(x)] /\ n[0] = Mantissa(x)
    /\ \A i \in 1 .. Exponent(x) : n[i] = (n[i - 1] * 10) % Word

\* DecompressAmount is a loop.
LEMMA RaiseLoop ==
    ASSUME NEW x \in Nat \ {0}
    PROVE  \E n : Raises(n, x)
<1> DEFINE Raise(k) == (k * 10) % Word
           start == Mantissa(x)
           e == Exponent(x)
           round == [i \in 1 .. e |-> [k \in Nat |-> Raise(k)]]
           Is(g) == g = [i \in 0 .. e |-> IF i = 0 THEN start ELSE Raise(g[i - 1])]
           n == CHOOSE g : Is(g)
<1>1. DecompressAmount(x) = n[e]
  <2>1. DecompressAmount(x) = IF x = 0 THEN 0 ELSE n[e]
    BY Zenon DEF DecompressAmount
  <2>2. QED
    BY <2>1
<1>2. e \in Nat /\ start \in Nat
  BY PartsPacked, RadixAssumption DEF Parts
<1>3. ASSUME NEW k \in Nat PROVE Raise(k) \in Nat
  <2>1. k * 10 \in Nat /\ Word \in Nat \ {0}
    BY RadixAssumption
  <2>2. QED
    BY <2>1, DivMod
<1> HIDE DEF start, e, Raise
<1>4. round \in [1 .. e -> [Nat -> Nat]]
  BY <1>3
<1>5. PICK g : Runs(g, e, Nat, start, round)
  <2> HIDE DEF round
  <2>1. QED
    BY <1>2, <1>4, LoopRuns
<1>6. ASSUME NEW i \in 1 .. e PROVE g[i] = Raise(g[i - 1])
  <2>1. i - 1 \in 0 .. e /\ g[i - 1] \in Nat
    BY <1>2, <1>5 DEF Runs
  <2>2. QED
    BY <1>5, <2>1 DEF Runs
<1>7. Is(g)
  BY <1>2, <1>5, <1>6 DEF Runs
<1>8. Is(n)
  BY <1>7, Zenon
<1> HIDE DEF n
<1>9. \A i \in 0 .. e : n[i] = IF i = 0 THEN start ELSE Raise(n[i - 1])
  BY <1>8, Zenon
<1>10. n[0] = start /\ \A i \in 1 .. e : n[i] = Raise(n[i - 1])
  <2>1. 0 \in 0 .. e /\ \A i \in 1 .. e : i \in 0 .. e /\ i # 0
    BY <1>2
  <2>2. QED
    BY <1>9, <2>1, Zenon
<1>11. QED
  BY <1>1, <1>10, Zenon DEF Raises, start, e, Raise

\* A number decompresses to the amount its parts make, if that is a uint64.
LEMMA Raised ==
    ASSUME NEW x \in Nat \ {0}, NEW m, m = Mantissa(x), NEW e, e = Exponent(x),
           m * Power(10, e) < Word
    PROVE  DecompressAmount(x) = m * Power(10, e)
<1> DEFINE P(i) == Power(10, i)
<1>1. m \in Nat \ {0} /\ e \in Nat /\ Zeros \in Nat /\ Word \in Nat \ {0}
  BY PartsPacked, RadixAssumption DEF Parts
<1>2. PICK n : Raises(n, x)
  BY RaiseLoop
<1>3. \A i \in 0 .. e : P(i) \in Nat \ {0} /\ P(i) <= P(e)
  BY <1>1, PowersGrow
<1>4. P(0) = 1 /\ \A i \in Nat : P(i + 1) = 10 * P(i)
  BY Powers
<1> DEFINE T == {i \in 0 .. e : n[i] = m * P(i)}
<1>5. 0 \in T
  <2>1. n[0] = m /\ m * 1 = m /\ 0 \in 0 .. e
    BY <1>1, <1>2 DEF Raises
  <2>2. QED
    BY <1>4, <2>1
<1>6. ASSUME NEW i \in 0 .. e - 1, i \in T PROVE i + 1 \in T
  <2>1. i + 1 \in 1 .. e /\ (i + 1) - 1 = i /\ i + 1 \in 0 .. e /\ i \in 0 .. e /\ i \in Nat
    BY <1>1
  <2>2. n[i + 1] = (n[i] * 10) % Word
    BY <1>2, <2>1 DEF Raises
  <2>3. n[i] = m * P(i)
    BY <1>6
  <2> DEFINE p == P(i)
             q == P(i + 1)
             t == P(e)
  <2>4. p \in Nat /\ q \in Nat /\ q = 10 * p /\ t \in Nat /\ q <= t /\ m * t < Word
    <3>1. e \in 0 .. e
      BY <1>1
    <3>2. QED
      BY <1>3, <1>4, <2>1, <3>1
  <2> HIDE DEF p, q, t
  <2>5. (m * p) * 10 = m * q
    <3>1. (m * p) * 10 = m * (10 * p)
      BY <1>1, <2>4
    <3>2. QED
      BY <2>4, <3>1
  <2>6. m * q <= m * t /\ m * q \in Nat /\ m * t \in Nat
    <3>1. \A a, b, c \in Nat : a <= b => c * a <= c * b /\ c * a \in Nat
      OBVIOUS
    <3>2. QED
      BY <1>1, <2>4, <3>1
  <2> DEFINE mq == m * q
             mt == m * t
  <2>7. mq \in Nat /\ mt \in Nat /\ mq <= mt /\ mt < Word
    BY <2>4, <2>6
  <2> HIDE DEF mq, mt
  <2>8. mq % Word = mq
    <3>1. mq \in 0 .. Word - 1
      BY <1>1, <2>7
    <3>2. QED
      BY <3>1, FitsWord
  <2>9. n[i + 1] = m * q
    BY <2>2, <2>3, <2>5, <2>8 DEF mq, p
  <2>10. QED
    BY <2>1, <2>9 DEF q
<1>7. e \in T
  <2> HIDE DEF T
  <2>1. 0 .. e \subseteq T
    BY <1>1, <1>5, <1>6, UpTo
  <2>2. QED
    BY <1>1, <2>1
<1>8. QED
  BY <1>2, <1>7 DEF Raises

\* The compressed form of an amount is the number that stands for its parts, as a uint64.
LEMMA Compressed ==
    ASSUME NEW n \in Nat \ {0}, NEW m, NEW e, Parts(m, e), Stripped(n) = [n |-> m, e |-> e],
           Packed(m, e) \in 0 .. Word - 1
    PROVE  CompressAmount(n) = Packed(m, e)
<1>1. CompressAmount(n) = Packed(m, e) % Word
  BY DEF CompressAmount, Packed
<1>2. QED
  BY <1>1, FitsWord

\* An amount whose compressed form fits into a uint64 is decompressed from it.
LEMMA AmountRestored ==
    ASSUME NEW n \in Nat, (Zeros + 1) * n < Word
    PROVE  DecompressAmount(CompressAmount(n)) = n /\ CompressAmount(n) \in 0 .. Word - 1
<1>1. CASE n = 0
  <2>1. CompressAmount(0) = 0 /\ DecompressAmount(0) = 0
    BY Zenon DEF CompressAmount, DecompressAmount
  <2>2. QED
    BY <1>1, <2>1, ByteFacts
<1>2. CASE n # 0
  <2>1. n \in Nat \ {0} /\ Zeros \in Nat /\ Word \in Nat \ {0}
    BY <1>2, RadixAssumption
  <2>2. PICK m, e : Parts(m, e) /\ Stripped(n) = [n |-> m, e |-> e] /\ n = m * Power(10, e)
    BY <2>1, StrippedParts
  <2> DEFINE x == Packed(m, e)
             p == Power(10, e)
  <2>3. x \in Nat \ {0} /\ x <= (Zeros + 1) * m /\ Exponent(x) = e /\ Mantissa(x) = m
    BY <2>2, PackedParts
  <2>4. m \in Nat \ {0} /\ p \in Nat \ {0} /\ n = m * p
    <3>1. m \in Nat \ {0} /\ e \in Nat /\ e \in 0 .. e
      BY <2>1, <2>2 DEF Parts
    <3>2. QED
      BY <2>2, <3>1, PowersGrow
  <2> HIDE DEF x, p
  <2>5. m <= n
    BY <2>4
  <2> DEFINE u == (Zeros + 1) * m
             w == (Zeros + 1) * n
  <2>6. u <= w /\ u \in Nat /\ w \in Nat /\ w < Word
    <3>1. \A a, b, c \in Nat : a <= b => c * a <= c * b /\ c * a \in Nat
      OBVIOUS
    <3>2. Zeros + 1 \in Nat
      BY <2>1
    <3>3. QED
      BY <2>1, <2>4, <2>5, <3>1, <3>2
  <2>7. x <= u
    BY <2>3
  <2> HIDE DEF u, w
  <2>8. x \in 0 .. Word - 1
    BY <2>1, <2>3, <2>6, <2>7
  <2>9. CompressAmount(n) = x
    BY <2>1, <2>2, <2>8, Compressed DEF x
  <2>10. n < Word
    <3>1. n <= (Zeros + 1) * n
      BY <2>1
    <3>2. QED
      BY <2>1, <2>6, <3>1 DEF w
  <2>11. DecompressAmount(x) = n
    BY <2>2, <2>3, <2>10, Raised
  <2>12. QED
    BY <2>8, <2>9, <2>11
<1>3. QED
  BY <1>1, <1>2

\* A number that decompresses to a uint64 is the compressed form of it.
LEMMA CompressedRestored ==
    ASSUME NEW x \in 0 .. Word - 1,
           x = 0 \/ Mantissa(x) <= (Word - 1) \div Power(10, Exponent(x))
    PROVE  CompressAmount(DecompressAmount(x)) = x
<1>1. CASE x = 0
  BY <1>1, Zenon DEF CompressAmount, DecompressAmount
<1>2. CASE x # 0
  <2> DEFINE m == Mantissa(x)
             e == Exponent(x)
             p == Power(10, e)
             k == Word - 1
  <2>1. x \in Nat \ {0} /\ Zeros \in Nat /\ k \in Nat
    BY <1>2, RadixAssumption
  <2>2. Parts(m, e) /\ Packed(m, e) = x
    BY <2>1, PartsPacked
  <2>3. m \in Nat \ {0} /\ p \in Nat \ {0} /\ m <= k \div p
    <3>1. m \in Nat \ {0} /\ e \in Nat /\ e \in 0 .. e
      BY <2>1, <2>2 DEF Parts
    <3>2. QED
      BY <1>2, <3>1, PowersGrow
  <2>4. m * p \in Nat \ {0} /\ Stripped(m * p) = [n |-> m, e |-> e]
    BY <2>2, StripsParts
  <2> HIDE DEF p
  <2>5. m * p < Word
    <3> DEFINE q == k \div p
               r == k % p
               c == p * q
    <3>1. q \in Nat /\ r \in 0 .. p - 1 /\ k = c + r
      BY <2>1, <2>3, DivMod
    <3>2. m <= q
      BY <2>3
    <3> HIDE DEF q, r, m, k
    <3>3. m * p <= c /\ c \in Nat
      <4>1. \A a, b, d \in Nat : a <= b => a * d <= d * b /\ d * b \in Nat
        OBVIOUS
      <4>2. QED
        BY <2>3, <3>1, <3>2, <4>1
    <3> DEFINE mp == m * p
    <3>4. mp \in Nat /\ mp <= c /\ c \in Nat /\ k = c + r /\ r \in Nat
      BY <2>3, <2>4, <3>1, <3>3
    <3> HIDE DEF mp, c
    <3>5. mp <= k
      BY <3>4
    <3>6. mp <= Word - 1 /\ Word \in Nat
      BY <3>5, RadixAssumption DEF k
    <3>7. QED
      BY <3>4, <3>6 DEF mp
  <2>6. DecompressAmount(x) = m * p
    BY <2>1, <2>5, Raised DEF p
  <2>7. CompressAmount(m * p) = x
    <3> DEFINE n == m * p
    <3>1. n \in Nat \ {0} /\ Stripped(n) = [n |-> m, e |-> e] /\ Packed(m, e) \in 0 .. Word - 1
      BY <2>2, <2>4
    <3> HIDE DEF n, m, e
    <3>2. CompressAmount(n) = Packed(m, e)
      BY <2>2, <3>1, Compressed
    <3>3. QED
      BY <2>2, <3>2 DEF n
  <2>8. QED
    BY <2>6, <2>7
<1>3. QED
  BY <1>1, <1>2

-----------------------------------------------------------------------------
(***************************************************************************)
(* The theorems: NumberFormats' promises hold of every number.             *)
(***************************************************************************)

\* WriteVarInt/ReadVarInt and WriteCompactSize/ReadCompactSize lose no number, whatever
\* bytes follow in the stream; of the byte sequences that are too short for the result to
\* wrap around, none reads as a VarInt but the one that is written for its value; and a
\* CompactSize that is cut off does not read.
THEOREM NumbersAlwaysReadBack ==
    ASSUME number \in 0 .. Word - 1, Follows \in Seq(Byte),
           Width \in 1 .. BufLen, 2 * Power(Half, Width) <= Word
    PROVE  NumbersReadBack
<1>1. number \in Nat /\ Width \in Nat
  BY ByteFacts, RadixAssumption
<1>2. ReadVarInt(WriteVarInt(number) \o Follows) = Ok(number, Follows)
  BY VarIntReadsBack
<1>3. ReadVarInt(LittleEndian(number, Width)).ok
      => WriteVarInt(ReadVarInt(LittleEndian(number, Width)).value)
           \o ReadVarInt(LittleEndian(number, Width)).rest = LittleEndian(number, Width)
  <2> DEFINE s == LittleEndian(number, Width)
  <2>1. s \in Seq(Byte) /\ Len(s) <= Width
    BY <1>1, LittleEndianBytes
  <2> HIDE DEF s
  <2>2. ReadVarInt(s).ok => WriteVarInt(ReadVarInt(s).value) \o ReadVarInt(s).rest = s
    BY <2>1, VarIntCanonical
  <2>3. QED
    BY <2>2 DEF s
<1>4. ReadsWhole(WriteCompactSize(number), number, Follows)
  BY CompactSizeReadsBack
<1>5. QED
  BY <1>2, <1>3, <1>4, Zenon DEF NumbersReadBack, ReadsWhole

\* CompressAmount and DecompressAmount undo each other as long as neither result exceeds
\* a uint64.
THEOREM AmountsBijective ==
    ASSUME number \in 0 .. Word - 1
    PROVE  AmountBijective
<1>1. number \in Nat
  BY ByteFacts
<1>2. (Zeros + 1) * number < Word => DecompressAmount(CompressAmount(number)) = number
  BY <1>1, AmountRestored
<1>3. (\/ number = 0
       \/ Mantissa(number) <= (Word - 1) \div Power(10, Exponent(number)))
      => CompressAmount(DecompressAmount(number)) = number
  BY CompressedRestored
<1>4. QED
  BY <1>2, <1>3, Zenon DEF AmountBijective

(***************************************************************************)
(* Scripts.                                                                *)
(***************************************************************************)

\* What is written for a number is one byte or more.
LEMMA VarIntBytes ==
    ASSUME NEW n \in 0 .. Word - 1
    PROVE  WriteVarInt(n) \in Seq(Byte) /\ Len(WriteVarInt(n)) \in Nat \ {0}
<1> DEFINE w == WriteVarInt(n)
<1>1. w \in Seq(Byte) /\ \E a : Trace(a, [n |-> 0, buf |-> w], n)
  BY WrittenTrace
<1> HIDE DEF w
<1>2. Len(w) \in Nat /\ Len(w) > 0
  BY <1>1 DEF Trace
<1>3. QED
  BY <1>1, <1>2 DEF w

\* A number that needs no second group is written as itself.
LEMMA OneByte ==
    ASSUME NEW n \in 0 .. Half - 1
    PROVE  WriteVarInt(n) = <<n>>
<1>1. n \in Nat /\ Half \in Nat \ {0} /\ BufLen - 1 \in Nat /\ BufLen - 1 \in 0 .. BufLen - 1
  BY ByteFacts, RadixAssumption
<1>2. n \div Half = 0 /\ n % Half = n
  <2>1. n = Half * 0 + n /\ 0 \in Nat
    BY <1>1
  <2>2. QED
    BY <1>1, <2>1, DivUnique
<1>3. PICK after : Writes(after, n)
  BY <1>1, WriteLoop
<1> DEFINE done == [n |-> 0, buf |-> <<n>>]
           T == {i \in 0 .. BufLen - 1 : after[i] = done}
<1>4. 0 \in T
  BY <1>1, <1>2, <1>3 DEF Writes
<1>5. ASSUME NEW i \in 0 .. (BufLen - 1) - 1, i \in T PROVE i + 1 \in T
  <2>1. i + 1 \in 1 .. BufLen - 1 /\ i + 1 \in 0 .. BufLen - 1 /\ (i + 1) - 1 = i
    BY <1>1
  <2>2. after[i + 1] = Group(done)
    BY <1>3, <1>5, <2>1 DEF Writes
  <2>3. Group(done) = done
    BY DEF Group
  <2>4. QED
    BY <2>1, <2>2, <2>3
<1>6. BufLen - 1 \in T
  <2> HIDE DEF T
  <2> DEFINE m == BufLen - 1
  <2>1. m \in Nat /\ \A i \in 0 .. m - 1 : i \in T => i + 1 \in T
    BY <1>1, <1>5
  <2> HIDE DEF m
  <2>2. 0 .. m \subseteq T
    BY <1>4, <2>1, UpTo
  <2>3. QED
    BY <2>1, <2>2 DEF m
<1>7. QED
  BY <1>3, <1>6 DEF Writes

\* The size byte of a special script, as it is read.
LEMMA ReadsByte ==
    ASSUME NEW b \in 0 .. nSpecialScripts - 1, NEW follows \in Seq(Byte)
    PROVE  b \in Byte /\ ReadVarInt(<<b>> \o follows) = Ok(b, follows)
<1>1. b \in 0 .. Half - 1 /\ b \in 0 .. Word - 1 /\ b \in Byte
  BY ByteFacts, FormatAssumption DEF nSpecialScripts, Byte
<1>2. WriteVarInt(b) = <<b>>
  BY <1>1, OneByte
<1>3. QED
  BY <1>1, <1>2, VarIntReadsBack

\* What a payload is behind its size, which is the script it stands for.
Restored(nSize, p) ==
    IF nSize = 0 THEN P2PKH(p)
    ELSE IF nSize = 1 THEN P2SH(p)
    ELSE IF nSize \in {2, 3} THEN P2PK(nSize, p)
    ELSE IF nSize \in {4, 5} THEN <<nSize>> \o p
    ELSE p
Payload(nSize) ==
    IF nSize < 2 THEN HashSize ELSE IF nSize < nSpecialScripts THEN CoordSize
    ELSE nSize - nSpecialScripts

\* A size and a payload of that size are read as the script they stand for.
LEMMA SizedScript ==
    ASSUME NEW s, NEW nSize, NEW p \in Seq(Byte), NEW follows \in Seq(Byte),
           ReadVarInt(s) = Ok(nSize, p \o follows), Len(p) = Payload(nSize)
    PROVE  ReadCompressedScript(s) = Ok(Restored(nSize, p), follows)
<1> DEFINE rest == p \o follows
<1>1. ReadFull(rest, Payload(nSize)) = Ok(p, follows)
  BY ReadFullTakes
<1>2. ReadVarInt(s) = Ok(nSize, rest)
  OBVIOUS
<1> HIDE DEF rest
<1>3. ReadVarInt(s).ok /\ ReadVarInt(s).value = nSize /\ ReadVarInt(s).rest = rest
  BY <1>2 DEF Ok
<1>4. ReadFull(rest, Payload(nSize)).ok /\ ReadFull(rest, Payload(nSize)).value = p
      /\ ReadFull(rest, Payload(nSize)).rest = follows
  BY <1>1 DEF Ok
<1>5. QED
  BY <1>3, <1>4, Zenon DEF ReadCompressedScript, Then, Restored, Payload

\* A size byte and its payload.
LEMMA SpecialScript ==
    ASSUME NEW b \in 0 .. nSpecialScripts - 1, NEW p \in Seq(Byte), Len(p) = Payload(b),
           NEW follows \in Seq(Byte)
    PROVE  /\ <<b>> \o p \in Seq(Byte) /\ Len(<<b>> \o p) \in Nat \ {0}
           /\ ReadCompressedScript((<<b>> \o p) \o follows) = Ok(Restored(b, p), follows)
<1>1. p \o follows \in Seq(Byte)
  OBVIOUS
<1>2. b \in Byte /\ ReadVarInt(<<b>> \o (p \o follows)) = Ok(b, p \o follows)
  BY <1>1, ReadsByte
<1>3. <<b>> \in Seq(Byte) /\ Len(<<b>>) = 1
  BY <1>2
<1>4. <<b>> \o p \in Seq(Byte) /\ Len(<<b>> \o p) = 1 + Len(p) /\ Len(p) \in Nat
  <2> DEFINE h == <<b>>
  <2>1. h \in Seq(Byte) /\ Len(h) = 1
    BY <1>3
  <2> HIDE DEF h
  <2>2. h \o p \in Seq(Byte) /\ Len(h \o p) = Len(h) + Len(p)
    BY <2>1, ConcatProperties, Zenon
  <2>9. Len(p) \in Nat
    BY LenProperties
  <2>3. QED
    BY <2>1, <2>2, <2>9 DEF h
<1>5. (<<b>> \o p) \o follows = <<b>> \o (p \o follows)
  BY <1>3, ConcatAssociative
<1>6. ReadCompressedScript(<<b>> \o (p \o follows)) = Ok(Restored(b, p), follows)
  BY <1>2, SizedScript
<1>7. Len(<<b>> \o p) \in Nat \ {0}
  BY <1>4
<1>8. QED
  BY <1>4, <1>5, <1>6, <1>7, Zenon

\* The hash and the coordinates within a script.
LEMMA ScriptParts ==
    ASSUME NEW s \in Seq(Byte), NEW start \in Nat \ {0}
    PROVE  /\ start + HashSize - 1 <= Len(s) =>
                Hash160(s, start) \in Seq(Byte) /\ Len(Hash160(s, start)) = HashSize
           /\ start + CoordSize - 1 <= Len(s) =>
                Coordinate(s, start) \in Seq(Byte) /\ Len(Coordinate(s, start)) = CoordSize
<1>1. HashSize \in Nat /\ CoordSize \in Nat /\ Len(s) \in Nat
  BY ByteFacts, FormatAssumption DEF Byte
<1>2. ASSUME NEW k \in Nat, start + k - 1 <= Len(s)
      PROVE  SubSeq(s, start, start + k - 1) \in Seq(Byte) /\ Len(SubSeq(s, start, start + k - 1)) = k
  <2> DEFINE n == start + k - 1
  <2>1. n \in Int /\ start \in Int /\ \A i \in start .. n : i \in 1 .. Len(s)
    BY <1>1, <1>2
  <2>2. \A i \in start .. n : s[i] \in Byte
    BY <2>1
  <2>3. (IF start <= n THEN n - start + 1 ELSE 0) = k
    BY <1>1
  <2> HIDE DEF n
  <2>4. SubSeq(s, start, n) \in Seq(Byte) /\ Len(SubSeq(s, start, n)) = IF start <= n THEN n - start + 1 ELSE 0
    BY <2>1, <2>2, SubSeqProperties
  <2>5. QED
    BY <2>3, <2>4 DEF n
<1>3. QED
  BY <1>1, <1>2 DEF Hash160, Coordinate

\* What is known of the sizes.
LEMMA Sizes ==
    /\ HashSize \in Nat /\ CoordSize \in Nat
    /\ 2 * CoordSize + 3 # HashSize + 5 /\ 2 * CoordSize + 3 # HashSize + 3
    /\ 2 * CoordSize + 3 # CoordSize + 3 /\ 2 * CoordSize + 3 # CoordSize + 1
    /\ CoordSize + 1 # HashSize + 5 /\ CoordSize + 1 # HashSize + 3 /\ CoordSize + 1 # CoordSize + 3
<1>1. HashSize \in Nat /\ CoordSize \in Nat
  BY ByteFacts, FormatAssumption DEF Byte
<1>2. \A x, y : /\ x \in {2 * CoordSize + 3, CoordSize + 1}
                /\ y \in {HashSize + 5, HashSize + 3, CoordSize + 3}
                => x # y
  BY FormatAssumption, Zenon
<1>3. /\ 2 * CoordSize + 3 # HashSize + 5 /\ 2 * CoordSize + 3 # HashSize + 3
      /\ 2 * CoordSize + 3 # CoordSize + 3
      /\ CoordSize + 1 # HashSize + 5 /\ CoordSize + 1 # HashSize + 3 /\ CoordSize + 1 # CoordSize + 3
  BY <1>2, Zenon
<1>4. QED
  BY <1>1, <1>3

\* An uncompressed key in its synthetic form is a size byte and a coordinate.
LEMMA SyntheticForm ==
    ASSUME NEW s \in Seq(Byte), IsP2PKUncompressed(s)
    PROVE  \E b \in {4, 5} : /\ Synthetic(s) = <<b>> \o Coordinate(s, 3)
                             /\ Coordinate(s, 3) \in Seq(Byte) /\ Len(Coordinate(s, 3)) = CoordSize
<1>1. CoordSize \in Nat /\ Len(s) = 2 * CoordSize + 3 /\ 3 \in Nat \ {0}
  BY Sizes DEF IsP2PKUncompressed
<1> DEFINE y == s[2 * CoordSize + 2]
<1>2. y \in Nat
  <2>1. 2 * CoordSize + 2 \in 1 .. Len(s)
    BY <1>1
  <2>2. y \in Byte
    BY <2>1
  <2>3. QED
    BY <2>2, ByteFacts DEF Byte
<1>3. Synthetic(s) = <<4 + (y % 2)>> \o Coordinate(s, 3)
  BY DEF Synthetic
<1> HIDE DEF y
<1>4. 4 + (y % 2) \in {4, 5}
  BY <1>2
<1>5. Coordinate(s, 3) \in Seq(Byte) /\ Len(Coordinate(s, 3)) = CoordSize
  <2>1. 3 + CoordSize - 1 <= Len(s)
    BY <1>1
  <2>2. QED
    BY <1>1, <2>1, ScriptParts
<1>6. QED
  BY <1>3, <1>4, <1>5

\* A script reads back as it was written, but for uncompressed keys.
LEMMA ScriptReadsBack ==
    ASSUME NEW s \in Seq(Byte), Len(s) + nSpecialScripts < Word, NEW follows \in Seq(Byte)
    PROVE  /\ CoreScript(s) \in Seq(Byte) /\ Len(CoreScript(s)) \in Nat \ {0}
           /\ ReadCompressedScript(CoreScript(s) \o follows) = Ok(Canonical(s), follows)
<1> DEFINE w == CoreScript(s)
           Good == /\ w \in Seq(Byte) /\ Len(w) \in Nat \ {0}
                   /\ ReadCompressedScript(w \o follows) = Ok(Canonical(s), follows)
<1>1. Len(s) \in Nat /\ 3 \in Nat \ {0} /\ 4 \in Nat \ {0} /\ HashSize \in Nat /\ CoordSize \in Nat
  BY Sizes
<1>2. ASSUME NEW b \in 0 .. nSpecialScripts - 1, NEW p \in Seq(Byte), Len(p) = Payload(b),
             w = <<b>> \o p, Canonical(s) = Restored(b, p)
      PROVE  Good
  BY <1>2, SpecialScript
<1>3. 0 \in 0 .. nSpecialScripts - 1 /\ 1 \in 0 .. nSpecialScripts - 1
  BY DEF nSpecialScripts
<1>4. CASE IsP2PKH(s)
  <2> DEFINE p == Hash160(s, 4)
  <2>1. Len(s) = HashSize + 5 /\ s = P2PKH(p)
    BY <1>4, Zenon DEF IsP2PKH
  <2>2. p \in Seq(Byte) /\ Len(p) = HashSize
    <3>1. 4 + HashSize - 1 <= Len(s)
      BY <1>1, <2>1
    <3>2. QED
      BY <1>1, <3>1, ScriptParts
  <2>3. w = <<0>> \o p
    BY <1>4 DEF CoreScript
  <2>4. ~IsPublicKey(s)
    BY <2>1, Sizes DEF IsPublicKey, IsP2PKUncompressed
  <2> HIDE DEF p
  <2>5. Canonical(s) = s /\ Restored(0, p) = P2PKH(p) /\ Payload(0) = HashSize
    BY <2>4 DEF Canonical, Restored, Payload
  <2>6. QED
    BY <1>2, <1>3, <2>1, <2>2, <2>3, <2>5
<1>5. CASE ~IsP2PKH(s) /\ IsP2SH(s)
  <2> DEFINE p == Hash160(s, 3)
  <2>1. Len(s) = HashSize + 3 /\ s = P2SH(p)
    BY <1>5, Zenon DEF IsP2SH
  <2>2. p \in Seq(Byte) /\ Len(p) = HashSize
    <3>1. 3 + HashSize - 1 <= Len(s)
      BY <1>1, <2>1
    <3>2. QED
      BY <1>1, <3>1, ScriptParts
  <2>3. w = <<1>> \o p
    BY <1>5 DEF CoreScript
  <2>4. ~IsPublicKey(s)
    BY <2>1, Sizes DEF IsPublicKey, IsP2PKUncompressed
  <2> HIDE DEF p
  <2>5. Canonical(s) = s /\ Restored(1, p) = P2SH(p) /\ Payload(1) = HashSize
    BY <2>4 DEF Canonical, Restored, Payload
  <2>6. QED
    BY <1>2, <1>3, <2>1, <2>2, <2>3, <2>5
<1>6. CASE ~IsP2PKH(s) /\ ~IsP2SH(s) /\ IsP2PK(s)
  <2> DEFINE p == Coordinate(s, 3)
             b == s[2]
  <2>1. Len(s) = CoordSize + 3 /\ b \in {2, 3} /\ s = P2PK(b, p)
    BY <1>6, Zenon DEF IsP2PK
  <2>2. p \in Seq(Byte) /\ Len(p) = CoordSize
    <3>1. 3 + CoordSize - 1 <= Len(s)
      BY <1>1, <2>1
    <3>2. QED
      BY <1>1, <3>1, ScriptParts
  <2>3. w = <<b>> \o p
    BY <1>6 DEF CoreScript
  <2>4. ~IsPublicKey(s)
    BY <2>1, Sizes DEF IsPublicKey, IsP2PKUncompressed
  <2> HIDE DEF p, b
  <2>5. b \in 0 .. nSpecialScripts - 1 /\ Payload(b) = CoordSize
    BY <2>1 DEF nSpecialScripts, Payload
  <2>6. Canonical(s) = s /\ Restored(b, p) = P2PK(b, p)
    BY <2>1, <2>4 DEF Canonical, Restored
  <2>7. QED
    BY <1>2, <2>1, <2>2, <2>3, <2>5, <2>6
<1>7. CASE IsPublicKey(s)
  <2> DEFINE p == Coordinate(s, 3)
  <2>0. IsP2PKUncompressed(s)
    BY <1>7 DEF IsPublicKey
  <2>1. PICK b \in {4, 5} : Synthetic(s) = <<b>> \o p /\ p \in Seq(Byte) /\ Len(p) = CoordSize
    BY <2>0, SyntheticForm
  <2>2. ~IsP2PKH(s) /\ ~IsP2SH(s) /\ ~IsP2PK(s)
    BY <2>0, Sizes DEF IsP2PKUncompressed, IsP2PKH, IsP2SH, IsP2PK
  <2>3. w = Synthetic(s) /\ Canonical(s) = Synthetic(s)
    BY <1>7, <2>2 DEF CoreScript, Canonical
  <2> HIDE DEF p
  <2>4. b \in 0 .. nSpecialScripts - 1 /\ Payload(b) = CoordSize
    BY DEF nSpecialScripts, Payload
  <2>5. Restored(b, p) = <<b>> \o p
    BY DEF Restored
  <2>6. QED
    BY <1>2, <2>1, <2>3, <2>4, <2>5
<1>8. CASE ~IsP2PKH(s) /\ ~IsP2SH(s) /\ ~IsP2PK(s) /\ ~IsPublicKey(s)
  <2> DEFINE n == Len(s) + nSpecialScripts
             v == WriteVarInt(n)
  <2>1. w = v \o s /\ Canonical(s) = s
    BY <1>8 DEF CoreScript, Canonical
  <2>2. n \in 0 .. Word - 1 /\ n >= nSpecialScripts /\ n \in Nat
    BY <1>1, RadixAssumption DEF nSpecialScripts
  <2>3. Payload(n) = Len(s) /\ Restored(n, s) = s
    BY <1>1 DEF Payload, Restored, nSpecialScripts
  <2> HIDE DEF n
  <2>4. v \in Seq(Byte) /\ Len(v) \in Nat \ {0}
    BY <2>2, VarIntBytes
  <2>5. ReadVarInt(v \o (s \o follows)) = Ok(n, s \o follows)
    <3>1. s \o follows \in Seq(Byte)
      OBVIOUS
    <3>2. QED
      BY <2>2, <3>1, VarIntReadsBack
  <2> HIDE DEF v
  <2>6. w \in Seq(Byte) /\ Len(w) \in Nat \ {0}
    BY <1>1, <2>1, <2>4, ConcatProperties
  <2>7. w \o follows = v \o (s \o follows)
    BY <2>1, <2>4, ConcatAssociative
  <2>8. ReadCompressedScript(w \o follows) = Ok(s, follows)
    BY <2>3, <2>5, <2>7, SizedScript
  <2>9. QED
    BY <2>1, <2>6, <2>8
<1>9. QED
  BY <1>4, <1>5, <1>6, <1>7, <1>8

\* What was read is written as bitcoind wrote it, unless it is taken for a key.
LEMMA CanonicalWrites ==
    ASSUME NEW s \in Seq(Byte), ~TakenForKey(s)
    PROVE  WriteCompressedScript(Canonical(s)) = CoreScript(s)
<1>1. CASE ~IsPublicKey(s)
  <2>1. ~IsP2PKUncompressed(s) /\ ~IsSynthetic(s) /\ Canonical(s) = s
    BY <1>1 DEF TakenForKey, Canonical
  <2>2. QED
    BY <1>1, <2>1, Zenon DEF WriteCompressedScript, CoreScript
<1>2. CASE IsPublicKey(s)
  <2> DEFINE c == Synthetic(s)
  <2>0. IsP2PKUncompressed(s)
    BY <1>2 DEF IsPublicKey
  <2>1. PICK b \in {4, 5} : /\ c = <<b>> \o Coordinate(s, 3)
                            /\ Coordinate(s, 3) \in Seq(Byte) /\ Len(Coordinate(s, 3)) = CoordSize
    BY <2>0, SyntheticForm
  <2>2. ~IsP2PKH(s) /\ ~IsP2SH(s) /\ ~IsP2PK(s)
    BY <2>0, Sizes DEF IsP2PKUncompressed, IsP2PKH, IsP2SH, IsP2PK
  <2>3. CoreScript(s) = c /\ Canonical(s) = c
    BY <1>2, <2>2 DEF CoreScript, Canonical
  <2>4. Len(c) = CoordSize + 1 /\ c[1] = b
    <3> DEFINE x == Coordinate(s, 3)
    <3>1. x \in Seq(Nat) /\ <<b>> \in Seq(Nat) /\ Len(<<b>>) = 1 /\ CoordSize \in Nat
      BY <2>1, ByteFacts, Sizes DEF Byte
    <3> HIDE DEF x, c
    <3>2. c = <<b>> \o x /\ Len(x) = CoordSize
      BY <2>1 DEF x
    <3>3. QED
      BY <3>1, <3>2
  <2> HIDE DEF c
  <2>5. ~IsP2PKH(c) /\ ~IsP2SH(c) /\ ~IsP2PK(c) /\ ~IsP2PKUncompressed(c) /\ IsSynthetic(c)
    BY <2>1, <2>4, Sizes DEF IsP2PKUncompressed, IsP2PKH, IsP2SH, IsP2PK, IsSynthetic
  <2>6. WriteCompressedScript(c) = c
    BY <2>5 DEF WriteCompressedScript
  <2>7. QED
    BY <2>3, <2>6
<1>3. QED
  BY <1>1, <1>2

(***************************************************************************)
(* Coins.                                                                  *)
(***************************************************************************)

\* A coin all of whose numbers fit into their words.
Fits(c) ==
    /\ (Zeros + 1) * c.value < Word
    /\ Len(c.script) + nSpecialScripts < Word
\* The coin that is read for one that was written.
CanonicalCoin(c) == [c EXCEPT !.script = Canonical(@)]

\* Height and coinbase are found in the number that holds both.
LEMMA Unpacked ==
    ASSUME NEW h \in Nat, NEW b \in {0, 1}
    PROVE  (h * 2 + b) \div 2 = h /\ (h * 2 + b) % 2 = b
  OBVIOUS

\* Three sequences in a row, grouped from either end.
LEMMA Grouped ==
    ASSUME NEW S, NEW x \in Seq(S), NEW y \in Seq(S), NEW z \in Seq(S)
    PROVE  (x \o y) \o z = x \o (y \o z)
  BY ConcatAssociative

\* Five sequences in a row, grouped from either end.
Regrouped(a, b, c, d, e, S) ==
    /\ a \o b \o c \o d \in Seq(S)
    /\ Len(a \o b \o c \o d) = Len(a) + Len(b) + Len(c) + Len(d)
    /\ (a \o b \o c \o d) \o e = a \o (b \o (c \o (d \o e)))
LEMMA Regroup ==
    ASSUME NEW S, NEW a \in Seq(S), NEW b \in Seq(S), NEW c \in Seq(S), NEW d \in Seq(S),
           NEW e \in Seq(S)
    PROVE  Regrouped(a, b, c, d, e, S)
<1>0. \A x, y, z \in Seq(S) : (x \o y) \o z = x \o (y \o z)
  <2> TAKE x, y, z \in Seq(S)
  <2>1. QED
    OBVIOUS
<1> DEFINE ab == a \o b
           abc == ab \o c
           abcd == abc \o d
           de == d \o e
           cde == c \o de
<1>1. ab \in Seq(S) /\ Len(ab) = Len(a) + Len(b)
  BY ConcatProperties, Zenon
<1>2. de \in Seq(S)
  BY ConcatProperties, Zenon
<1>3. abcd \o e = abc \o de /\ abcd \in Seq(S) /\ Len(abcd) = Len(abc) + Len(d)
      /\ abc \o de = ab \o cde /\ abc \in Seq(S) /\ Len(abc) = Len(ab) + Len(c)
  <2> HIDE DEF ab
  <2>1. abc \in Seq(S) /\ Len(abc) = Len(ab) + Len(c)
    BY <1>1, ConcatProperties, Zenon
  <2>2. abc \o de = ab \o cde
    <3> HIDE DEF de
    <3>1. QED
      BY <1>1, <1>2, <1>0
  <2> HIDE DEF abc
  <2>3. abcd \in Seq(S) /\ Len(abcd) = Len(abc) + Len(d)
    BY <2>1, ConcatProperties, Zenon
  <2>4. abcd \o e = abc \o de
    BY <2>1, <1>0
  <2>5. QED
    BY <2>1, <2>2, <2>3, <2>4
<1>4. ab \o cde = a \o (b \o cde)
  <2>1. cde \in Seq(S)
    BY <1>2, ConcatProperties, Zenon
  <2> HIDE DEF cde
  <2>2. QED
    BY <2>1, <1>0
<1>5. Len(abcd) = Len(a) + Len(b) + Len(c) + Len(d)
  <2>1. Len(a) \in Nat /\ Len(b) \in Nat /\ Len(c) \in Nat /\ Len(d) \in Nat
    OBVIOUS
  <2> HIDE DEF ab, abc, abcd
  <2>2. QED
    BY <1>1, <1>3, <2>1
<1> HIDE DEF abcd, de
<1>6. abcd \in Seq(S) /\ Len(abcd) = Len(a) + Len(b) + Len(c) + Len(d)
      /\ abcd \o e = a \o (b \o (c \o de))
  <2> HIDE DEF ab, abc, cde
  <2>1. abcd \o e = a \o (b \o cde)
    BY <1>3, <1>4
  <2>2. QED
    BY <1>3, <1>5, <2>1 DEF cde
<1>7. QED
  BY <1>6, Zenon DEF Regrouped, abcd, abc, ab, de

\* A coin reads back as it was written, but for uncompressed keys.
LEMMA CoinReadsBack ==
    ASSUME NEW c \in Coin, Fits(c), NEW follows \in Seq(Byte)
    PROVE  /\ CoreCoin(c) \in Seq(Byte) /\ Len(CoreCoin(c)) \in Nat \ {0}
           /\ DeserializeCoin(CoreCoin(c) \o follows) = Ok(CanonicalCoin(c), follows)
<1> DEFINE h == c.height
           bit == IF c.coinBase THEN 1 ELSE 0
           packed == h * 2 + bit
           amount == CompressAmount(c.value)
           a == WriteVarInt(packed)
           d == IF h > 0 THEN <<0>> ELSE <<>>
           v == WriteVarInt(amount)
           w == CoreScript(c.script)
           t3 == w \o follows
           t2 == v \o t3
           t1 == d \o t2
<1>1. /\ h \in Nat /\ c.coinBase \in BOOLEAN /\ c.value \in Nat /\ c.script \in Seq(Byte)
      /\ bit \in {0, 1} /\ h * 2 + 1 < Word /\ h \in 0 .. HeightWord - 1
      /\ c = [height |-> h, coinBase |-> c.coinBase, value |-> c.value, script |-> c.script]
  <2>1. h \in 0 .. HeightWord - 1 /\ HeightWord \in Nat /\ 2 * HeightWord <= Word /\ Word \in Nat
    BY FormatAssumption, ByteFacts DEF Coin
  <2> HIDE DEF h
  <2>2. h \in Nat /\ h * 2 + 1 < Word
    BY <2>1
  <2> USE DEF h
  <2>3. /\ c.coinBase \in BOOLEAN /\ c.value \in Nat /\ c.script \in Seq(Byte) /\ bit \in {0, 1}
        /\ c = [height |-> h, coinBase |-> c.coinBase, value |-> c.value, script |-> c.script]
    BY DEF Coin
  <2>4. QED
    BY <2>1, <2>2, <2>3, Zenon
<1>2. packed \in 0 .. Word - 1 /\ Height(packed) = h /\ (packed % 2 = 1) = c.coinBase
  <2>1. packed \div 2 = h /\ packed % 2 = bit
    BY <1>1, Unpacked
  <2>2. (bit = 1) = c.coinBase
    BY <1>1
  <2> HIDE DEF bit
  <2>3. packed \in 0 .. Word - 1
    BY <1>1, ByteFacts
  <2>4. h % HeightWord = h
    <3>1. HeightWord \in Nat \ {0} /\ h \in 0 .. HeightWord - 1
      BY <1>1, FormatAssumption
    <3> HIDE DEF h
    <3>2. QED
      BY <3>1
  <2>5. Height(packed) = h
    BY <2>1, <2>4, Zenon DEF Height
  <2>6. QED
    BY <2>1, <2>2, <2>3, <2>5
<1>3. amount \in 0 .. Word - 1 /\ DecompressAmount(amount) = c.value
  BY <1>1, AmountRestored DEF Fits
<1> HIDE DEF bit, packed, amount
<1>4. a \in Seq(Byte) /\ Len(a) \in Nat \ {0} /\ v \in Seq(Byte) /\ Len(v) \in Nat
  BY <1>2, <1>3, VarIntBytes
<1>5. /\ w \in Seq(Byte) /\ Len(w) \in Nat
      /\ ReadCompressedScript(t3) = Ok(Canonical(c.script), follows)
  BY <1>1, ScriptReadsBack DEF Fits
<1>6. d \in Seq(Byte) /\ Len(d) \in Nat
  <2>1. 0 \in Byte
    BY ByteFacts DEF Byte
  <2>2. <<0>> \in Seq(Byte) /\ Len(<<0>>) \in Nat /\ <<>> \in Seq(Byte) /\ Len(<<>>) \in Nat
    BY <2>1
  <2>3. QED
    BY <2>2, Zenon
<1>7. t3 \in Seq(Byte) /\ t2 \in Seq(Byte) /\ t1 \in Seq(Byte)
  BY <1>4, <1>5, <1>6, ConcatProperties, Zenon
<1>8. CoreCoin(c) = a \o d \o v \o w
  BY Zenon DEF CoreCoin, CoinNumbers, a, d, v, w, packed, bit, amount
<1>9. ReadVarInt(a \o t1) = Ok(packed, t1) /\ ReadVarInt(t2) = Ok(amount, t3)
  BY <1>2, <1>3, <1>7, VarIntReadsBack
<1>10. (IF h > 0 THEN ReadFull(t1, 1) ELSE Ok(<<0>>, t1)) = Ok(<<0>>, t2)
  <2>1. CASE h > 0
    <3> DEFINE z == <<0>>
    <3>1. z \in Seq(Byte) /\ Len(z) = 1
      BY ByteFacts DEF Byte
    <3>2. t1 = z \o t2
      BY <2>1
    <3> HIDE DEF z, t1, t2
    <3>3. ReadFull(t1, 1) = Ok(z, t2)
      BY <1>7, <3>1, <3>2, ReadFullTakes
    <3>4. QED
      BY <2>1, <3>3 DEF z
  <2>2. CASE ~(h > 0)
    <3>1. t1 = <<>> \o t2
      BY <2>2
    <3>2. t1 = t2
      BY <1>7, <3>1, ConcatEmptySeq
    <3>3. QED
      BY <2>2, <3>2
  <2>3. QED
    BY <2>1, <2>2
<1>11. CoreCoin(c) \in Seq(Byte) /\ Len(CoreCoin(c)) \in Nat \ {0}
       /\ CoreCoin(c) \o follows = a \o t1
  <2> HIDE DEF a, d, v, w
  <2>1. Len(a \o d \o v \o w) = Len(a) + Len(d) + Len(v) + Len(w) /\ a \o d \o v \o w \in Seq(Byte)
        /\ (a \o d \o v \o w) \o follows = a \o t1
    <3>1. Regrouped(a, d, v, w, follows, Byte)
      BY <1>4, <1>5, <1>6, Regroup, Zenon
    <3>2. QED
      BY <3>1, Zenon DEF Regrouped, t1, t2, t3
  <2>2. Len(a) + Len(d) + Len(v) + Len(w) \in Nat \ {0}
    BY <1>4, <1>5, <1>6
  <2>3. QED
    BY <1>8, <2>1, <2>2, Zenon
<1> HIDE DEF a, d, v, w, t1, t2, t3, h
<1>12. DeserializeCoin(a \o t1)
       = Ok([height |-> h, coinBase |-> c.coinBase, value |-> c.value, script |-> Canonical(c.script)], follows)
  <2> DEFINE u == a \o t1
             sc == Canonical(c.script)
             flag == IF h > 0 THEN ReadFull(t1, 1) ELSE Ok(<<0>>, t1)
  <2>1. ReadVarInt(u).ok /\ ReadVarInt(u).value = packed /\ ReadVarInt(u).rest = t1
    BY <1>9 DEF Ok
  <2>2. ReadVarInt(t2).ok /\ ReadVarInt(t2).value = amount /\ ReadVarInt(t2).rest = t3
    BY <1>9 DEF Ok
  <2>3. ReadCompressedScript(t3).ok /\ ReadCompressedScript(t3).value = sc
        /\ ReadCompressedScript(t3).rest = follows
    BY <1>5 DEF Ok
  <2>4. flag = (IF Height(packed) > 0 THEN ReadFull(t1, 1) ELSE Ok(<<0>>, t1))
    BY <1>2
  <2> HIDE DEF flag, u, sc
  <2>5. flag.ok /\ flag.value = <<0>> /\ flag.rest = t2
    BY <1>10 DEF Ok, flag
  <2>6. DeserializeCoin(u)
        = Ok([height |-> Height(packed), coinBase |-> packed % 2 = 1,
              value |-> DecompressAmount(amount), script |-> sc], follows)
    BY <2>1, <2>2, <2>3, <2>4, <2>5, Zenon DEF DeserializeCoin, Then
  <2>7. QED
    BY <1>2, <1>3, <2>6, Zenon DEF u, sc
<1>13. CanonicalCoin(c)
       = [height |-> h, coinBase |-> c.coinBase, value |-> c.value, script |-> Canonical(c.script)]
  <2> DEFINE sc == Canonical(c.script)
  <2>1. CanonicalCoin(c) = [c EXCEPT !.script = sc]
    BY DEF CanonicalCoin
  <2> HIDE DEF sc
  <2>2. [c EXCEPT !.script = sc] = [height |-> h, coinBase |-> c.coinBase, value |-> c.value, script |-> sc]
    BY DEF Coin, h
  <2>3. QED
    BY <2>1, <2>2 DEF sc
<1>14. QED
  BY <1>11, <1>12, <1>13, Zenon

(***************************************************************************)
(* Lists of items, one after another.                                      *)
(***************************************************************************)

\* Items that take at least one byte each.
Items(parts) == parts \in Seq(Seq(Byte)) /\ \A i \in 1 .. Len(parts) : Len(parts[i]) \in Nat \ {0}
\* What the first items are together.
Joins(joined, parts) ==
    /\ Joined(parts) = joined[Len(parts)] /\ joined[0] = <<>>
    /\ joined \in [0 .. Len(parts) -> Seq(Byte)]
    /\ \A i \in 1 .. Len(parts) : joined[i] = joined[i - 1] \o parts[i]
\* What is left behind the first items.
Tails(tail, parts, follows) ==
    /\ tail \in [0 .. Len(parts) -> Seq(Byte)]
    /\ tail[0] = Joined(parts) \o follows /\ tail[Len(parts)] = follows
    /\ \A i \in 1 .. Len(parts) : tail[i - 1] = parts[i] \o tail[i]

\* Joined is a loop.
LEMMA JoinedLoop ==
    ASSUME NEW parts \in Seq(Seq(Byte))
    PROVE  \E joined : Joins(joined, parts)
<1> DEFINE n == Len(parts)
           S == Seq(Byte)
           Add(p, i) == p \o parts[i]
           round == [i \in 1 .. n |-> [p \in S |-> Add(p, i)]]
           Is(g) == g = [i \in 0 .. n |-> IF i = 0 THEN <<>> ELSE Add(g[i - 1], i)]
           joined == CHOOSE g : Is(g)
<1>1. Joined(parts) = joined[n]
  BY Zenon DEF Joined
<1>2. n \in Nat /\ <<>> \in S /\ \A i \in 1 .. n : parts[i] \in S
  OBVIOUS
<1>3. ASSUME NEW i \in 1 .. n, NEW p \in S PROVE Add(p, i) \in S
  BY <1>2
<1> HIDE DEF Add, n, S
<1>4. round \in [1 .. n -> [S -> S]]
  BY <1>3
<1>5. PICK g : Runs(g, n, S, <<>>, round)
  <2> HIDE DEF round
  <2>1. QED
    BY <1>2, <1>4, LoopRuns
<1>6. ASSUME NEW i \in 1 .. n PROVE g[i] = Add(g[i - 1], i)
  <2>1. i - 1 \in 0 .. n /\ g[i - 1] \in S
    BY <1>2, <1>5 DEF Runs
  <2>2. QED
    BY <1>5, <2>1 DEF Runs
<1>7. Is(g)
  BY <1>2, <1>5, <1>6 DEF Runs
<1>8. Is(joined)
  BY <1>7, Zenon
<1> HIDE DEF joined
<1>9. joined = [i \in 0 .. n |-> joined[i]]
      /\ \A i \in 0 .. n : joined[i] = IF i = 0 THEN <<>> ELSE Add(joined[i - 1], i)
  BY <1>8
<1>10. joined[0] = <<>> /\ \A i \in 1 .. n : joined[i] = Add(joined[i - 1], i)
  <2>1. 0 \in 0 .. n /\ \A i \in 1 .. n : i \in 0 .. n /\ i # 0
    BY <1>2
  <2>2. QED
    BY <1>9, <2>1, Zenon
<1>11. joined[0] \in S /\ \A i \in 1 .. n : joined[i - 1] \in S => joined[i] \in S
  BY <1>2, <1>3, <1>10, Zenon
<1>12. \A i \in 0 .. n : joined[i] \in S
  BY <1>2, <1>11, LoopStays
<1>13. joined \in [0 .. n -> S]
  BY <1>9, <1>12
<1>14. QED
  BY <1>1, <1>10, <1>13, Zenon DEF Joins, Add, n, S

\* Joined items are bytes, at least as many as there are items.
LEMMA JoinedBytes ==
    ASSUME NEW parts, Items(parts)
    PROVE  /\ Joined(parts) \in Seq(Byte) /\ Len(Joined(parts)) \in Nat
           /\ Len(parts) <= Len(Joined(parts))
<1>1. PICK joined : Joins(joined, parts)
  BY JoinedLoop DEF Items
<1> DEFINE n == Len(parts)
           T == {i \in 0 .. n : i <= Len(joined[i])}
<1>2. n \in Nat /\ \A i \in 1 .. n : parts[i] \in Seq(Byte) /\ Len(parts[i]) \in Nat \ {0}
  BY DEF Items
<1>3. \A i \in 0 .. n : joined[i] \in Seq(Byte) /\ Len(joined[i]) \in Nat
  <2>1. \A i \in 0 .. n : joined[i] \in Seq(Byte)
    BY <1>1 DEF Joins
  <2>2. QED
    BY <2>1, LenProperties
<1>4. \A i \in 1 .. n : joined[i] = joined[i - 1] \o parts[i]
  BY <1>1 DEF Joins
<1> HIDE DEF n
<1>5. 0 \in T
  <2>1. Len(joined[0]) = 0
    BY <1>1 DEF Joins
  <2>2. QED
    BY <1>2, <2>1
<1>6. ASSUME NEW i \in 0 .. n - 1, i \in T PROVE i + 1 \in T
  <2>1. i + 1 \in 1 .. n /\ (i + 1) - 1 = i /\ i \in 0 .. n /\ i + 1 \in 0 .. n /\ i \in Nat
    BY <1>2
  <2>2. joined[i + 1] = joined[i] \o parts[i + 1]
    BY <1>4, <2>1
  <2> DEFINE a == joined[i]
             b == parts[i + 1]
  <2>3. a \in Seq(Byte) /\ b \in Seq(Byte) /\ Len(a) \in Nat /\ Len(b) \in Nat \ {0} /\ i <= Len(a)
    BY <1>2, <1>3, <1>6, <2>1
  <2> HIDE DEF a, b
  <2>4. Len(a \o b) = Len(a) + Len(b)
    BY <2>3, ConcatProperties, Zenon
  <2>5. i + 1 <= Len(a) + Len(b)
    BY <2>1, <2>3
  <2>6. i + 1 <= Len(joined[i + 1])
    <3>1. joined[i + 1] = a \o b
      BY <2>2, Zenon DEF a, b
    <3>2. QED
      BY <2>4, <2>5, <3>1, Zenon
  <2>7. QED
    BY <2>1, <2>6
<1>7. n \in T
  <2> HIDE DEF T
  <2>1. 0 .. n \subseteq T
    BY <1>2, <1>5, <1>6, UpTo
  <2>2. QED
    BY <1>2, <2>1
<1>8. QED
  BY <1>1, <1>2, <1>3, <1>7 DEF Joins, n

\* Behind each item are the items after it and what follows.
LEMMA JoinedTails ==
    ASSUME NEW parts, Items(parts), NEW follows \in Seq(Byte)
    PROVE  \E tail : Tails(tail, parts, follows)
<1>1. PICK joined : Joins(joined, parts)
  BY JoinedLoop DEF Items
<1> DEFINE n == Len(parts)
           S == Seq(Byte)
           round == [j \in 1 .. n |-> [t \in S |-> parts[n + 1 - j] \o t]]
<1>2. n \in Nat /\ \A i \in 1 .. n : parts[i] \in Seq(Byte)
  BY DEF Items
<1>3. \A i \in 0 .. n : joined[i] \in Seq(Byte)
  BY <1>1 DEF Joins
<1>4. \A i \in 1 .. n : joined[i] = joined[i - 1] \o parts[i]
  BY <1>1 DEF Joins
<1>5. joined[0] = <<>> /\ Joined(parts) = joined[n]
  BY <1>1 DEF Joins
<1> HIDE DEF n
<1>6. PICK g : Runs(g, n, S, follows, round)
  <2>1. ASSUME NEW j \in 1 .. n, NEW t \in S PROVE parts[n + 1 - j] \o t \in S
    <3>1. n + 1 - j \in 1 .. n
      BY <1>2
    <3>2. parts[n + 1 - j] \in Seq(Byte)
      BY <1>2, <3>1
    <3>3. QED
      BY <3>2, ConcatProperties, Zenon
  <2>2. round \in [1 .. n -> [S -> S]]
    <3> HIDE DEF S
    <3>1. QED
      BY <2>1
  <2> HIDE DEF round
  <2>3. QED
    BY <1>2, <2>2, LoopRuns
<1> DEFINE tail == [i \in 0 .. n |-> g[n - i]]
<1>7. \A j \in 0 .. n : g[j] \in S
  BY <1>6 DEF Runs
<1>8. ASSUME NEW j \in 1 .. n PROVE g[j] = parts[n + 1 - j] \o g[j - 1]
  <2>1. j - 1 \in 0 .. n /\ g[j - 1] \in S
    BY <1>2, <1>7
  <2> HIDE DEF S
  <2>2. QED
    BY <1>6, <2>1 DEF Runs
<1>9. \A i \in 0 .. n : tail[i] = g[n - i] /\ tail[i] \in S
  <2>1. \A i \in 0 .. n : n - i \in 0 .. n
    BY <1>2
  <2>2. QED
    BY <1>7, <2>1, Zenon
<1>10. tail \in [0 .. n -> S]
  BY <1>9
<1> HIDE DEF tail
<1>11. tail[n] = follows
  <2>1. n \in 0 .. n /\ n - n = 0
    BY <1>2
  <2>2. g[0] = follows
    BY <1>6 DEF Runs
  <2>3. QED
    BY <1>9, <2>1, <2>2
<1>12. ASSUME NEW i \in 1 .. n PROVE tail[i - 1] = parts[i] \o tail[i]
  <2> DEFINE j == n - (i - 1)
  <2>1. j \in 1 .. n /\ n + 1 - j = i /\ j - 1 = n - i /\ i - 1 \in 0 .. n /\ i \in 0 .. n
    BY <1>2
  <2>2. tail[i - 1] = g[j] /\ tail[i] = g[n - i]
    BY <1>9, <2>1
  <2> HIDE DEF j
  <2>3. g[j] = parts[n + 1 - j] \o g[j - 1]
    BY <1>8, <2>1
  <2>4. QED
    BY <2>1, <2>2, <2>3, Zenon
<1> DEFINE T == {i \in 0 .. n : joined[i] \o tail[i] = tail[0]}
<1>13. 0 \in T
  <2>1. 0 \in 0 .. n /\ tail[0] \in Seq(Byte)
    BY <1>2, <1>9
  <2>2. <<>> \o tail[0] = tail[0]
    BY <2>1, ConcatEmptySeq
  <2>3. QED
    BY <1>5, <2>1, <2>2
<1>14. ASSUME NEW i \in 0 .. n - 1, i \in T PROVE i + 1 \in T
  <2>1. i + 1 \in 1 .. n /\ (i + 1) - 1 = i /\ i \in 0 .. n /\ i + 1 \in 0 .. n
    BY <1>2
  <2> DEFINE a == joined[i]
             b == parts[i + 1]
             c == tail[i + 1]
  <2>2. joined[i + 1] = a \o b /\ tail[i] = b \o c /\ a \o tail[i] = tail[0]
    BY <1>4, <1>12, <1>14, <2>1
  <2>3. a \in Seq(Byte) /\ b \in Seq(Byte) /\ c \in Seq(Byte)
    BY <1>2, <1>3, <1>9, <2>1
  <2>4. joined[i + 1] \o c = (a \o b) \o c /\ a \o (b \o c) = tail[0]
    BY <2>2, Zenon
  <2> HIDE DEF a, b, c
  <2>5. (a \o b) \o c = a \o (b \o c)
    BY <2>3, Grouped
  <2>6. joined[i + 1] \o c = tail[0]
    BY <2>4, <2>5, Zenon
  <2>7. QED
    BY <2>1, <2>6 DEF c
<1>15. joined[n] \o tail[n] = tail[0]
  <2>1. n \in T
    <3> HIDE DEF T
    <3>1. 0 .. n \subseteq T
      BY <1>2, <1>13, <1>14, UpTo
    <3>2. QED
      BY <1>2, <3>1
  <2>2. QED
    BY <2>1
<1>16. Tails(tail, parts, follows)
  BY <1>5, <1>10, <1>11, <1>12, <1>15, Zenon DEF Tails, n, S
<1>17. QED
  BY <1>16

\* A round of DeserializeCoins's loop: one more coin is read.
CoinRound(r) ==
    Then(r, LAMBDA before, rest :
    Then(DeserializeCoin(rest), LAMBDA coin, t : Ok(Append(before, coin), t)))

\* DeserializeCoins is a loop.
LEMMA CoinsLoop ==
    ASSUME NEW n, NEW s, NEW m \in Nat, Rounds(n, s) = m
    PROVE  \E x : /\ DeserializeCoins(n, s) = x[m] /\ x[0] = Ok(<<>>, s)
                  /\ \A i \in 1 .. m : x[i] = CoinRound(x[i - 1])
<1> DEFINE start == Ok(<<>>, s)
           Is(g, k) == g = [i \in 0 .. k |-> IF i = 0 THEN start ELSE CoinRound(g[i - 1])]
           x == CHOOSE g : Is(g, m)
<1>1. DeserializeCoins(n, s) = x[m]
  BY Zenon DEF DeserializeCoins, CoinRound
<1> HIDE DEF start
<1> DEFINE T == {k \in 0 .. m : \E g : Is(g, k)}
<1>2. 0 \in T
  <2> DEFINE g == [i \in 0 .. 0 |-> start]
  <2>1. Is(g, 0)
    OBVIOUS
  <2> HIDE DEF g
  <2>2. 0 \in 0 .. m
    OBVIOUS
  <2>3. QED
    BY <2>1, <2>2, Zenon
<1>3. ASSUME NEW k \in 0 .. m - 1, k \in T PROVE k + 1 \in T
  <2>1. PICK g : Is(g, k)
    BY <1>3
  <2> DEFINE last == CoinRound(g[k])
             h == [i \in 0 .. k + 1 |-> IF i = k + 1 THEN last ELSE g[i]]
  <2>2. k \in Nat /\ k + 1 \in 0 .. m
    OBVIOUS
  <2>3. \A i \in 0 .. k : g[i] = IF i = 0 THEN start ELSE CoinRound(g[i - 1])
    BY <2>1
  <2>4. \A i \in 0 .. k + 1 : h[i] = IF i = 0 THEN start ELSE CoinRound(h[i - 1])
    <3>1. ASSUME NEW i \in 0 .. k PROVE h[i] = IF i = 0 THEN start ELSE CoinRound(h[i - 1])
      <4>1. i # k + 1 /\ i \in 0 .. k + 1 /\ (i # 0 => i - 1 \in 0 .. k + 1 /\ i - 1 # k + 1)
        BY <2>2
      <4>2. h[i] = g[i] /\ (i # 0 => h[i - 1] = g[i - 1])
        BY <2>2, <4>1
      <4> HIDE DEF h
      <4>3. QED
        BY <2>3, <4>1, <4>2
    <3>2. h[k + 1] = CoinRound(h[k]) /\ k + 1 # 0 /\ (k + 1) - 1 = k
      <4>1. h[k + 1] = last /\ h[k] = g[k]
        BY <2>2
      <4> HIDE DEF h
      <4>2. QED
        BY <2>2, <4>1
    <3>3. \A i \in 0 .. k + 1 : i \in 0 .. k \/ i = k + 1
      BY <2>2
    <3> HIDE DEF h
    <3>4. QED
      BY <3>1, <3>2, <3>3, Zenon
  <2>5. h = [i \in 0 .. k + 1 |-> h[i]]
    OBVIOUS
  <2> HIDE DEF h
  <2>6. Is(h, k + 1)
    BY <2>4, <2>5
  <2>7. QED
    BY <2>2, <2>6
<1>4. \E g : Is(g, m)
  <2> HIDE DEF T
  <2>1. 0 .. m \subseteq T
    BY <1>2, <1>3, UpTo
  <2>2. m \in T
    BY <2>1
  <2>3. QED
    BY <2>2 DEF T
<1>5. Is(x, m)
  BY <1>4, Zenon
<1> HIDE DEF x
<1>6. \A i \in 0 .. m : x[i] = IF i = 0 THEN start ELSE CoinRound(x[i - 1])
  BY <1>5
<1>7. 0 \in 0 .. m /\ \A i \in 1 .. m : i \in 0 .. m /\ i # 0
  OBVIOUS
<1>8. x[0] = start /\ \A i \in 1 .. m : x[i] = CoinRound(x[i - 1])
  BY <1>6, <1>7, Zenon
<1>9. QED
  BY <1>1, <1>8, Zenon DEF start

\* A round of DeserializeTxUndos's loop: one more transaction's undo data is read.
TxRound(r) ==
    Then(r, LAMBDA before, rest :
    Then(DeserializeTxUndo(rest), LAMBDA tx, t : Ok(Append(before, tx), t)))

\* DeserializeTxUndos is a loop.
LEMMA TxsLoop ==
    ASSUME NEW n, NEW s, NEW m \in Nat, Rounds(n, s) = m
    PROVE  \E x : /\ DeserializeTxUndos(n, s) = x[m] /\ x[0] = Ok(<<>>, s)
                  /\ \A i \in 1 .. m : x[i] = TxRound(x[i - 1])
<1> DEFINE start == Ok(<<>>, s)
           Is(g, k) == g = [i \in 0 .. k |-> IF i = 0 THEN start ELSE TxRound(g[i - 1])]
           x == CHOOSE g : Is(g, m)
<1>1. DeserializeTxUndos(n, s) = x[m]
  BY Zenon DEF DeserializeTxUndos, TxRound
<1> HIDE DEF start
<1> DEFINE T == {k \in 0 .. m : \E g : Is(g, k)}
<1>2. 0 \in T
  <2> DEFINE g == [i \in 0 .. 0 |-> start]
  <2>1. Is(g, 0)
    OBVIOUS
  <2> HIDE DEF g
  <2>2. 0 \in 0 .. m
    OBVIOUS
  <2>3. QED
    BY <2>1, <2>2, Zenon
<1>3. ASSUME NEW k \in 0 .. m - 1, k \in T PROVE k + 1 \in T
  <2>1. PICK g : Is(g, k)
    BY <1>3
  <2> DEFINE last == TxRound(g[k])
             h == [i \in 0 .. k + 1 |-> IF i = k + 1 THEN last ELSE g[i]]
  <2>2. k \in Nat /\ k + 1 \in 0 .. m
    OBVIOUS
  <2>3. \A i \in 0 .. k : g[i] = IF i = 0 THEN start ELSE TxRound(g[i - 1])
    BY <2>1
  <2>4. \A i \in 0 .. k + 1 : h[i] = IF i = 0 THEN start ELSE TxRound(h[i - 1])
    <3>1. ASSUME NEW i \in 0 .. k PROVE h[i] = IF i = 0 THEN start ELSE TxRound(h[i - 1])
      <4>1. i # k + 1 /\ i \in 0 .. k + 1 /\ (i # 0 => i - 1 \in 0 .. k + 1 /\ i - 1 # k + 1)
        BY <2>2
      <4>2. h[i] = g[i] /\ (i # 0 => h[i - 1] = g[i - 1])
        BY <2>2, <4>1
      <4> HIDE DEF h
      <4>3. QED
        BY <2>3, <4>1, <4>2
    <3>2. h[k + 1] = TxRound(h[k]) /\ k + 1 # 0 /\ (k + 1) - 1 = k
      <4>1. h[k + 1] = last /\ h[k] = g[k]
        BY <2>2
      <4> HIDE DEF h
      <4>2. QED
        BY <2>2, <4>1
    <3>3. \A i \in 0 .. k + 1 : i \in 0 .. k \/ i = k + 1
      BY <2>2
    <3> HIDE DEF h
    <3>4. QED
      BY <3>1, <3>2, <3>3, Zenon
  <2>5. h = [i \in 0 .. k + 1 |-> h[i]]
    OBVIOUS
  <2> HIDE DEF h
  <2>6. Is(h, k + 1)
    BY <2>4, <2>5
  <2>7. QED
    BY <2>2, <2>6
<1>4. \E g : Is(g, m)
  <2> HIDE DEF T
  <2>1. 0 .. m \subseteq T
    BY <1>2, <1>3, UpTo
  <2>2. m \in T
    BY <2>1
  <2>3. QED
    BY <2>2 DEF T
<1>5. Is(x, m)
  BY <1>4, Zenon
<1> HIDE DEF x
<1>6. \A i \in 0 .. m : x[i] = IF i = 0 THEN start ELSE TxRound(x[i - 1])
  BY <1>5
<1>7. 0 \in 0 .. m /\ \A i \in 1 .. m : i \in 0 .. m /\ i # 0
  OBVIOUS
<1>8. x[0] = start /\ \A i \in 1 .. m : x[i] = TxRound(x[i - 1])
  BY <1>6, <1>7, Zenon
<1>9. QED
  BY <1>1, <1>8, Zenon DEF start

\* A loop that reads an item and appends its value in every round.
ReadsItems(x, parts, tail, values, V) ==
    /\ Len(parts) \in Nat /\ values \in [1 .. Len(parts) -> V] /\ x[0] = Ok(<<>>, tail[0])
    /\ \A i \in 1 .. Len(parts) : \A before \in Seq(V) :
           x[i - 1] = Ok(before, parts[i] \o tail[i]) => x[i] = Ok(Append(before, values[i]), tail[i])

\* Such a loop reads them all.
LEMMA ListReadsBack ==
    ASSUME NEW parts, NEW follows, NEW tail, Tails(tail, parts, follows),
           NEW V, NEW values, NEW x, ReadsItems(x, parts, tail, values, V)
    PROVE  x[Len(parts)] = Ok(values, follows)
<1> DEFINE n == Len(parts)
           first(i) == [j \in 1 .. i |-> values[j]]
           T == {i \in 0 .. n : x[i] = Ok(first(i), tail[i])}
<1>1. n \in Nat /\ tail[n] = follows /\ \A i \in 1 .. n : tail[i - 1] = parts[i] \o tail[i]
  BY DEF Tails, ReadsItems
<1>2. values \in [1 .. n -> V] /\ x[0] = Ok(<<>>, tail[0])
  BY DEF ReadsItems
<1>3. \A i \in 0 .. n : first(i) \in Seq(V)
  BY <1>1, <1>2
<1>4. ASSUME NEW i \in 0 .. n - 1 PROVE Append(first(i), values[i + 1]) = first(i + 1)
  <2>1. i + 1 \in 1 .. n /\ i \in Nat
    BY <1>1
  <2>2. QED
    BY <1>2, <2>1
<1>5. first(0) = <<>> /\ first(n) = values
  BY <1>1, <1>2
<1> HIDE DEF n, first
<1>6. 0 \in T
  BY <1>1, <1>5, <1>2
<1>7. ASSUME NEW i \in 0 .. n - 1, i \in T PROVE i + 1 \in T
  <2>1. i + 1 \in 1 .. n /\ (i + 1) - 1 = i /\ i \in 0 .. n /\ i + 1 \in 0 .. n
    BY <1>1
  <2>2. x[(i + 1) - 1] = Ok(first(i), parts[i + 1] \o tail[i + 1])
    BY <1>1, <1>7, <2>1, Zenon
  <2>3. first(i) \in Seq(V)
    BY <1>3, <2>1
  <2>4. x[i + 1] = Ok(Append(first(i), values[i + 1]), tail[i + 1])
    BY <2>1, <2>2, <2>3, Zenon DEF ReadsItems, n
  <2>5. QED
    BY <1>4, <2>1, <2>4
<1>8. n \in T
  <2> HIDE DEF T
  <2>1. 0 .. n \subseteq T
    BY <1>1, <1>6, <1>7, UpTo
  <2>2. QED
    BY <1>1, <2>1
<1>9. QED
  BY <1>1, <1>5, <1>8 DEF n

\* A count and what it counts: as many rounds as items.
LEMMA Counted ==
    ASSUME NEW parts, Items(parts), NEW follows \in Seq(Byte)
    PROVE  Rounds(Len(parts), Joined(parts) \o follows) = Len(parts) /\ Len(parts) \in Nat
<1> DEFINE j == Joined(parts)
<1>1. j \in Seq(Byte) /\ Len(j) \in Nat /\ Len(parts) <= Len(j) /\ Len(parts) \in Nat
  BY JoinedBytes DEF Items
<1> HIDE DEF j
<1>2. Len(j \o follows) = Len(j) + Len(follows) /\ Len(follows) \in Nat
  BY <1>1
<1>3. Len(parts) <= Len(j \o follows)
  BY <1>1, <1>2
<1>4. QED
  BY <1>1, <1>3, Zenon DEF Rounds, j

\* The bytes of a CompactSize, and what is read from it.
LEMMA CountReadsBack ==
    ASSUME NEW n \in 0 .. Word - 1, NEW t \in Seq(Byte)
    PROVE  /\ WriteCompactSize(n) \in Seq(Byte) /\ Len(WriteCompactSize(n)) \in Nat \ {0}
           /\ ReadCompactSize(WriteCompactSize(n) \o t) = Ok(n, t)
<1>1. ReadsWhole(WriteCompactSize(n), n, t)
  BY CompactSizeReadsBack
<1>2. ReadCompactSize(WriteCompactSize(n) \o t) = Ok(n, t)
  BY <1>1, Zenon DEF ReadsWhole
<1>3. WriteCompactSize(n) \in Seq(Byte)
  BY <1>1, Zenon DEF ReadsWhole
<1>4. WriteCompactSize(n) # <<>>
  <2> DEFINE w == WriteCompactSize(n)
  <2> SUFFICES ASSUME w = <<>> PROVE FALSE
    OBVIOUS
  <2>1. ReadCompactSize(<<>>) = Fail("eof")
    BY Zenon DEF ReadCompactSize
  <2>2. <<>> \in Seq(Byte) /\ <<>> \o <<>> = <<>>
    OBVIOUS
  <2>3. ReadsWhole(w, n, <<>>)
    BY <2>2, CompactSizeReadsBack
  <2>4. ReadCompactSize(<<>>) = Ok(n, <<>>)
    BY <2>2, <2>3, Zenon DEF ReadsWhole
  <2>5. QED
    BY <2>1, <2>4 DEF Ok, Fail
<1> DEFINE w == WriteCompactSize(n)
<1>5. w \in Seq(Byte) /\ w # <<>>
  BY <1>3, <1>4
<1> HIDE DEF w
<1>6. Len(w) \in Nat \ {0}
  BY <1>5
<1>7. QED
  BY <1>2, <1>3, <1>6 DEF w

(***************************************************************************)
(* The undo data of transactions and blocks.                               *)
(***************************************************************************)

\* The coins that are read for those that were written.
CanonicalCoins(coins) == [c \in DOMAIN coins |-> CanonicalCoin(coins[c])]
\* The undo data of a transaction all of whose numbers fit into their words.
TxFits(coins) ==
    coins \in Seq(Coin) /\ Len(coins) < Word /\ \A c \in 1 .. Len(coins) : Fits(coins[c])

\* A round that reads a coin that was written appends it.
LEMMA CoinAppended ==
    ASSUME NEW before, NEW t, NEW value, NEW u, DeserializeCoin(t) = Ok(value, u),
           NEW r, r = Ok(before, t)
    PROVE  CoinRound(r) = Ok(Append(before, value), u)
<1>1. r.ok /\ r.value = before /\ r.rest = t
  BY DEF Ok
<1>2. DeserializeCoin(t).ok /\ DeserializeCoin(t).value = value /\ DeserializeCoin(t).rest = u
  BY DEF Ok
<1>3. QED
  BY <1>1, <1>2, Zenon DEF CoinRound, Then

\* A round that reads a transaction's undo data that was written appends it.
LEMMA TxAppended ==
    ASSUME NEW before, NEW t, NEW value, NEW u, DeserializeTxUndo(t) = Ok(value, u),
           NEW r, r = Ok(before, t)
    PROVE  TxRound(r) = Ok(Append(before, value), u)
<1>1. r.ok /\ r.value = before /\ r.rest = t
  BY DEF Ok
<1>2. DeserializeTxUndo(t).ok /\ DeserializeTxUndo(t).value = value /\ DeserializeTxUndo(t).rest = u
  BY DEF Ok
<1>3. QED
  BY <1>1, <1>2, Zenon DEF TxRound, Then

\* The coins of a transaction read back as they were written, but for uncompressed keys.
LEMMA TxReadsBack ==
    ASSUME NEW coins, TxFits(coins), NEW follows \in Seq(Byte)
    PROVE  /\ CoreTxUndo(coins) \in Seq(Byte) /\ Len(CoreTxUndo(coins)) \in Nat \ {0}
           /\ DeserializeTxUndo(CoreTxUndo(coins) \o follows) = Ok(CanonicalCoins(coins), follows)
<1> DEFINE n == Len(coins)
           parts == [i \in 1 .. n |-> CoreCoin(coins[i])]
           values == CanonicalCoins(coins)
           V == {CanonicalCoin(coins[i]) : i \in 1 .. n}
           joined == Joined(parts)
           s == joined \o follows
           w == WriteCompactSize(n)
<1>1. /\ n \in Nat /\ n \in 0 .. Word - 1 /\ DOMAIN coins = 1 .. n
      /\ \A i \in 1 .. n : coins[i] \in Coin /\ Fits(coins[i])
  BY ByteFacts DEF TxFits
<1>2. \A i \in 1 .. n : CoreCoin(coins[i]) \in Seq(Byte) /\ Len(CoreCoin(coins[i])) \in Nat \ {0}
  BY <1>1, CoinReadsBack
<1>3. values \in [1 .. n -> V] /\ \A i \in 1 .. n : values[i] = CanonicalCoin(coins[i])
  BY <1>1 DEF CanonicalCoins
<1>4. CoreTxUndo(coins) = w \o joined
  BY Zenon DEF CoreTxUndo
<1> HIDE DEF n
<1>5. Len(parts) = n /\ \A i \in 1 .. n : parts[i] = CoreCoin(coins[i])
  BY <1>1
<1>6. Items(parts)
  <2>1. parts \in Seq(Seq(Byte))
    BY <1>1, <1>2
  <2> HIDE DEF parts
  <2>2. QED
    BY <1>2, <1>5, <2>1 DEF Items
<1> HIDE DEF parts, values, V
<1>7. PICK tail : Tails(tail, parts, follows)
  BY <1>6, JoinedTails
<1>8. Rounds(n, s) = n /\ joined \in Seq(Byte) /\ Len(joined) \in Nat
  BY <1>5, <1>6, Counted, JoinedBytes
<1>9. s \in Seq(Byte) /\ tail[0] = s
  BY <1>7, <1>8, ConcatProperties, Zenon DEF Tails
<1>10. w \in Seq(Byte) /\ Len(w) \in Nat \ {0} /\ ReadCompactSize(w \o s) = Ok(n, s)
  BY <1>1, <1>9, CountReadsBack
<1>11. PICK x : /\ DeserializeCoins(n, s) = x[n] /\ x[0] = Ok(<<>>, s)
                /\ \A i \in 1 .. n : x[i] = CoinRound(x[i - 1])
  BY <1>1, <1>8, CoinsLoop
<1> HIDE DEF s, w
<1>12. ASSUME NEW i \in 1 .. n, NEW before \in Seq(V), x[i - 1] = Ok(before, parts[i] \o tail[i])
       PROVE  x[i] = Ok(Append(before, values[i]), tail[i])
  <2>1. tail[i] \in Seq(Byte)
    <3>1. i \in 0 .. n
      OBVIOUS
    <3>2. QED
      BY <1>5, <1>7, <3>1 DEF Tails
  <2>2. DeserializeCoin(CoreCoin(coins[i]) \o tail[i]) = Ok(CanonicalCoin(coins[i]), tail[i])
    BY <1>1, <2>1, CoinReadsBack
  <2>3. DeserializeCoin(parts[i] \o tail[i]) = Ok(values[i], tail[i])
    BY <1>3, <1>5, <2>2, Zenon
  <2>4. CoinRound(x[i - 1]) = Ok(Append(before, values[i]), tail[i])
    <3> DEFINE t == parts[i] \o tail[i]
               r == x[i - 1]
    <3>1. r = Ok(before, t) /\ DeserializeCoin(t) = Ok(values[i], tail[i])
      BY <1>12, <2>3
    <3> HIDE DEF t, r
    <3>2. CoinRound(r) = Ok(Append(before, values[i]), tail[i])
      BY <3>1, CoinAppended
    <3>3. QED
      BY <3>2 DEF r
  <2>5. QED
    BY <1>11, <2>4, Zenon
<1>13. x[n] = Ok(values, follows)
  <2>1. ReadsItems(x, parts, tail, values, V)
    BY <1>1, <1>3, <1>5, <1>9, <1>11, <1>12, Zenon DEF ReadsItems
  <2>2. x[Len(parts)] = Ok(values, follows)
    BY <1>7, <2>1, ListReadsBack
  <2>3. QED
    BY <1>5, <2>2
<1>14. DeserializeTxUndo(w \o s) = Ok(values, follows)
  <2> DEFINE u == w \o s
  <2>1. ReadCompactSize(u).ok /\ ReadCompactSize(u).value = n /\ ReadCompactSize(u).rest = s
    BY <1>10 DEF Ok
  <2> HIDE DEF u
  <2>2. DeserializeTxUndo(u) = DeserializeCoins(n, s)
    BY <2>1, Zenon DEF DeserializeTxUndo, Then
  <2>3. QED
    BY <1>11, <1>13, <2>2, Zenon DEF u
<1> HIDE DEF joined
<1>15. (w \o joined) \o follows = w \o s /\ w \o joined \in Seq(Byte) /\ Len(w \o joined) = Len(w) + Len(joined)
  <2>1. (w \o joined) \o follows = w \o (joined \o follows)
    BY <1>8, <1>10, Grouped
  <2>2. w \o joined \in Seq(Byte) /\ Len(w \o joined) = Len(w) + Len(joined)
    BY <1>8, <1>10, ConcatProperties, Zenon
  <2>3. QED
    BY <2>1, <2>2, Zenon DEF s
<1>16. Len(w) + Len(joined) \in Nat \ {0}
  BY <1>8, <1>10
<1>17. QED
  BY <1>4, <1>14, <1>15, <1>16, Zenon DEF values

\* CanonicalUndo canonicalises every transaction's coins.
LEMMA CanonicalUndoIs ==
    ASSUME NEW undo
    PROVE  CanonicalUndo(undo) = [t \in DOMAIN undo |-> CanonicalCoins(undo[t])]
  BY Zenon DEF CanonicalUndo, CanonicalCoins, CanonicalCoin

\* The undo data of a block all of whose numbers fit into their words.
BlockFits(undo) ==
    undo \in Seq(Seq(Coin)) /\ Len(undo) < Word /\ \A t \in 1 .. Len(undo) : TxFits(undo[t])

\* The undo data of a block reads back as it was written, but for uncompressed keys.
LEMMA BlockReadsBack ==
    ASSUME NEW undo, BlockFits(undo), NEW follows \in Seq(Byte)
    PROVE  /\ CoreBlockUndo(undo) \in Seq(Byte) /\ Len(CoreBlockUndo(undo)) \in Nat \ {0}
           /\ DeserializeBlockUndo(CoreBlockUndo(undo) \o follows) = Ok(CanonicalUndo(undo), follows)
<1> DEFINE n == Len(undo)
           parts == [i \in 1 .. n |-> CoreTxUndo(undo[i])]
           values == CanonicalUndo(undo)
           V == {CanonicalCoins(undo[i]) : i \in 1 .. n}
           joined == Joined(parts)
           s == joined \o follows
           w == WriteCompactSize(n)
<1>1. /\ n \in Nat /\ n \in 0 .. Word - 1 /\ DOMAIN undo = 1 .. n
      /\ \A i \in 1 .. n : undo[i] \in Seq(Coin) /\ TxFits(undo[i])
  BY ByteFacts DEF BlockFits
<1>2. \A i \in 1 .. n : CoreTxUndo(undo[i]) \in Seq(Byte) /\ Len(CoreTxUndo(undo[i])) \in Nat \ {0}
  BY <1>1, TxReadsBack
<1>3. values \in [1 .. n -> V] /\ \A i \in 1 .. n : values[i] = CanonicalCoins(undo[i])
  BY <1>1, CanonicalUndoIs
<1>4. CoreBlockUndo(undo) = w \o joined
  BY Zenon DEF CoreBlockUndo
<1> HIDE DEF n
<1>5. Len(parts) = n /\ \A i \in 1 .. n : parts[i] = CoreTxUndo(undo[i])
  BY <1>1
<1>6. Items(parts)
  <2>1. parts \in Seq(Seq(Byte))
    BY <1>1, <1>2
  <2> HIDE DEF parts
  <2>2. QED
    BY <1>2, <1>5, <2>1 DEF Items
<1> HIDE DEF parts, values, V
<1>7. PICK tail : Tails(tail, parts, follows)
  BY <1>6, JoinedTails
<1>8. Rounds(n, s) = n /\ joined \in Seq(Byte) /\ Len(joined) \in Nat
  BY <1>5, <1>6, Counted, JoinedBytes
<1>9. s \in Seq(Byte) /\ tail[0] = s
  BY <1>7, <1>8, ConcatProperties, Zenon DEF Tails
<1>10. w \in Seq(Byte) /\ Len(w) \in Nat \ {0} /\ ReadCompactSize(w \o s) = Ok(n, s)
  BY <1>1, <1>9, CountReadsBack
<1>11. PICK x : /\ DeserializeTxUndos(n, s) = x[n] /\ x[0] = Ok(<<>>, s)
                /\ \A i \in 1 .. n : x[i] = TxRound(x[i - 1])
  BY <1>1, <1>8, TxsLoop
<1> HIDE DEF s, w
<1>12. ASSUME NEW i \in 1 .. n, NEW before \in Seq(V), x[i - 1] = Ok(before, parts[i] \o tail[i])
       PROVE  x[i] = Ok(Append(before, values[i]), tail[i])
  <2>1. tail[i] \in Seq(Byte)
    <3>1. i \in 0 .. n
      OBVIOUS
    <3>2. QED
      BY <1>5, <1>7, <3>1 DEF Tails
  <2>2. DeserializeTxUndo(CoreTxUndo(undo[i]) \o tail[i]) = Ok(CanonicalCoins(undo[i]), tail[i])
    BY <1>1, <2>1, TxReadsBack
  <2>3. DeserializeTxUndo(parts[i] \o tail[i]) = Ok(values[i], tail[i])
    BY <1>3, <1>5, <2>2, Zenon
  <2>4. TxRound(x[i - 1]) = Ok(Append(before, values[i]), tail[i])
    <3> DEFINE t == parts[i] \o tail[i]
               r == x[i - 1]
    <3>1. r = Ok(before, t) /\ DeserializeTxUndo(t) = Ok(values[i], tail[i])
      BY <1>12, <2>3
    <3> HIDE DEF t, r
    <3>2. TxRound(r) = Ok(Append(before, values[i]), tail[i])
      BY <3>1, TxAppended
    <3>3. QED
      BY <3>2 DEF r
  <2>5. QED
    BY <1>11, <2>4, Zenon
<1>13. x[n] = Ok(values, follows)
  <2>1. ReadsItems(x, parts, tail, values, V)
    BY <1>1, <1>3, <1>5, <1>9, <1>11, <1>12, Zenon DEF ReadsItems
  <2>2. x[Len(parts)] = Ok(values, follows)
    BY <1>7, <2>1, ListReadsBack
  <2>3. QED
    BY <1>5, <2>2
<1>14. DeserializeBlockUndo(w \o s) = Ok(values, follows)
  <2> DEFINE u == w \o s
  <2>1. ReadCompactSize(u).ok /\ ReadCompactSize(u).value = n /\ ReadCompactSize(u).rest = s
    BY <1>10 DEF Ok
  <2> HIDE DEF u
  <2>2. DeserializeBlockUndo(u) = DeserializeTxUndos(n, s)
    BY <2>1, Zenon DEF DeserializeBlockUndo, Then
  <2>3. QED
    BY <1>11, <1>13, <2>2, Zenon DEF u
<1> HIDE DEF joined
<1>15. (w \o joined) \o follows = w \o s /\ w \o joined \in Seq(Byte) /\ Len(w \o joined) = Len(w) + Len(joined)
  <2>1. (w \o joined) \o follows = w \o (joined \o follows)
    BY <1>8, <1>10, Grouped
  <2>2. w \o joined \in Seq(Byte) /\ Len(w \o joined) = Len(w) + Len(joined)
    BY <1>8, <1>10, ConcatProperties, Zenon
  <2>3. QED
    BY <2>1, <2>2, Zenon DEF s
<1>16. Len(w) + Len(joined) \in Nat \ {0}
  BY <1>8, <1>10
<1>17. QED
  BY <1>4, <1>14, <1>15, <1>16, Zenon DEF values

\* Writing again what was read gives the bytes bitcoind wrote.
LEMMA RewritesCoin ==
    ASSUME NEW c \in Coin, ~TakenForKey(c.script)
    PROVE  SerializeCoin(CanonicalCoin(c)) = CoreCoin(c)
<1> DEFINE d == CanonicalCoin(c)
<1>1. d.height = c.height /\ d.coinBase = c.coinBase /\ d.value = c.value
      /\ d.script = Canonical(c.script) /\ c.script \in Seq(Byte)
  BY DEF CanonicalCoin, Coin
<1>2. WriteCompressedScript(d.script) = CoreScript(c.script)
  BY <1>1, CanonicalWrites
<1> HIDE DEF d
<1>3. SerializeCoin(d) = CoreCoin(c)
  BY <1>1, <1>2, Zenon DEF SerializeCoin, CoreCoin, CoinNumbers
<1>4. QED
  BY <1>3 DEF d

\* The same for a transaction's undo data.
LEMMA RewritesTx ==
    ASSUME NEW coins \in Seq(Coin), \A i \in DOMAIN coins : ~TakenForKey(coins[i].script)
    PROVE  SerializeTxUndo(CanonicalCoins(coins)) = CoreTxUndo(coins)
<1> DEFINE d == CanonicalCoins(coins)
           n == Len(coins)
<1>1. n \in Nat /\ DOMAIN coins = 1 .. n /\ \A i \in 1 .. n : coins[i] \in Coin
  OBVIOUS
<1>2. \A i \in 1 .. n : d[i] = CanonicalCoin(coins[i])
  BY <1>1 DEF CanonicalCoins
<1>3. Len(d) = n
  BY <1>1 DEF CanonicalCoins
<1> HIDE DEF d, n
<1>4. \A i \in 1 .. n : SerializeCoin(d[i]) = CoreCoin(coins[i])
  BY <1>1, <1>2, RewritesCoin
<1>5. [i \in 1 .. n |-> SerializeCoin(d[i])] = [i \in 1 .. n |-> CoreCoin(coins[i])]
  BY <1>4
<1>6. QED
  BY <1>3, <1>5, Zenon DEF SerializeTxUndo, CoreTxUndo, d, n

\* The same for a block's undo data.
LEMMA RewritesBlock ==
    ASSUME NEW undo \in Seq(Seq(Coin)),
           \A t \in DOMAIN undo : \A c \in DOMAIN undo[t] : ~TakenForKey(undo[t][c].script)
    PROVE  SerializeBlockUndo(CanonicalUndo(undo)) = CoreBlockUndo(undo)
<1> DEFINE d == CanonicalUndo(undo)
           n == Len(undo)
<1>1. n \in Nat /\ DOMAIN undo = 1 .. n /\ \A i \in 1 .. n : undo[i] \in Seq(Coin)
  OBVIOUS
<1>2. \A i \in 1 .. n : d[i] = CanonicalCoins(undo[i])
  BY <1>1, CanonicalUndoIs
<1>3. Len(d) = n
  BY <1>1, CanonicalUndoIs
<1> HIDE DEF d, n
<1>4. ASSUME NEW i \in 1 .. n PROVE SerializeTxUndo(d[i]) = CoreTxUndo(undo[i])
  <2>1. undo[i] \in Seq(Coin) /\ \A c \in DOMAIN undo[i] : ~TakenForKey(undo[i][c].script)
    BY <1>1
  <2>2. SerializeTxUndo(CanonicalCoins(undo[i])) = CoreTxUndo(undo[i])
    BY <2>1, RewritesTx
  <2>3. QED
    BY <1>2, <2>2
<1>5. [i \in 1 .. n |-> SerializeTxUndo(d[i])] = [i \in 1 .. n |-> CoreTxUndo(undo[i])]
  BY <1>4
<1>6. QED
  BY <1>3, <1>5, Zenon DEF SerializeBlockUndo, CoreBlockUndo, d, n

-----------------------------------------------------------------------------
(***************************************************************************)
(* Records.                                                                *)
(***************************************************************************)

\* What a rev file consists of: bytes, damaged ones and those of checksums.
Cell == Byte \cup DamageBytes \cup (PrevHashes \X Seq(Byte) \X Nat)
\* A record of a list, whose undo data may have been damaged.
Raw(w) == CoreBlockUndo(w.undo)
Record(w, data) ==
    MainnetMagic \o LittleEndian(Len(Raw(w)), 4) \o data \o Sha256d(w.prev, Raw(w))
\* A record that was written.
Written == [undo : Undos, prev : PrevHashes, end : Nat]

\* Bytes are cells.
LEMMA CellsOf == ASSUME NEW s \in Seq(Byte) PROVE s \in Seq(Cell)
<1>1. \A b \in Byte : b \in Cell
  BY DEF Cell
<1>2. s \in [1 .. Len(s) -> Byte] /\ Len(s) \in Nat
  OBVIOUS
<1>3. s \in [1 .. Len(s) -> Cell]
  BY <1>1, <1>2
<1>4. QED
  BY <1>2, <1>3

\* The parts of a record.
RecordParts(w) ==
    /\ BlockFits(w.undo) /\ w.prev \in PrevHashes
    /\ Raw(w) \in Seq(Byte) /\ Len(Raw(w)) \in Nat \ {0}
    /\ LittleEndian(Len(Raw(w)), 4) \in Seq(Byte) /\ Len(LittleEndian(Len(Raw(w)), 4)) = 4
    /\ FromLittleEndian(LittleEndian(Len(Raw(w)), 4)) = Len(Raw(w))
    /\ Sha256d(w.prev, Raw(w)) \in Seq(Cell) /\ Len(Sha256d(w.prev, Raw(w))) = ChecksumSize

\* They have the sizes they are read with, and the size is read as it was written.
LEMMA PartsOfRecord ==
    ASSUME NEW w \in Written
    PROVE  RecordParts(w)
<1>1. w.undo \in Undos /\ w.prev \in PrevHashes
  BY DEF Written
<1>2. BlockFits(w.undo)
  <2>1. w.undo \in Seq(Seq(Coin)) /\ Len(w.undo) < Word
    BY <1>1, UndoAssumption
  <2>2. ASSUME NEW t \in 1 .. Len(w.undo) PROVE TxFits(w.undo[t])
    <3>1. w.undo[t] \in Seq(Coin)
      BY <2>1
    <3>2. Len(w.undo[t]) < Word /\ \A c \in 1 .. Len(w.undo[t]) : Fits(w.undo[t][c])
      BY <1>1, UndoAssumption, Zenon DEF Fits
    <3>3. QED
      BY <3>1, <3>2, Zenon DEF TxFits
  <2>3. QED
    BY <2>1, <2>2, Zenon DEF BlockFits
<1> DEFINE raw == Raw(w)
           n == Len(raw)
<1>3. raw \in Seq(Byte) /\ n \in Nat \ {0}
  <2>1. <<>> \in Seq(Byte)
    OBVIOUS
  <2>2. QED
    BY <1>2, <2>1, BlockReadsBack, Zenon DEF Raw
<1>4. n < Power(Radix, 4)
  <2>1. PICK k \in 1 .. 4 : n < Power(Radix, k)
    BY <1>1, UndoAssumption, Zenon DEF Raw
  <2>2. 4 \in Nat /\ k \in 0 .. 4 /\ Radix \in Nat \ {0}
    BY ByteFacts
  <2>3. Power(Radix, k) <= Power(Radix, 4) /\ Power(Radix, k) \in Nat /\ Power(Radix, 4) \in Nat
    BY <2>2, PowersGrow, Powers
  <2> HIDE DEF n
  <2>4. QED
    BY <1>3, <2>1, <2>3
<1> HIDE DEF n
<1>5. LittleEndian(n, 4) \in Seq(Byte) /\ Len(LittleEndian(n, 4)) = 4 /\ FromLittleEndian(LittleEndian(n, 4)) = n
  BY <1>3, <1>4, LittleEndianBytes, LittleEndianReadsBack
<1>6. Sha256d(w.prev, raw) \in Seq(Cell) /\ Len(Sha256d(w.prev, raw)) = ChecksumSize
  <2> HIDE DEF raw
  <2>1. ChecksumSize \in Nat /\ \A i \in 1 .. ChecksumSize : <<w.prev, raw, i>> \in Cell
    BY <1>1, <1>3, FormatAssumption DEF Cell
  <2>2. Sha256d(w.prev, raw) = [i \in 1 .. ChecksumSize |-> <<w.prev, raw, i>>]
    BY DEF Sha256d
  <2> DEFINE f == [i \in 1 .. ChecksumSize |-> <<w.prev, raw, i>>]
  <2>3. f \in [1 .. ChecksumSize -> Cell]
    BY <2>1
  <2> HIDE DEF f
  <2>4. QED
    BY <2>1, <2>2, <2>3 DEF f
<1>7. QED
  BY <1>1, <1>2, <1>3, <1>5, <1>6, Zenon DEF RecordParts, n

\* A record and what follows it, from its magic.
LEMMA RecordLayout ==
    ASSUME NEW w \in Written, NEW data \in Seq(Cell), NEW t \in Seq(Cell), Len(data) = Len(Raw(w))
    PROVE  /\ MainnetMagic \in Seq(Cell) /\ Len(MainnetMagic) = 4
           /\ LittleEndian(Len(Raw(w)), 4) \in Seq(Cell)
           /\ Sha256d(w.prev, Raw(w)) \in Seq(Cell)
           /\ Record(w, data) \in Seq(Cell)
           /\ Len(Record(w, data)) = 8 + Len(data) + ChecksumSize
           /\ Record(w, data) \o t
              = MainnetMagic \o (LittleEndian(Len(Raw(w)), 4) \o (data \o (Sha256d(w.prev, Raw(w)) \o t)))
<1>1. RecordParts(w) /\ MainnetMagic \in Seq(Byte) /\ Len(MainnetMagic) = 4 /\ ChecksumSize \in Nat
  BY PartsOfRecord, FormatAssumption
<1> DEFINE a == MainnetMagic
           b == LittleEndian(Len(Raw(w)), 4)
           d == Sha256d(w.prev, Raw(w))
<1>2. a \in Seq(Cell) /\ b \in Seq(Cell) /\ d \in Seq(Cell) /\ Len(b) = 4 /\ Len(d) = ChecksumSize
  BY <1>1, CellsOf DEF RecordParts
<1>3. Record(w, data) = a \o b \o data \o d
  BY DEF Record
<1> HIDE DEF b, d
<1>4. Regrouped(a, b, data, d, t, Cell)
  BY <1>2, Regroup
<1>5. Len(a \o b \o data \o d) = Len(a) + Len(b) + Len(data) + Len(d) /\ Len(data) \in Nat
  BY <1>4, LenProperties DEF Regrouped
<1>6. Len(a) + Len(b) + Len(data) + Len(d) = 8 + Len(data) + ChecksumSize
  <2> DEFINE la == Len(a)
             lb == Len(b)
             lc == Len(data)
             ld == Len(d)
  <2>1. la = 4 /\ lb = 4 /\ ld = ChecksumSize /\ lc \in Nat
    BY <1>1, <1>2, <1>5
  <2> HIDE DEF la, lb, lc, ld
  <2>2. la + lb + lc + ld = 8 + lc + ChecksumSize
    BY <1>1, <2>1
  <2>3. QED
    BY <2>2 DEF la, lb, lc, ld
<1>7. QED
  BY <1>1, <1>2, <1>3, <1>4, <1>5, <1>6, Zenon DEF Regrouped, b, d

\* What ParseRecord makes of a record and what follows it.
Outcome(w, data, t) ==
    Then(DeserializeBlockUndo(data), LAMBDA undo, unread :
         Ok([undo |-> undo, checksum |-> Sha256d(w.prev, Raw(w)), rawUndo |-> data], t))

\* A read that returned v and left t.
Reads(r, v, t) == r.ok /\ r.value = v /\ r.rest = t

\* io.ReadFull of a part whose length is known.
LEMMA PartRead ==
    ASSUME NEW s \in Seq(Cell), NEW t \in Seq(Cell), NEW n, Len(s) = n, NEW u, u = s \o t
    PROVE  Reads(ReadFull(u, n), s, t)
<1>1. ReadFull(s \o t, n) = Ok(s, t)
  BY ReadFullTakes
<1> DEFINE r == ReadFull(u, n)
<1>2. r = Ok(s, t)
  BY <1>1
<1> HIDE DEF r
<1>3. r.ok /\ r.value = s /\ r.rest = t
  BY <1>2 DEF Ok
<1>4. QED
  BY <1>3, Zenon DEF Reads, r

\* A record is read in full.
LEMMA RecordReads ==
    ASSUME NEW w \in Written, NEW data \in Seq(Cell), NEW t \in Seq(Cell), Len(data) = Len(Raw(w))
    PROVE  ParseRecord(Record(w, data) \o t) = Outcome(w, data, t)
<1> DEFINE a == MainnetMagic
           b == LittleEndian(Len(Raw(w)), 4)
           d == Sha256d(w.prev, Raw(w))
           t3 == d \o t
           t2 == data \o t3
           t1 == b \o t2
           s == a \o t1
<1>1. RecordParts(w) /\ a \in Seq(Cell) /\ Len(a) = 4 /\ b \in Seq(Cell) /\ d \in Seq(Cell)
  BY PartsOfRecord, RecordLayout
<1>2. Record(w, data) \o t = s
  BY RecordLayout, Zenon
<1>3. Len(b) = 4 /\ Len(d) = ChecksumSize /\ FromLittleEndian(b) = Len(data)
  BY <1>1 DEF RecordParts
<1> HIDE DEF a, b, d
<1>4. t3 \in Seq(Cell) /\ t2 \in Seq(Cell) /\ t1 \in Seq(Cell)
  BY <1>1, ConcatProperties, Zenon
<1> HIDE DEF t1, t2, t3, s
<1>5. Reads(ReadFull(s, 4), a, t1)
  BY <1>1, <1>4, PartRead DEF s
<1>6. Reads(ReadFull(t1, 4), b, t2)
  BY <1>1, <1>3, <1>4, PartRead DEF t1
<1> DEFINE n == FromLittleEndian(b)
<1>7. Reads(ReadFull(t2, n), data, t3)
  BY <1>3, <1>4, PartRead DEF t2
<1>8. Reads(ReadFull(t3, ChecksumSize), d, t)
  BY <1>1, <1>3, PartRead DEF t3
<1>9. a = MainnetMagic
  BY DEF a
<1>10. ParseRecord(s) = Outcome(w, data, t)
  BY <1>5, <1>6, <1>7, <1>8, <1>9, Zenon DEF ParseRecord, Then, Outcome, Reads, d
<1>11. QED
  BY <1>2, <1>10, Zenon

\* io.ReadFull of a part when the rest of the file may be missing: it comes to the end,
\* or the part is there in full.
CutRead(a, q, c, d) ==
    \/ Len(a) < Len(c) /\ ReadFull(a, Len(c)) = Fail("eof")
    \/ ~(Len(a) < Len(c)) /\ \E e \in Seq(Cell) : a = c \o e /\ e \o q = d
LEMMA PartCut ==
    ASSUME NEW a \in Seq(Cell), NEW q \in Seq(Cell), NEW c \in Seq(Cell), NEW d \in Seq(Cell),
           a \o q = c \o d
    PROVE  CutRead(a, q, c, d)
<1> DEFINE n == Len(c)
           m == Len(a)
           e == SubSeq(a, n + 1, m)
<1>1. CASE m < n
  BY <1>1 DEF ReadFull, CutRead
<1>2. CASE ~(m < n)
  <2>1. n \in Nat /\ m \in Nat /\ n <= m /\ Len(q) \in Nat /\ Len(d) \in Nat
    BY <1>2
  <2>2. e \in Seq(Cell) /\ Len(e) = m - n /\ \A i \in 1 .. m - n : e[i] = a[n + i]
    BY <1>2, <2>1
  <2>3. Len(a \o q) = m + Len(q) /\ Len(c \o d) = n + Len(d)
    OBVIOUS
  <2>4. Len(d) = (m - n) + Len(q)
    BY <2>1, <2>3
  <2>5. \A i \in 1 .. m : a[i] = (a \o q)[i]
    OBVIOUS
  <2>6. \A i \in 1 .. Len(q) : q[i] = (a \o q)[m + i]
    <3>1. \A i \in 1 .. m + Len(q) : (a \o q)[i] = IF i <= m THEN a[i] ELSE q[i - m]
      BY ConcatProperties
    <3> HIDE DEF m
    <3>2. ASSUME NEW i \in 1 .. Len(q) PROVE q[i] = (a \o q)[m + i]
      <4>1. m + i \in 1 .. m + Len(q) /\ ~(m + i <= m) /\ (m + i) - m = i
        BY <2>1
      <4>2. QED
        BY <3>1, <4>1, Zenon
    <3>3. QED
      BY <3>2
  <2>7. \A i \in 1 .. n : c[i] = (c \o d)[i]
    OBVIOUS
  <2>8. \A i \in 1 .. Len(d) : d[i] = (c \o d)[n + i]
    OBVIOUS
  <2> HIDE DEF n, m, e
  <2>9. \A i \in 1 .. n : a[i] = c[i]
    <3>1. \A i \in 1 .. n : i \in 1 .. m
      BY <2>1
    <3>2. QED
      BY <2>5, <2>7, <3>1, Zenon
  <2>10. \A i \in 1 .. m - n : e[i] = d[i]
    <3>1. \A i \in 1 .. m - n : n + i \in 1 .. m /\ i \in 1 .. Len(d)
      BY <2>1, <2>4
    <3>2. QED
      BY <2>2, <2>5, <2>8, <3>1, Zenon
  <2>11. \A i \in 1 .. Len(q) : d[(m - n) + i] = q[i]
    <3>1. \A i \in 1 .. Len(q) : (m - n) + i \in 1 .. Len(d) /\ n + ((m - n) + i) = m + i
      BY <2>1, <2>4
    <3>2. QED
      BY <2>6, <2>8, <3>1, Zenon
  <2>12. a = c \o e
    <3>1. c \o e \in Seq(Cell) /\ Len(c \o e) = m
      <4>1. Len(c \o e) = n + Len(e) /\ c \o e \in Seq(Cell)
        BY <2>2, ConcatProperties, Zenon DEF n
      <4>2. QED
        BY <2>1, <2>2, <4>1
    <3>2. \A i \in 1 .. m : (c \o e)[i] = IF i <= n THEN c[i] ELSE e[i - n]
      <4>1. \A i \in 1 .. n + Len(e) : (c \o e)[i] = IF i <= n THEN c[i] ELSE e[i - n]
        BY <2>2, ConcatProperties DEF n
      <4>2. n + Len(e) = m
        BY <2>1, <2>2
      <4>3. QED
        BY <4>1, <4>2
    <3>3. \A i \in 1 .. m : (c \o e)[i] = a[i]
      <4>1. ASSUME NEW i \in 1 .. m PROVE (c \o e)[i] = a[i]
        <5>1. CASE i <= n
          <6>1. i \in 1 .. n
            BY <2>1, <5>1
          <6>2. QED
            BY <2>9, <3>2, <5>1, <6>1
        <5>2. CASE ~(i <= n)
          <6>1. i - n \in 1 .. m - n /\ n + (i - n) = i
            BY <2>1, <5>2
          <6>2. e[i - n] = a[n + (i - n)]
            BY <2>2, <6>1
          <6>3. QED
            BY <3>2, <5>2, <6>1, <6>2
        <5>3. QED
          BY <5>1, <5>2
      <4>2. QED
        BY <4>1
    <3>4. QED
      BY <3>1, <3>3, SeqEqual DEF m
  <2>13. e \o q = d
    <3>1. e \o q \in Seq(Cell) /\ Len(e \o q) = Len(d)
      <4>1. Len(e \o q) = Len(e) + Len(q) /\ e \o q \in Seq(Cell)
        BY <2>2, ConcatProperties, Zenon
      <4>2. QED
        BY <2>2, <2>4, <4>1
    <3>2. \A i \in 1 .. Len(d) : (e \o q)[i] = IF i <= m - n THEN e[i] ELSE q[i - (m - n)]
      <4>1. \A i \in 1 .. Len(e) + Len(q) : (e \o q)[i] = IF i <= Len(e) THEN e[i] ELSE q[i - Len(e)]
        BY <2>2, ConcatProperties
      <4>2. QED
        BY <2>2, <2>4, <4>1
    <3>3. \A i \in 1 .. Len(d) : (e \o q)[i] = d[i]
      <4>1. ASSUME NEW i \in 1 .. Len(d) PROVE (e \o q)[i] = d[i]
        <5>1. CASE i <= m - n
          <6>1. i \in 1 .. m - n
            BY <2>1, <5>1
          <6>2. QED
            BY <2>10, <3>2, <5>1, <6>1
        <5>2. CASE ~(i <= m - n)
          <6>1. i - (m - n) \in 1 .. Len(q) /\ (m - n) + (i - (m - n)) = i
            BY <2>1, <2>4, <5>2
          <6>2. d[(m - n) + (i - (m - n))] = q[i - (m - n)]
            BY <2>11, <6>1
          <6>3. QED
            BY <3>2, <5>2, <6>1, <6>2
        <5>3. QED
          BY <5>1, <5>2
      <4>2. QED
        BY <4>1
    <3>4. QED
      BY <3>1, <3>3, SeqEqual
  <2>14. QED
    BY <1>2, <2>2, <2>12, <2>13, Zenon DEF CutRead, n, m
<1>3. QED
  BY <1>1, <1>2

\* A record that is not there in full: its parser comes to the end of the file.
LEMMA RecordCut ==
    ASSUME NEW w \in Written, NEW data \in Seq(Cell), Len(data) = Len(Raw(w)),
           NEW p \in Seq(Cell), NEW q \in Seq(Cell), p \o q = Record(w, data), q # <<>>
    PROVE  ParseRecord(p) = Fail("eof")
<1> DEFINE a == MainnetMagic
           b == LittleEndian(Len(Raw(w)), 4)
           d == Sha256d(w.prev, Raw(w))
           t3 == d \o <<>>
           t2 == data \o t3
           t1 == b \o t2
<1>1. RecordParts(w) /\ a \in Seq(Cell) /\ Len(a) = 4 /\ b \in Seq(Cell) /\ d \in Seq(Cell)
  <2>1. <<>> \in Seq(Cell)
    OBVIOUS
  <2>2. QED
    BY <2>1, PartsOfRecord, RecordLayout
<1>2. p \o q = a \o t1
  <2>1. <<>> \in Seq(Cell)
    OBVIOUS
  <2>2. Record(w, data) \in Seq(Cell) /\ Record(w, data) \o <<>> = a \o t1
    BY <2>1, RecordLayout, Zenon
  <2>3. Record(w, data) \o <<>> = Record(w, data)
    BY <2>2, ConcatEmptySeq
  <2>4. QED
    BY <2>2, <2>3, Zenon
<1>3. Len(b) = 4 /\ Len(d) = ChecksumSize /\ FromLittleEndian(b) = Len(data)
  BY <1>1 DEF RecordParts
<1>4. a = MainnetMagic
  BY DEF a
<1> HIDE DEF a, b, d
<1>5. <<>> \in Seq(Cell)
  OBVIOUS
<1>6. t3 \in Seq(Cell) /\ t2 \in Seq(Cell) /\ t1 \in Seq(Cell)
  BY <1>1, <1>5, ConcatProperties, Zenon
<1>7. Fail("eof").ok = FALSE
  BY DEF Fail
<1> DEFINE n == FromLittleEndian(b)
           eof == Fail("eof")
<1> HIDE DEF t1, t2, t3, eof
<1>8. CASE ReadFull(p, 4) = eof
  BY <1>7, <1>8, Zenon DEF ParseRecord, Then, eof
<1>9. ASSUME NEW e1 \in Seq(Cell), p = a \o e1, e1 \o q = t1
      PROVE  ParseRecord(p) = eof
  <2>1. Reads(ReadFull(p, 4), a, e1)
    BY <1>1, <1>9, PartRead
  <2>2. CASE ReadFull(e1, 4) = eof
    BY <1>4, <1>7, <2>1, <2>2, Zenon DEF ParseRecord, Then, Reads, eof
  <2>3. ASSUME NEW e2 \in Seq(Cell), e1 = b \o e2, e2 \o q = t2
        PROVE  ParseRecord(p) = eof
    <3>1. Reads(ReadFull(e1, 4), b, e2)
      BY <1>1, <1>3, <2>3, PartRead
    <3>2. CASE ReadFull(e2, n) = eof
      BY <1>4, <1>7, <2>1, <3>1, <3>2, Zenon DEF ParseRecord, Then, Reads, eof
    <3>3. ASSUME NEW e3 \in Seq(Cell), e2 = data \o e3, e3 \o q = t3
          PROVE  ParseRecord(p) = eof
      <4>1. Reads(ReadFull(e2, n), data, e3)
        BY <1>3, <3>3, PartRead
      <4>2. ReadFull(e3, ChecksumSize) = eof
        <5>1. e3 \o q = d \o <<>>
          BY <3>3, Zenon DEF t3
        <5>2. ~ \E e \in Seq(Cell) : e \o q = <<>>
          <6>1. ASSUME NEW e \in Seq(Cell), e \o q = <<>> PROVE FALSE
            <7>1. Len(e \o q) = Len(e) + Len(q) /\ Len(e) \in Nat /\ Len(q) \in Nat /\ Len(q) # 0
              OBVIOUS
            <7>2. Len(e \o q) = 0
              BY <6>1
            <7>3. QED
              BY <7>1, <7>2
          <6>2. QED
            BY <6>1
        <5>3. ReadFull(e3, Len(d)) = eof
          <6>1. CutRead(e3, q, d, <<>>)
            BY <1>1, <1>5, <5>1, PartCut
          <6>2. QED
            BY <5>2, <6>1, Zenon DEF CutRead, eof
        <5>4. QED
          BY <1>3, <5>3
      <4>3. QED
        BY <1>4, <1>7, <2>1, <3>1, <4>1, <4>2, Zenon DEF ParseRecord, Then, Reads, eof
    <3>4. \/ ReadFull(e2, Len(data)) = eof
          \/ \E e3 \in Seq(Cell) : e2 = data \o e3 /\ e3 \o q = t3
      <4>1. e2 \o q = data \o t3
        BY <2>3, Zenon DEF t2
      <4>2. QED
        <5>1. CutRead(e2, q, data, t3)
          BY <1>6, <4>1, PartCut
        <5>2. QED
          BY <5>1, Zenon DEF CutRead, eof
    <3>5. QED
      BY <1>3, <3>2, <3>3, <3>4, Zenon
  <2>4. \/ ReadFull(e1, Len(b)) = eof
        \/ \E e2 \in Seq(Cell) : e1 = b \o e2 /\ e2 \o q = t2
    <3>1. e1 \o q = b \o t2
      BY <1>9, Zenon DEF t1
    <3>2. QED
      <4>1. CutRead(e1, q, b, t2)
        BY <1>1, <1>6, <3>1, PartCut
      <4>2. QED
        BY <4>1, Zenon DEF CutRead, eof
  <2>5. QED
    BY <1>3, <2>2, <2>3, <2>4, Zenon
<1>10. \/ ReadFull(p, Len(a)) = eof
       \/ \E e1 \in Seq(Cell) : p = a \o e1 /\ e1 \o q = t1
  <2>1. CutRead(p, q, a, t1)
    BY <1>1, <1>2, <1>6, PartCut
  <2>2. QED
    BY <2>1, Zenon DEF CutRead, eof
<1>11. QED
  BY <1>1, <1>8, <1>9, <1>10, Zenon DEF eof

\* Space that was allocated ahead: an error from the length of a magic on.
LEMMA PaddingRead ==
    ASSUME NEW k \in Nat
    PROVE  ParseRecord([i \in 1 .. k |-> 0]) = IF k < 4 THEN Fail("eof") ELSE Fail("bad")
<1> DEFINE pad == [i \in 1 .. k |-> 0]
<1>1. Len(pad) = k /\ pad \in Seq({0})
  OBVIOUS
<1>2. ASSUME k >= 4 PROVE SubSeq(pad, 1, 4) = <<0, 0, 0, 0>>
  <2> DEFINE z == SubSeq(pad, 1, 4)
  <2>1. z \in Seq({0}) /\ Len(z) = 4
    BY <1>1, <1>2
  <2>2. \A i \in 1 .. 4 : z[i] = 0
    BY <1>1, <1>2
  <2> HIDE DEF z
  <2>3. z = <<0, 0, 0, 0>>
    BY <2>1, <2>2
  <2>4. QED
    BY <2>3 DEF z
<1> HIDE DEF pad
<1>3. CASE k < 4
  <2>1. ReadFull(pad, 4) = Fail("eof") /\ ~Fail("eof").ok
    BY <1>1, <1>3 DEF ReadFull, Fail
  <2>2. ParseRecord(pad) = Fail("eof")
    BY <2>1, Zenon DEF ParseRecord, Then
  <2>3. QED
    BY <1>3, <2>2 DEF pad
<1>4. CASE ~(k < 4)
  <2>1. ReadFull(pad, 4).ok /\ ReadFull(pad, 4).value = <<0, 0, 0, 0>>
    BY <1>1, <1>2, <1>4 DEF ReadFull, Ok
  <2>2. MainnetMagic # <<0, 0, 0, 0>>
    BY FormatAssumption
  <2>3. ParseRecord(pad) = Fail("bad")
    BY <2>1, <2>2, Zenon DEF ParseRecord, Then
  <2>4. QED
    BY <1>4, <2>3 DEF pad
<1>5. QED
  BY <1>3, <1>4

\* A file of which some records have been read, and one that has no more.
Going(records, rest) == [records |-> records, rest |-> rest, ended |-> FALSE, err |-> FALSE]
Stopped(records, rest, err) == [records |-> records, rest |-> rest, ended |-> TRUE, err |-> err]
\* A round of ParseAllRecords' loop.
ParseRound(p) ==
    LET r == ParseRecord(p.rest) IN
    IF p.ended THEN p
    ELSE IF r.ok THEN [records |-> Append(p.records, r.value), rest |-> r.rest,
                       ended |-> FALSE, err |-> FALSE]
    ELSE [records |-> p.records, rest |-> p.rest, ended |-> TRUE, err |-> r.why = "bad"]

\* ParseAllRecords is a loop.
LEMMA ParseLoop ==
    ASSUME NEW s, NEW m \in Nat, Len(s) \div (StorageHeaderSize + ChecksumSize) + 1 = m
    PROVE  \E x : /\ ParseAllRecords(s) = x[m] /\ x[0] = Going(<<>>, s)
                  /\ \A i \in 1 .. m : x[i] = ParseRound(x[i - 1])
<1> DEFINE start == Going(<<>>, s)
           Is(g, k) == g = [i \in 0 .. k |-> IF i = 0 THEN start ELSE ParseRound(g[i - 1])]
           x == CHOOSE g : Is(g, m)
<1>1. ParseAllRecords(s) = x[m]
  BY Zenon DEF ParseAllRecords, ParseRound, Going
<1> HIDE DEF start
<1> DEFINE T == {k \in 0 .. m : \E g : Is(g, k)}
<1>2. 0 \in T
  <2> DEFINE g == [i \in 0 .. 0 |-> start]
  <2>1. Is(g, 0)
    OBVIOUS
  <2> HIDE DEF g
  <2>2. 0 \in 0 .. m
    OBVIOUS
  <2>3. QED
    BY <2>1, <2>2, Zenon
<1>3. ASSUME NEW k \in 0 .. m - 1, k \in T PROVE k + 1 \in T
  <2>1. PICK g : Is(g, k)
    BY <1>3
  <2> DEFINE last == ParseRound(g[k])
             h == [i \in 0 .. k + 1 |-> IF i = k + 1 THEN last ELSE g[i]]
  <2>2. k \in Nat /\ k + 1 \in 0 .. m
    OBVIOUS
  <2>3. \A i \in 0 .. k : g[i] = IF i = 0 THEN start ELSE ParseRound(g[i - 1])
    BY <2>1
  <2>4. \A i \in 0 .. k + 1 : h[i] = IF i = 0 THEN start ELSE ParseRound(h[i - 1])
    <3>1. ASSUME NEW i \in 0 .. k PROVE h[i] = IF i = 0 THEN start ELSE ParseRound(h[i - 1])
      <4>1. i # k + 1 /\ i \in 0 .. k + 1 /\ (i # 0 => i - 1 \in 0 .. k + 1 /\ i - 1 # k + 1)
        BY <2>2
      <4>2. h[i] = g[i] /\ (i # 0 => h[i - 1] = g[i - 1])
        BY <2>2, <4>1
      <4> HIDE DEF h
      <4>3. QED
        BY <2>3, <4>1, <4>2
    <3>2. h[k + 1] = ParseRound(h[k]) /\ k + 1 # 0 /\ (k + 1) - 1 = k
      <4>1. h[k + 1] = last /\ h[k] = g[k]
        BY <2>2
      <4> HIDE DEF h
      <4>2. QED
        BY <2>2, <4>1
    <3>3. \A i \in 0 .. k + 1 : i \in 0 .. k \/ i = k + 1
      BY <2>2
    <3> HIDE DEF h
    <3>4. QED
      BY <3>1, <3>2, <3>3, Zenon
  <2>5. h = [i \in 0 .. k + 1 |-> h[i]]
    OBVIOUS
  <2> HIDE DEF h
  <2>6. Is(h, k + 1)
    BY <2>4, <2>5
  <2>7. QED
    BY <2>2, <2>6
<1>4. \E g : Is(g, m)
  <2> HIDE DEF T
  <2>1. 0 .. m \subseteq T
    BY <1>2, <1>3, UpTo
  <2>2. m \in T
    BY <2>1
  <2>3. QED
    BY <2>2 DEF T
<1>5. Is(x, m)
  BY <1>4, Zenon
<1> HIDE DEF x
<1>6. \A i \in 0 .. m : x[i] = IF i = 0 THEN start ELSE ParseRound(x[i - 1])
  BY <1>5
<1>7. 0 \in 0 .. m /\ \A i \in 1 .. m : i \in 0 .. m /\ i # 0
  OBVIOUS
<1>8. x[0] = start /\ \A i \in 1 .. m : x[i] = ParseRound(x[i - 1])
  BY <1>6, <1>7, Zenon
<1>9. QED
  BY <1>1, <1>8, Zenon DEF start

\* What a round does.
LEMMA ParseRounds ==
    ASSUME NEW records, NEW rest, NEW r, ParseRecord(rest) = r
    PROVE  /\ \A p : p.ended => ParseRound(p) = p
           /\ r.ok => ParseRound(Going(records, rest)) = Going(Append(records, r.value), r.rest)
           /\ ~r.ok => ParseRound(Going(records, rest)) = Stopped(records, rest, r.why = "bad")
<1> DEFINE p == Going(records, rest)
<1>1. p.ended = FALSE /\ p.records = records /\ p.rest = rest
  BY DEF Going
<1> HIDE DEF p
<1>2. r.ok => ParseRound(p) = Going(Append(records, r.value), r.rest)
  BY <1>1, Zenon DEF ParseRound, Going
<1>3. ~r.ok => ParseRound(p) = Stopped(records, rest, r.why = "bad")
  BY <1>1, Zenon DEF ParseRound, Stopped
<1>4. \A g : g.ended => ParseRound(g) = g
  BY Zenon DEF ParseRound
<1>5. QED
  BY <1>2, <1>3, <1>4, Zenon DEF p

\* A record as it is read.
Value(w, data) ==
    [undo |-> DeserializeBlockUndo(data).value, checksum |-> Sha256d(w.prev, Raw(w)), rawUndo |-> data]

\* Reading a record that is there in full yields it, or fails on its undo data, which it
\* does not if that is as it was written.
LEMMA RecordValue ==
    ASSUME NEW w \in Written, NEW data \in Seq(Cell), NEW t \in Seq(Cell), Len(data) = Len(Raw(w)),
           NEW s, s = Record(w, data) \o t
    PROVE  /\ ParseRecord(s).ok => ParseRecord(s) = Ok(Value(w, data), t)
           /\ data = Raw(w) => ParseRecord(s).ok /\ Value(w, data).undo = CanonicalUndo(w.undo)
<1> DEFINE u == DeserializeBlockUndo(data)
<1>1. ParseRecord(s) = IF u.ok THEN Ok(Value(w, data), t) ELSE u
  <2>1. ParseRecord(s) = Outcome(w, data, t)
    BY RecordReads
  <2>2. Outcome(w, data, t) = IF u.ok THEN Ok(Value(w, data), t) ELSE u
    BY Zenon DEF Outcome, Then, Value
  <2>3. QED
    BY <2>1, <2>2, Zenon
<1>2. Ok(Value(w, data), t).ok
  BY DEF Ok
<1>3. ASSUME data = Raw(w) PROVE u.ok /\ u.value = CanonicalUndo(w.undo)
  <2>1. BlockFits(w.undo) /\ Raw(w) \in Seq(Byte) /\ <<>> \in Seq(Byte)
    BY PartsOfRecord DEF RecordParts
  <2>2. DeserializeBlockUndo(Raw(w) \o <<>>) = Ok(CanonicalUndo(w.undo), <<>>)
    BY <2>1, BlockReadsBack, Zenon DEF Raw
  <2>3. Raw(w) \o <<>> = Raw(w)
    BY <2>1, ConcatEmptySeq
  <2>4. u = Ok(CanonicalUndo(w.undo), <<>>)
    BY <1>3, <2>2, <2>3, Zenon
  <2> HIDE DEF u
  <2>5. QED
    BY <2>4 DEF Ok
<1> HIDE DEF u
<1>4. Value(w, data).undo = u.value
  BY DEF Value, u
<1>5. QED
  BY <1>1, <1>2, <1>3, <1>4, Zenon

\* A file f whose rest q may be missing: its records, of which each may be damaged, and
\* what comes behind each.
Layout(ws, data, tail, f, q) ==
    /\ ws \in Seq(Written) /\ f \in Seq(Cell) /\ q \in Seq(Cell)
    /\ data \in [1 .. Len(ws) -> Seq(Cell)] /\ tail \in [0 .. Len(ws) -> Seq(Cell)]
    /\ tail[0] = f \o q
    /\ \A i \in 1 .. Len(ws) : /\ Len(data[i]) = Len(Raw(ws[i]))
                               /\ tail[i - 1] = Record(ws[i], data[i]) \o tail[i]
                               /\ ws[i].end = Len(tail[0]) - Len(tail[i])
\* Behind the records there is nothing, or space that was allocated ahead.
Ends(t, q) == \E k \in Nat : t = [i \in 1 .. k |-> 0] /\ (k = 0 \/ q = <<>>)
\* The records as they are read.
Values(ws, data, c) == [i \in 1 .. c |-> Value(ws[i], data[i])]
\* No record is damaged.
Intact(ws, data) == \A i \in 1 .. Len(ws) : data[i] = Raw(ws[i])

\* The lengths in a file.
Lengths(ws, data, tail, f, q) ==
    /\ Len(ws) \in Nat /\ Len(f) \in Nat /\ Len(q) \in Nat /\ Len(tail[0]) = Len(f) + Len(q)
    /\ \A i \in 0 .. Len(ws) : tail[i] \in Seq(Cell) /\ Len(tail[i]) \in Nat
    /\ \A i \in 1 .. Len(ws) :
       /\ ws[i] \in Written /\ data[i] \in Seq(Cell) /\ Len(data[i]) = Len(Raw(ws[i]))
       /\ Record(ws[i], data[i]) \in Seq(Cell) /\ Len(Record(ws[i], data[i])) \in Nat
       /\ Len(Record(ws[i], data[i])) >= 8 + ChecksumSize
       /\ Len(tail[i - 1]) = Len(Record(ws[i], data[i])) + Len(tail[i])
LEMMA LayoutLengths ==
    ASSUME NEW ws, NEW data, NEW tail, NEW f, NEW q, Layout(ws, data, tail, f, q)
    PROVE  Lengths(ws, data, tail, f, q)
<1>1. Len(ws) \in Nat /\ Len(f) \in Nat /\ Len(q) \in Nat /\ Len(tail[0]) = Len(f) + Len(q)
  BY DEF Layout
<1>2. \A i \in 0 .. Len(ws) : tail[i] \in Seq(Cell) /\ Len(tail[i]) \in Nat
  BY LenProperties DEF Layout
<1>3. ChecksumSize \in Nat
  BY FormatAssumption
<1>4. ASSUME NEW i \in 1 .. Len(ws)
      PROVE  /\ ws[i] \in Written /\ data[i] \in Seq(Cell) /\ Len(data[i]) = Len(Raw(ws[i]))
             /\ Record(ws[i], data[i]) \in Seq(Cell) /\ Len(Record(ws[i], data[i])) \in Nat
             /\ Len(Record(ws[i], data[i])) >= 8 + ChecksumSize
             /\ Len(tail[i - 1]) = Len(Record(ws[i], data[i])) + Len(tail[i])
  <2>1. ws[i] \in Written /\ data[i] \in Seq(Cell) /\ Len(data[i]) = Len(Raw(ws[i]))
        /\ tail[i - 1] = Record(ws[i], data[i]) \o tail[i]
    <3>1. ws \in Seq(Written) /\ data \in [1 .. Len(ws) -> Seq(Cell)]
      BY DEF Layout
    <3>2. Len(data[i]) = Len(Raw(ws[i])) /\ tail[i - 1] = Record(ws[i], data[i]) \o tail[i]
      BY Zenon DEF Layout
    <3>3. ws[i] \in Written /\ data[i] \in Seq(Cell)
      BY <3>1
    <3>4. QED
      BY <3>2, <3>3
  <2> DEFINE rec == Record(ws[i], data[i])
             n == Len(data[i])
  <2>2. rec \in Seq(Cell) /\ Len(rec) = 8 + n + ChecksumSize
    <3>1. <<>> \in Seq(Cell)
      OBVIOUS
    <3>2. QED
      BY <2>1, <3>1, RecordLayout
  <2>3. n \in Nat
    BY <2>1, LenProperties
  <2> HIDE DEF rec, n
  <2>4. Len(rec) \in Nat /\ Len(rec) >= 8 + ChecksumSize
    BY <1>3, <2>2, <2>3
  <2>5. tail[i] \in Seq(Cell)
    <3>1. i \in 0 .. Len(ws)
      BY <1>1
    <3>2. QED
      BY <1>2, <3>1
  <2>6. Len(rec \o tail[i]) = Len(rec) + Len(tail[i])
    BY <2>2, <2>5, ConcatProperties, Zenon
  <2>7. QED
    BY <2>1, <2>2, <2>4, <2>6, Zenon DEF rec
<1>5. QED
  BY <1>1, <1>2, <1>4, Zenon DEF Lengths

\* The further into a file, the less comes behind.
LEMMA TailsShrink ==
    ASSUME NEW ws, NEW data, NEW tail, NEW f, NEW q, Layout(ws, data, tail, f, q)
    PROVE  \A k \in 0 .. Len(ws) : \A i \in 0 .. k : Len(tail[k]) <= Len(tail[i])
<1> DEFINE n == Len(ws)
           T == {k \in 0 .. n : \A i \in 0 .. k : Len(tail[k]) <= Len(tail[i])}
<1>1. Lengths(ws, data, tail, f, q) /\ n \in Nat /\ \A i \in 0 .. n : Len(tail[i]) \in Nat
  <2>1. Lengths(ws, data, tail, f, q)
    BY LayoutLengths
  <2>2. QED
    BY <2>1, Zenon DEF Lengths
<1>2. ASSUME NEW i \in 1 .. n PROVE Len(tail[i]) <= Len(tail[i - 1])
  <2> DEFINE a == Len(tail[i])
             b == Len(tail[i - 1])
             r == Len(Record(ws[i], data[i]))
  <2>1. r \in Nat /\ b = r + a
    BY <1>1, Zenon DEF Lengths
  <2>2. a \in Nat
    <3>1. i \in 0 .. n
      BY <1>1
    <3>2. QED
      BY <1>1, <3>1
  <2> HIDE DEF a, b, r
  <2>3. a <= b
    BY <2>1, <2>2
  <2>4. QED
    BY <2>3 DEF a, b
<1> HIDE DEF n
<1>3. 0 \in T
  BY <1>1
<1>4. ASSUME NEW k \in 0 .. n - 1, k \in T PROVE k + 1 \in T
  <2>1. k \in 0 .. n /\ k + 1 \in 0 .. n /\ k + 1 \in 1 .. n /\ (k + 1) - 1 = k
    BY <1>1
  <2>2. Len(tail[k + 1]) <= Len(tail[k]) /\ Len(tail[k + 1]) \in Nat /\ Len(tail[k]) \in Nat
    BY <1>1, <1>2, <2>1
  <2>3. ASSUME NEW i \in 0 .. k + 1 PROVE Len(tail[k + 1]) <= Len(tail[i])
    <3>1. CASE i = k + 1
      BY <2>2, <3>1
    <3>2. CASE i # k + 1
      <4>1. i \in 0 .. k /\ i \in 0 .. n
        BY <1>1, <3>2
      <4>2. Len(tail[k]) <= Len(tail[i]) /\ Len(tail[i]) \in Nat
        BY <1>1, <1>4, <4>1
      <4>3. QED
        BY <2>2, <4>2
    <3>3. QED
      BY <3>1, <3>2
  <2>4. QED
    BY <2>1, <2>3
<1>5. 0 .. n \subseteq T
  <2> HIDE DEF T
  <2>1. QED
    BY <1>1, <1>3, <1>4, UpTo
<1>6. QED
  BY <1>5 DEF n

\* The parser is behind record c, all of which are there, with rest a of the file.
InProgress(p, c, a, ws, data, tail, f, q) ==
    /\ p = Going(Values(ws, data, c), a) /\ a \in Seq(Cell) /\ a \o q = tail[c]
    /\ Len(a) + c * (8 + ChecksumSize) <= Len(f)
    /\ \A i \in 1 .. c : ws[i].end <= Len(f)
\* It has returned the first c records, which are all unless one was damaged.
Finished(p, c, ws, data, tail, f, q) ==
    /\ p.ended /\ p.records = Values(ws, data, c)
    /\ \A i \in 1 .. c : ws[i].end <= Len(f)
    /\ Intact(ws, data) => /\ \A i \in c + 1 .. Len(ws) : ~(ws[i].end <= Len(f))
                           /\ p.err = (Len(tail[Len(ws)]) - Len(q) >= 4)

\* One record more is read.
LEMMA ParseTakes ==
    ASSUME NEW ws, NEW data, NEW tail, NEW f, NEW q, Layout(ws, data, tail, f, q),
           NEW c \in 0 .. Len(ws) - 1, NEW p, NEW a, InProgress(p, c, a, ws, data, tail, f, q),
           NEW e \in Seq(Cell), a = Record(ws[c + 1], data[c + 1]) \o e, e \o q = tail[c + 1],
           ParseRecord(a).ok
    PROVE  InProgress(ParseRound(p), c + 1, e, ws, data, tail, f, q)
<1> DEFINE n == Len(ws)
           i == c + 1
           w == ws[i]
           d == data[i]
           rec == Record(w, d)
           H == 8 + ChecksumSize
<1>1. Lengths(ws, data, tail, f, q)
  BY LayoutLengths
<1>2. n \in Nat /\ i \in 1 .. n /\ i - 1 = c /\ c \in Nat /\ i \in 0 .. n /\ c \in 0 .. n
  <2>1. n \in Nat
    BY <1>1, Zenon DEF Lengths
  <2>2. QED
    BY <2>1
<1>3. /\ w \in Written /\ d \in Seq(Cell) /\ Len(d) = Len(Raw(w)) /\ rec \in Seq(Cell)
      /\ Len(rec) \in Nat /\ Len(rec) >= H /\ H \in Nat
  <2>1. ChecksumSize \in Nat
    BY FormatAssumption
  <2>2. H \in Nat
    BY <2>1
  <2>3. QED
    BY <1>1, <1>2, <2>2, Zenon DEF Lengths
<1>4. a = rec \o e /\ e \o q = tail[i]
  OBVIOUS
<1> HIDE DEF i, w, d, rec
<1>5. ParseRecord(a) = Ok(Value(w, d), e)
  BY <1>3, <1>4, RecordValue DEF rec
<1>6. ParseRound(p) = Going(Append(Values(ws, data, c), Value(w, d)), e)
  <2> DEFINE r == ParseRecord(a)
  <2>1. r.ok /\ r.value = Value(w, d) /\ r.rest = e
    BY <1>5 DEF Ok
  <2>2. p = Going(Values(ws, data, c), a)
    BY Zenon DEF InProgress
  <2>3. ParseRound(Going(Values(ws, data, c), a)) = Going(Append(Values(ws, data, c), r.value), r.rest)
    BY <2>1, ParseRounds
  <2>4. QED
    BY <2>1, <2>2, <2>3, Zenon
<1>7. Append(Values(ws, data, c), Value(w, d)) = Values(ws, data, i)
  <2> DEFINE val == [j \in 1 .. n |-> Value(ws[j], data[j])]
             V == {val[j] : j \in 1 .. n}
  <2>1. Values(ws, data, c) = [j \in 1 .. c |-> val[j]] /\ Values(ws, data, i) = [j \in 1 .. i |-> val[j]]
    BY <1>2 DEF Values
  <2>2. Value(w, d) = val[i] /\ val \in [1 .. n -> V]
    BY <1>2 DEF w, d
  <2> HIDE DEF val, V
  <2>3. Append([j \in 1 .. c |-> val[j]], val[c + 1]) = [j \in 1 .. c + 1 |-> val[j]]
    <3>1. c + 1 \in 1 .. n
      BY <1>2
    <3>2. QED
      BY <1>2, <2>2, <3>1
  <2>4. QED
    BY <2>1, <2>2, <2>3 DEF i
<1>8. Len(a) = Len(rec) + Len(e) /\ Len(e) \in Nat
  BY <1>3, <1>4
<1>9. Len(e) + i * H <= Len(f)
  <2> DEFINE x == c * H
             y == i * H
             la == Len(a)
             lf == Len(f)
             le == Len(e)
             lr == Len(rec)
  <2>1. y = x + H /\ x \in Nat
    <3>1. \A u, v \in Nat : (u + 1) * v = u * v + v /\ u * v \in Nat
      OBVIOUS
    <3>2. QED
      BY <1>2, <1>3, <3>1 DEF i
  <2>2. la + x <= lf /\ lf \in Nat /\ la = lr + le /\ le \in Nat /\ lr \in Nat /\ lr >= H /\ H \in Nat
    <3>1. la + x <= lf
      BY Zenon DEF InProgress
    <3>2. lf \in Nat
      BY <1>1, Zenon DEF Lengths
    <3>3. QED
      BY <1>3, <1>8, <3>1, <3>2
  <2> HIDE DEF x, y, la, lf, le, lr, H
  <2>3. le + y <= lf
    BY <2>1, <2>2
  <2>4. QED
    BY <2>3 DEF y, le, lf
<1>10. \A j \in 1 .. i : ws[j].end <= Len(f)
  <2>1. ws[i].end = Len(tail[0]) - Len(tail[i])
    BY <1>2, Zenon DEF Layout
  <2> DEFINE lf == Len(f)
             lq == Len(q)
             le == Len(e)
             lt == Len(tail[i])
             l0 == Len(tail[0])
  <2>2. l0 = lf + lq /\ lf \in Nat /\ lq \in Nat /\ lt = le + lq /\ le \in Nat
    <3>1. l0 = lf + lq /\ lf \in Nat /\ lq \in Nat
      BY <1>1, Zenon DEF Lengths
    <3>2. q \in Seq(Cell)
      BY Zenon DEF Layout
    <3>3. Len(e \o q) = Len(e) + Len(q)
      BY <3>2, ConcatProperties, Zenon
    <3>4. lt = le + lq
      BY <1>4, <3>3, Zenon
    <3>5. QED
      BY <1>8, <3>1, <3>4
  <2>3. ws[i].end = l0 - lt
    BY <2>1
  <2> HIDE DEF lf, lq, le, lt, l0
  <2>4. ws[i].end <= lf
    BY <2>2, <2>3
  <2>5. \A j \in 1 .. c : ws[j].end <= lf
    BY Zenon DEF InProgress, lf
  <2>6. \A j \in 1 .. i : j \in 1 .. c \/ j = i
    BY <1>2 DEF i
  <2>7. QED
    BY <2>4, <2>5, <2>6, Zenon DEF lf
<1>11. QED
  BY <1>4, <1>6, <1>7, <1>9, <1>10, Zenon DEF InProgress, i

\* A round that reads no record ends the parse.
LEMMA ParseEnds ==
    ASSUME NEW records, NEW a, NEW p, p = Going(records, a), ~ParseRecord(a).ok
    PROVE  /\ ParseRound(p).ended /\ ParseRound(p).records = records
           /\ ParseRound(p).err = (ParseRecord(a).why = "bad")
<1>1. ParseRound(p) = Stopped(records, a, ParseRecord(a).why = "bad")
  BY ParseRounds
<1>2. QED
  BY <1>1 DEF Stopped

\* What both ways to fail are.
LEMMA Failures ==
    /\ ~Fail("eof").ok /\ (Fail("eof").why = "bad") = FALSE
    /\ ~Fail("bad").ok /\ (Fail("bad").why = "bad") = TRUE
  BY DEF Fail

\* The next record is cut: the parse ends, without an error, and no later one is there.
LEMMA ParseCut ==
    ASSUME NEW ws, NEW data, NEW tail, NEW f, NEW q, Layout(ws, data, tail, f, q),
           NEW c \in 0 .. Len(ws) - 1, NEW p, NEW a, InProgress(p, c, a, ws, data, tail, f, q),
           Len(a) < Len(Record(ws[c + 1], data[c + 1]))
    PROVE  Finished(ParseRound(p), c, ws, data, tail, f, q)
<1> DEFINE n == Len(ws)
           i == c + 1
           w == ws[i]
           d == data[i]
           rec == Record(w, d)
           t == tail[i]
<1>1. Lengths(ws, data, tail, f, q)
  BY LayoutLengths
<1>2. n \in Nat /\ i \in 1 .. n /\ i - 1 = c /\ c \in Nat /\ i \in 0 .. n /\ c \in 0 .. n
  <2>1. n \in Nat
    BY <1>1, Zenon DEF Lengths
  <2>2. QED
    BY <2>1
<1>3. /\ w \in Written /\ d \in Seq(Cell) /\ Len(d) = Len(Raw(w)) /\ rec \in Seq(Cell)
      /\ Len(rec) \in Nat /\ t \in Seq(Cell) /\ q \in Seq(Cell) /\ a \in Seq(Cell)
  BY <1>1, <1>2, Zenon DEF Lengths, Layout, InProgress
<1>4. a \o q = rec \o t
  <2>1. a \o q = tail[c] /\ tail[i - 1] = rec \o t
    BY <1>2, Zenon DEF InProgress, Layout
  <2>2. QED
    BY <1>2, <2>1, Zenon
<1>5. Len(a) < Len(rec)
  OBVIOUS
<1>6. p = Going(Values(ws, data, c), a)
  BY Zenon DEF InProgress
<1> HIDE DEF i, w, d, rec, t
<1>7. PICK e \in Seq(Cell) : rec = a \o e /\ e \o t = q
  <2>1. rec \o t = a \o q
    BY <1>4
  <2>2. CutRead(rec, t, a, q)
    BY <1>3, <2>1, PartCut
  <2>3. ~(Len(rec) < Len(a))
    BY <1>3, <1>5, LenProperties
  <2>4. QED
    BY <2>2, <2>3, Zenon DEF CutRead
<1>8. Len(rec) = Len(a) + Len(e) /\ Len(q) = Len(e) + Len(t) /\ Len(a) \in Nat /\ Len(e) \in Nat /\ Len(t) \in Nat
  <2>1. Len(a \o e) = Len(a) + Len(e) /\ Len(e \o t) = Len(e) + Len(t)
    BY <1>3, ConcatProperties, Zenon
  <2>2. Len(a) \in Nat /\ Len(e) \in Nat /\ Len(t) \in Nat
    BY <1>3, LenProperties
  <2>3. QED
    BY <1>7, <2>1, <2>2, Zenon
<1>9. Len(e) > 0
  BY <1>5, <1>8
<1>10. ParseRecord(a) = Fail("eof")
  <2>1. e # <<>>
    BY <1>9
  <2>2. a \o e = Record(w, d)
    BY <1>7, Zenon DEF rec
  <2>3. QED
    BY <1>3, <2>1, <2>2, RecordCut
<1>11. ParseRound(p).ended /\ ParseRound(p).records = Values(ws, data, c) /\ ParseRound(p).err = FALSE
  <2>1. ~ParseRecord(a).ok /\ (ParseRecord(a).why = "bad") = FALSE
    BY <1>10, Failures
  <2>2. /\ ParseRound(p).ended /\ ParseRound(p).records = Values(ws, data, c)
        /\ ParseRound(p).err = (ParseRecord(a).why = "bad")
    BY <1>6, <2>1, ParseEnds
  <2>3. QED
    BY <2>1, <2>2, Zenon
<1>12. ASSUME NEW j \in i .. n PROVE Len(tail[j]) < Len(q) /\ Len(tail[j]) \in Nat
  <2>1. j \in 0 .. n /\ i \in 0 .. j
    BY <1>2
  <2>2. Len(tail[j]) <= Len(tail[i]) /\ Len(tail[j]) \in Nat
    BY <1>1, <2>1, TailsShrink, Zenon DEF Lengths
  <2>3. Len(tail[i]) = Len(t)
    BY DEF t
  <2>4. QED
    BY <1>8, <1>9, <2>2, <2>3
<1>13. ASSUME NEW j \in c + 1 .. Len(ws) PROVE ~(ws[j].end <= Len(f))
  <2> DEFINE lf == Len(f)
             lq == Len(q)
             lt == Len(tail[j])
             l0 == Len(tail[0])
  <2>1. j \in i .. n /\ j \in 1 .. n
    BY <1>2 DEF i
  <2>2. l0 = lf + lq /\ lf \in Nat /\ lq \in Nat
    BY <1>1, Zenon DEF Lengths
  <2>3. lt < lq /\ lt \in Nat
    BY <1>12, <2>1
  <2>4. ws[j].end = l0 - lt
    BY <2>1, Zenon DEF Layout
  <2> HIDE DEF lf, lq, lt, l0
  <2>5. ~(ws[j].end <= lf)
    BY <2>2, <2>3, <2>4
  <2>6. QED
    BY <2>5 DEF lf
<1>14. (Len(tail[Len(ws)]) - Len(q) >= 4) = FALSE
  <2>1. n \in i .. n
    BY <1>2
  <2>2. Len(tail[n]) < Len(q) /\ Len(tail[n]) \in Nat /\ Len(q) \in Nat
    BY <1>1, <1>12, <2>1, Zenon DEF Lengths
  <2>3. QED
    BY <2>2
<1>15. QED
  BY <1>11, <1>13, <1>14, Zenon DEF Finished, InProgress

\* All records are read: the parse ends, with an error if a magic could have followed.
LEMMA ParseLast ==
    ASSUME NEW ws, NEW data, NEW tail, NEW f, NEW q, Layout(ws, data, tail, f, q),
           Ends(tail[Len(ws)], q), NEW p, NEW a, InProgress(p, Len(ws), a, ws, data, tail, f, q)
    PROVE  Finished(ParseRound(p), Len(ws), ws, data, tail, f, q)
<1> DEFINE n == Len(ws)
           t == tail[n]
           m == Len(a)
<1>1. Lengths(ws, data, tail, f, q)
  BY LayoutLengths
<1>2. n \in Nat
  BY <1>1, Zenon DEF Lengths
<1>3. q \in Seq(Cell) /\ a \in Seq(Cell) /\ a \o q = t
  BY Zenon DEF Layout, InProgress
<1>4. p = Going(Values(ws, data, n), a)
  BY Zenon DEF InProgress
<1>5. PICK k \in Nat : t = [i \in 1 .. k |-> 0] /\ (k = 0 \/ q = <<>>)
  BY Zenon DEF Ends
<1> HIDE DEF n, t
<1>6. m \in Nat /\ Len(q) \in Nat /\ Len(t) = m + Len(q)
  BY <1>3
<1>7. a = [i \in 1 .. m |-> 0]
  <2>1. Len(t) = k
    BY <1>5
  <2>2. CASE q = <<>>
    <3>1. a = t
      BY <1>3, <2>2, ConcatEmptySeq
    <3>2. m = k
      BY <2>1, <3>1
    <3>3. QED
      BY <1>5, <3>1, <3>2, Zenon
  <2>3. CASE k = 0
    <3>1. m = 0
      BY <1>6, <2>1, <2>3
    <3>2. a = <<>> /\ [i \in 1 .. 0 |-> 0] = <<>>
      BY <1>3, <3>1
    <3>3. QED
      BY <3>1, <3>2, Zenon
  <2>4. QED
    BY <1>5, <2>2, <2>3
<1>8. ~ParseRecord(a).ok /\ (ParseRecord(a).why = "bad") = (m >= 4)
  <2>1. ParseRecord(a) = IF m < 4 THEN Fail("eof") ELSE Fail("bad")
    <3>1. ParseRecord([i \in 1 .. m |-> 0]) = IF m < 4 THEN Fail("eof") ELSE Fail("bad")
      BY <1>6, PaddingRead
    <3>2. QED
      BY <1>7, <3>1, Zenon
  <2>2. (m >= 4) = ~(m < 4)
    BY <1>6
  <2> HIDE DEF m
  <2>3. QED
    BY <2>1, <2>2, Failures, Zenon
<1>9. /\ ParseRound(p).ended /\ ParseRound(p).records = Values(ws, data, n)
      /\ ParseRound(p).err = (m >= 4)
  <2>1. /\ ParseRound(p).ended /\ ParseRound(p).records = Values(ws, data, n)
        /\ ParseRound(p).err = (ParseRecord(a).why = "bad")
    BY <1>4, <1>8, ParseEnds
  <2>2. QED
    BY <1>8, <2>1, Zenon
<1>10. (m >= 4) = (Len(t) - Len(q) >= 4)
  BY <1>6
<1>11. \A i \in n + 1 .. n : FALSE
  BY <1>2
<1>12. \A i \in 1 .. n : ws[i].end <= Len(f)
  BY Zenon DEF InProgress, n
<1>13. QED
  BY <1>9, <1>10, <1>11, <1>12, Zenon DEF Finished, n, t

\* One round: a record more, or the end.
LEMMA ParseStep ==
    ASSUME NEW ws, NEW data, NEW tail, NEW f, NEW q, Layout(ws, data, tail, f, q),
           Ends(tail[Len(ws)], q), NEW c \in 0 .. Len(ws),
           NEW p, NEW a, InProgress(p, c, a, ws, data, tail, f, q)
    PROVE  \/ c + 1 \in 0 .. Len(ws) /\ \E e : InProgress(ParseRound(p), c + 1, e, ws, data, tail, f, q)
           \/ Finished(ParseRound(p), c, ws, data, tail, f, q)
<1>1. Lengths(ws, data, tail, f, q)
  BY LayoutLengths
<1>2. Len(ws) \in Nat
  BY <1>1, Zenon DEF Lengths
<1>3. CASE c = Len(ws)
  BY <1>3, ParseLast
<1>4. CASE c # Len(ws)
  <2> DEFINE i == c + 1
             rec == Record(ws[i], data[i])
             t == tail[i]
  <2>1. c \in 0 .. Len(ws) - 1 /\ i \in 1 .. Len(ws) /\ i \in 0 .. Len(ws) /\ i - 1 = c
    BY <1>2, <1>4
  <2>2. CASE Len(a) < Len(rec)
    BY <2>1, <2>2, ParseCut
  <2>3. CASE ~(Len(a) < Len(rec))
    <3>1. /\ ws[i] \in Written /\ data[i] \in Seq(Cell) /\ Len(data[i]) = Len(Raw(ws[i]))
          /\ rec \in Seq(Cell) /\ t \in Seq(Cell) /\ q \in Seq(Cell) /\ a \in Seq(Cell)
      BY <1>1, <2>1, Zenon DEF Lengths, Layout, InProgress
    <3>2. a \o q = rec \o t
      <4>1. a \o q = tail[c] /\ tail[i - 1] = rec \o t
        BY <2>1, Zenon DEF InProgress, Layout
      <4>2. QED
        BY <2>1, <4>1, Zenon
    <3>3. PICK e \in Seq(Cell) : a = rec \o e /\ e \o q = t
      <4> HIDE DEF rec, t
      <4>1. CutRead(a, q, rec, t)
        BY <3>1, <3>2, PartCut
      <4>2. QED
        BY <2>3, <4>1, Zenon DEF CutRead
    <3>4. CASE ParseRecord(a).ok
      <4>1. InProgress(ParseRound(p), c + 1, e, ws, data, tail, f, q)
        BY <2>1, <3>3, <3>4, ParseTakes
      <4>2. QED
        BY <2>1, <4>1
    <3>5. CASE ~ParseRecord(a).ok
      <4>1. data[i] # Raw(ws[i])
        BY <3>1, <3>3, <3>5, RecordValue
      <4>2. ~Intact(ws, data)
        BY <2>1, <4>1, Zenon DEF Intact
      <4>3. p = Going(Values(ws, data, c), a)
        BY Zenon DEF InProgress
      <4>4. ParseRound(p).ended /\ ParseRound(p).records = Values(ws, data, c)
        BY <3>5, <4>3, ParseEnds
      <4>5. QED
        BY <4>2, <4>4, Zenon DEF Finished, InProgress
    <3>6. QED
      BY <3>4, <3>5
  <2>4. QED
    BY <2>2, <2>3
<1>5. QED
  BY <1>3, <1>4

\* The whole parse.
LEMMA ParsesLayout ==
    ASSUME NEW ws, NEW data, NEW tail, NEW f, NEW q, Layout(ws, data, tail, f, q),
           Ends(tail[Len(ws)], q)
    PROVE  \E c \in 0 .. Len(ws) : Finished(ParseAllRecords(f), c, ws, data, tail, f, q)
<1> DEFINE n == Len(ws)
           H == 8 + ChecksumSize
           lf == Len(f)
           m == lf \div H + 1
<1>1. Lengths(ws, data, tail, f, q)
  BY LayoutLengths
<1>2. n \in Nat /\ lf \in Nat /\ H \in Nat \ {0} /\ StorageHeaderSize + ChecksumSize = H
  <2>1. n \in Nat /\ lf \in Nat
    BY <1>1, Zenon DEF Lengths
  <2>2. ChecksumSize \in Nat
    BY FormatAssumption
  <2>3. QED
    BY <2>1, <2>2 DEF StorageHeaderSize
<1>3. m \in Nat /\ m * H > lf
  <2> DEFINE u == lf \div H
             r == lf % H
             x == H * u
             y == m * H
  <2>1. u \in Nat /\ r \in 0 .. H - 1 /\ lf = x + r
    BY <1>2, DivMod
  <2>2. y = x + H /\ x \in Nat
    <3>1. \A a, b \in Nat : (a + 1) * b = b * a + b /\ b * a \in Nat
      OBVIOUS
    <3> HIDE DEF u, H
    <3>2. QED
      BY <1>2, <2>1, <3>1
  <2> HIDE DEF u, r, x, y, H, lf
  <2>3. y > lf
    BY <1>2, <2>1, <2>2
  <2>4. QED
    BY <2>1, <2>3 DEF y, u
<1>4. PICK x : /\ ParseAllRecords(f) = x[m] /\ x[0] = Going(<<>>, f)
               /\ \A i \in 1 .. m : x[i] = ParseRound(x[i - 1])
  <2>1. Len(f) \div (StorageHeaderSize + ChecksumSize) + 1 = m
    BY <1>2, Zenon
  <2> HIDE DEF m
  <2>2. QED
    BY <1>3, <2>1, ParseLoop
<1> DEFINE Reading(i) == i \in 0 .. n /\ \E a : InProgress(x[i], i, a, ws, data, tail, f, q)
           Done(i) == \E c \in 0 .. n : Finished(x[i], c, ws, data, tail, f, q)
           T == {i \in 0 .. m : Reading(i) \/ Done(i)}
<1>5. 0 \in T
  <2>1. f \in Seq(Cell) /\ f \o q = tail[0]
    BY Zenon DEF Layout
  <2>2. Values(ws, data, 0) = <<>>
    BY DEF Values
  <2>3. Len(f) + 0 * (8 + ChecksumSize) <= Len(f) /\ \A i \in 1 .. 0 : FALSE
    BY <1>2
  <2>4. InProgress(x[0], 0, f, ws, data, tail, f, q)
    BY <1>4, <2>1, <2>2, <2>3, Zenon DEF InProgress
  <2>5. 0 \in 0 .. n /\ 0 \in 0 .. m
    BY <1>2, <1>3
  <2>6. QED
    BY <2>4, <2>5, Zenon
<1>6. ASSUME NEW i \in 0 .. m - 1, i \in T PROVE i + 1 \in T
  <2> HIDE DEF m
  <2>1. i + 1 \in 1 .. m /\ i + 1 \in 0 .. m /\ (i + 1) - 1 = i
    BY <1>3
  <2>2. x[i + 1] = ParseRound(x[i])
    BY <1>4, <2>1
  <2>3. CASE Reading(i)
    <3>1. PICK a : InProgress(x[i], i, a, ws, data, tail, f, q)
      BY <2>3
    <3>2. \/ i + 1 \in 0 .. n /\ \E e : InProgress(ParseRound(x[i]), i + 1, e, ws, data, tail, f, q)
          \/ Finished(ParseRound(x[i]), i, ws, data, tail, f, q)
      BY <2>3, <3>1, ParseStep
    <3>3. QED
      BY <2>1, <2>2, <2>3, <3>2, Zenon
  <2>4. CASE Done(i)
    <3>1. PICK c \in 0 .. n : Finished(x[i], c, ws, data, tail, f, q)
      BY <2>4
    <3>2. x[i].ended
      BY <3>1, Zenon DEF Finished
    <3>3. ParseRound(x[i]) = x[i]
      BY <3>2, ParseRounds
    <3>4. QED
      BY <2>1, <2>2, <3>1, <3>3, Zenon
  <2>5. QED
    BY <1>6, <2>3, <2>4, Zenon
<1>7. Reading(m) \/ Done(m)
  <2>1. m \in T
    <3> HIDE DEF T, m
    <3>1. 0 .. m \subseteq T
      BY <1>3, <1>5, <1>6, UpTo
    <3>2. QED
      BY <1>3, <3>1
  <2>2. QED
    BY <2>1, Zenon
<1>8. ~Reading(m)
  <2> SUFFICES ASSUME NEW a, InProgress(x[m], m, a, ws, data, tail, f, q) PROVE FALSE
    BY Zenon
  <2> DEFINE la == Len(a)
             y == m * H
  <2>1. la + y <= lf
    BY Zenon DEF InProgress
  <2>2. la \in Nat
    <3>1. a \in Seq(Cell)
      BY Zenon DEF InProgress
    <3>2. QED
      BY <3>1, LenProperties
  <2>3. y > lf /\ y \in Nat
    <3>1. \A u, v \in Nat : u * v \in Nat
      OBVIOUS
    <3> HIDE DEF m
    <3>2. QED
      BY <1>2, <1>3, <3>1
  <2> HIDE DEF la, y, lf
  <2>4. QED
    BY <1>2, <2>1, <2>2, <2>3
<1>9. QED
  BY <1>4, <1>7, <1>8, Zenon

-----------------------------------------------------------------------------
(***************************************************************************)
(* What the steps make of a file.                                          *)
(***************************************************************************)

\* More bytes at the end of a file come behind every record.
Extended(tails, ws, data, tail, f, z) ==
    Layout(ws, data, tails, f \o z, <<>>) /\ tails[Len(ws)] = tail[Len(ws)] \o z
LEMMA LayoutExtends ==
    ASSUME NEW ws, NEW data, NEW tail, NEW f, Layout(ws, data, tail, f, <<>>), NEW z \in Seq(Cell)
    PROVE  \E tails : Extended(tails, ws, data, tail, f, z)
<1> DEFINE n == Len(ws)
           tails == [i \in 0 .. n |-> tail[i] \o z]
<1>1. Lengths(ws, data, tail, f, <<>>)
  BY LayoutLengths
<1>2. n \in Nat /\ 0 \in 0 .. n /\ n \in 0 .. n
  <2>1. n \in Nat
    BY <1>1, Zenon DEF Lengths
  <2>2. QED
    BY <2>1
<1>3. ASSUME NEW i \in 0 .. n
      PROVE  tails[i] = tail[i] \o z /\ tails[i] \in Seq(Cell) /\ Len(tails[i]) = Len(tail[i]) + Len(z)
  <2>1. tail[i] \in Seq(Cell)
    BY <1>1, Zenon DEF Lengths
  <2>2. tail[i] \o z \in Seq(Cell) /\ Len(tail[i] \o z) = Len(tail[i]) + Len(z)
    BY <2>1, ConcatProperties, Zenon
  <2>3. QED
    BY <2>2, Zenon
<1>4. tails \in [0 .. n -> Seq(Cell)]
  BY <1>3
<1> HIDE DEF tails, n
<1>5. tails[0] = (f \o z) \o <<>> /\ f \o z \in Seq(Cell)
  <2>1. f \in Seq(Cell) /\ tail[0] = f \o <<>>
    BY Zenon DEF Layout
  <2>2. f \o <<>> = f
    BY <2>1, ConcatEmptySeq
  <2> DEFINE fz == f \o z
  <2>3. fz \in Seq(Cell)
    BY <2>1, ConcatProperties, Zenon
  <2>4. tails[0] = fz
    BY <1>2, <1>3, <2>1, <2>2, Zenon
  <2> HIDE DEF fz
  <2>5. fz \o <<>> = fz
    BY <2>3, ConcatEmptySeq
  <2>6. QED
    BY <2>3, <2>4, <2>5, Zenon DEF fz
<1>6. ASSUME NEW i \in 1 .. n
      PROVE  /\ Len(data[i]) = Len(Raw(ws[i]))
             /\ tails[i - 1] = Record(ws[i], data[i]) \o tails[i]
             /\ ws[i].end = Len(tails[0]) - Len(tails[i])
  <2>1. i \in 0 .. n /\ i - 1 \in 0 .. n
    BY <1>2
  <2>2. /\ Len(data[i]) = Len(Raw(ws[i])) /\ tail[i - 1] = Record(ws[i], data[i]) \o tail[i]
        /\ ws[i].end = Len(tail[0]) - Len(tail[i])
    BY Zenon DEF Layout, n
  <2> DEFINE r == Record(ws[i], data[i])
             t == tail[i]
  <2>3. r \in Seq(Cell) /\ t \in Seq(Cell)
    BY <1>1, <2>1, Zenon DEF Lengths, n
  <2>4. tails[i - 1] = (r \o t) \o z /\ tails[i] = t \o z
    BY <1>3, <2>1, <2>2, Zenon
  <2> HIDE DEF r
  <2>5. (r \o t) \o z = r \o (t \o z)
    <3> HIDE DEF t
    <3>1. QED
      BY <2>3, Grouped
  <2>6. tails[i - 1] = r \o tails[i]
    BY <2>4, <2>5, Zenon
  <2>7. ws[i].end = Len(tails[0]) - Len(tails[i])
    <3> DEFINE a == Len(tail[0])
               b == Len(tail[i])
               c == Len(z)
    <3>1. a \in Nat /\ b \in Nat /\ c \in Nat
      <4>1. a \in Nat /\ b \in Nat
        BY <1>1, <1>2, <2>1, Zenon DEF Lengths, n
      <4>2. QED
        BY <4>1, LenProperties
    <3>2. Len(tails[0]) = a + c /\ Len(tails[i]) = b + c /\ ws[i].end = a - b
      BY <1>2, <1>3, <2>1, <2>2, Zenon
    <3> HIDE DEF a, b, c
    <3>3. QED
      BY <3>1, <3>2
  <2>8. QED
    BY <2>2, <2>6, <2>7 DEF r
<1>7. Layout(ws, data, tails, f \o z, <<>>)
  <2>1. ws \in Seq(Written) /\ <<>> \in Seq(Cell) /\ data \in [1 .. Len(ws) -> Seq(Cell)]
    BY Zenon DEF Layout
  <2>2. QED
    BY <1>4, <1>5, <1>6, <2>1, Zenon DEF Layout, n
<1>8. tails[n] = tail[n] \o z
  BY <1>2, <1>3
<1>9. QED
  BY <1>7, <1>8, Zenon DEF n, Extended

\* What comes behind the last record may be a record itself.
LEMMA LayoutSplits ==
    ASSUME NEW ws, NEW data, NEW tail, NEW f, Layout(ws, data, tail, f, <<>>),
           NEW w \in Written, tail[Len(ws)] = Record(w, Raw(w)), w.end = Len(tail[0])
    PROVE  \E more, tails : /\ Layout(Append(ws, w), more, tails, f, <<>>)
                            /\ tails[Len(ws) + 1] = <<>> /\ more[Len(ws) + 1] = Raw(w)
                            /\ \A i \in 1 .. Len(ws) : more[i] = data[i]
<1> DEFINE n == Len(ws)
           vs == Append(ws, w)
           more == [i \in 1 .. n + 1 |-> IF i = n + 1 THEN Raw(w) ELSE data[i]]
           tails == [i \in 0 .. n + 1 |-> IF i = n + 1 THEN <<>> ELSE tail[i]]
<1>1. Lengths(ws, data, tail, f, <<>>) /\ RecordParts(w)
  BY LayoutLengths, PartsOfRecord
<1>2. n \in Nat
  BY <1>1, Zenon DEF Lengths
<1>3. /\ ws \in Seq(Written) /\ <<>> \in Seq(Cell) /\ data \in [1 .. n -> Seq(Cell)] /\ f \in Seq(Cell)
      /\ tail \in [0 .. n -> Seq(Cell)] /\ tail[0] = f \o <<>>
  BY Zenon DEF Layout
<1>4. vs \in Seq(Written) /\ Len(vs) = n + 1 /\ vs[n + 1] = w /\ \A i \in 1 .. n : vs[i] = ws[i]
  BY <1>2, <1>3
<1>5. Raw(w) \in Seq(Cell)
  BY <1>1, CellsOf DEF RecordParts
<1>6. more[n + 1] = Raw(w) /\ \A i \in 1 .. n : more[i] = data[i]
  BY <1>2
<1>7. tails[n + 1] = <<>> /\ \A i \in 0 .. n : tails[i] = tail[i]
  BY <1>2
<1>8. more \in [1 .. n + 1 -> Seq(Cell)]
  BY <1>2, <1>3, <1>5
<1>9. tails \in [0 .. n + 1 -> Seq(Cell)]
  BY <1>2, <1>3
<1> HIDE DEF n, vs, more, tails
<1>10. ASSUME NEW i \in 1 .. n + 1
       PROVE  /\ Len(more[i]) = Len(Raw(vs[i]))
              /\ tails[i - 1] = Record(vs[i], more[i]) \o tails[i]
              /\ vs[i].end = Len(tails[0]) - Len(tails[i])
  <2>1. tails[0] = tail[0]
    BY <1>2, <1>7
  <2>2. CASE i \in 1 .. n
    <3>1. i \in 0 .. n /\ i - 1 \in 0 .. n
      BY <1>2, <2>2
    <3>2. tails[i] = tail[i] /\ tails[i - 1] = tail[i - 1] /\ vs[i] = ws[i] /\ more[i] = data[i]
      BY <1>4, <1>6, <1>7, <2>2, <3>1
    <3>3. /\ Len(data[i]) = Len(Raw(ws[i])) /\ tail[i - 1] = Record(ws[i], data[i]) \o tail[i]
          /\ ws[i].end = Len(tail[0]) - Len(tail[i])
      BY <2>2, Zenon DEF Layout, n
    <3>4. QED
      BY <2>1, <3>2, <3>3, Zenon
  <2>3. CASE i = n + 1
    <3>1. i - 1 = n /\ n \in 0 .. n
      BY <1>2, <2>3
    <3>2. tails[i] = <<>> /\ tails[i - 1] = Record(w, Raw(w)) /\ vs[i] = w /\ more[i] = Raw(w)
      BY <1>4, <1>6, <1>7, <2>3, <3>1 DEF n
    <3> DEFINE r == Record(w, Raw(w))
    <3>3. r \in Seq(Cell)
      BY <1>3, <1>5, RecordLayout
    <3> HIDE DEF r
    <3>4. r \o <<>> = r
      BY <3>3, ConcatEmptySeq
    <3>5. w.end = Len(tail[0]) - Len(<<>>)
      <4>1. Len(tail[0]) \in Nat /\ Len(<<>>) = 0
        BY <1>2, <1>3, LenProperties
      <4>2. QED
        BY <4>1
    <3>6. QED
      BY <2>1, <3>2, <3>4, <3>5, Zenon DEF r
  <2>4. i \in 1 .. n \/ i = n + 1
    BY <1>2
  <2>5. QED
    BY <2>2, <2>3, <2>4, Zenon
<1>11. tails[0] = f \o <<>>
  BY <1>2, <1>3, <1>7
<1>12. Layout(vs, more, tails, f, <<>>)
  BY <1>3, <1>4, <1>8, <1>9, <1>10, <1>11, Zenon DEF Layout
<1>13. QED
  BY <1>6, <1>7, <1>12, Zenon DEF n, vs

\* A file that is cut lacks what was behind.
LEMMA LayoutCut ==
    ASSUME NEW ws, NEW data, NEW tail, NEW f, Layout(ws, data, tail, f, <<>>), NEW k \in 1 .. Len(f)
    PROVE  \E q : Layout(ws, data, tail, SubSeq(f, 1, k), q)
<1> DEFINE g == SubSeq(f, 1, k)
           q == SubSeq(f, k + 1, Len(f))
<1>1. f \in Seq(Cell) /\ tail[0] = f \o <<>>
  BY Zenon DEF Layout
<1>2. f \o <<>> = f
  BY <1>1, ConcatEmptySeq
<1>3. g \in Seq(Cell) /\ q \in Seq(Cell) /\ g \o q = f
  BY <1>1
<1> HIDE DEF g, q
<1>4. tail[0] = g \o q
  BY <1>1, <1>2, <1>3, Zenon
<1>5. Layout(ws, data, tail, g, q)
  BY <1>3, <1>4, Zenon DEF Layout
<1>6. QED
  BY <1>5 DEF g

\* A sequence with another value in one place.
Put(s, k, b) == [s EXCEPT ![k] = b]

\* What it is.
IsPut(u, s, n, k, b) ==
    /\ u \in Seq(Cell) /\ Len(u) = n
    /\ u[k] = b /\ \A i \in 1 .. n : i # k => u[i] = s[i]
LEMMA PutIs ==
    ASSUME NEW s \in Seq(Cell), NEW n, n = Len(s), NEW k \in 1 .. n, NEW b \in Cell
    PROVE  IsPut(Put(s, k, b), s, n, k, b)
  BY DEF Put, IsPut

\* What a concatenation is.
IsConcat(v, a, t, n, m) ==
    /\ v \in Seq(Cell) /\ Len(v) = n + m
    /\ \A i \in 1 .. n + m : v[i] = IF i <= n THEN a[i] ELSE t[i - n]
LEMMA ConcatIs ==
    ASSUME NEW a \in Seq(Cell), NEW t \in Seq(Cell), NEW n, NEW m, n = Len(a), m = Len(t)
    PROVE  IsConcat(a \o t, a, t, n, m)
  BY ConcatProperties DEF IsConcat

\* A value within the first of two sequences.
LEMMA PutFirst ==
    ASSUME NEW a \in Seq(Cell), NEW t \in Seq(Cell), NEW k \in 1 .. Len(a), NEW b \in Cell
    PROVE  Put(a \o t, k, b) = Put(a, k, b) \o t
<1> DEFINE s == a \o t
           u == Put(s, k, b)
           p == Put(a, k, b)
           v == p \o t
           n == Len(a)
           m == Len(t)
<1>1. n \in Nat /\ m \in Nat /\ s \in Seq(Cell) /\ Len(s) = n + m
      /\ \A i \in 1 .. n + m : s[i] = IF i <= n THEN a[i] ELSE t[i - n]
  BY ConcatProperties
<1>2. k \in 1 .. Len(s) /\ \A i \in 1 .. n : i \in 1 .. Len(s)
  BY <1>1
<1>3. p \in Seq(Cell) /\ Len(p) = n /\ p[k] = b /\ \A i \in 1 .. n : i # k => p[i] = a[i]
  <2>1. IsPut(p, a, n, k, b)
    BY PutIs
  <2>2. QED
    BY <2>1, Zenon DEF IsPut
<1> HIDE DEF s, p
<1> HIDE DEF n, m
<1>4. u \in Seq(Cell) /\ Len(u) = n + m /\ u[k] = b /\ \A i \in 1 .. n + m : i # k => u[i] = s[i]
  <2>1. k \in 1 .. n + m /\ n + m = Len(s)
    BY <1>1, <1>2
  <2>2. IsPut(u, s, n + m, k, b)
    BY <1>1, <2>1, PutIs
  <2>3. QED
    BY <2>2, Zenon DEF IsPut
<1>5. v \in Seq(Cell) /\ Len(v) = n + m /\ \A i \in 1 .. n + m : v[i] = IF i <= n THEN p[i] ELSE t[i - n]
  <2>1. n = Len(p) /\ m = Len(t)
    BY <1>3 DEF n, m
  <2>2. IsConcat(v, p, t, n, m)
    BY <1>3, <2>1, ConcatIs
  <2>3. QED
    BY <2>2, Zenon DEF IsConcat
<1> HIDE DEF u, v
<1>6. ASSUME NEW i \in 1 .. n + m PROVE u[i] = v[i]
  <2>1. CASE i = k
    <3>1. i <= n
      BY <2>1 DEF n
    <3>2. QED
      BY <1>3, <1>4, <1>5, <2>1, <3>1
  <2>2. CASE i # k /\ i <= n
    <3>1. i \in 1 .. n
      BY <1>1, <2>2
    <3>2. QED
      BY <1>1, <1>3, <1>4, <1>5, <2>2, <3>1
  <2>3. CASE i # k /\ ~(i <= n)
    BY <1>1, <1>4, <1>5, <2>3
  <2>4. QED
    BY <2>1, <2>2, <2>3
<1>7. u = v
  BY <1>4, <1>5, <1>6, SeqEqual
<1>8. QED
  BY <1>7 DEF u, v, s, p

\* A value within the second.
LEMMA PutSecond ==
    ASSUME NEW a \in Seq(Cell), NEW t \in Seq(Cell), NEW k \in 1 .. Len(t), NEW b \in Cell
    PROVE  Put(a \o t, Len(a) + k, b) = a \o Put(t, k, b)
<1> DEFINE s == a \o t
           n == Len(a)
           m == Len(t)
           u == Put(s, n + k, b)
           p == Put(t, k, b)
           v == a \o p
<1>1. n \in Nat /\ m \in Nat /\ s \in Seq(Cell) /\ Len(s) = n + m
      /\ \A i \in 1 .. n + m : s[i] = IF i <= n THEN a[i] ELSE t[i - n]
  BY ConcatProperties
<1>2. n + k \in 1 .. Len(s) /\ k \in Nat
  BY <1>1
<1>3. p \in Seq(Cell) /\ Len(p) = m /\ p[k] = b /\ \A i \in 1 .. m : i # k => p[i] = t[i]
  <2>1. IsPut(p, t, m, k, b)
    BY PutIs
  <2>2. QED
    BY <2>1, Zenon DEF IsPut
<1> HIDE DEF s, p
<1> HIDE DEF n, m
<1>4. u \in Seq(Cell) /\ Len(u) = n + m /\ u[n + k] = b /\ \A i \in 1 .. n + m : i # n + k => u[i] = s[i]
  <2>1. n + k \in 1 .. n + m /\ n + m = Len(s)
    BY <1>1, <1>2
  <2>2. IsPut(u, s, n + m, n + k, b)
    BY <1>1, <2>1, PutIs
  <2>3. QED
    BY <2>2, Zenon DEF IsPut
<1>5. v \in Seq(Cell) /\ Len(v) = n + m /\ \A i \in 1 .. n + m : v[i] = IF i <= n THEN a[i] ELSE p[i - n]
  <2>1. n = Len(a) /\ m = Len(p)
    BY <1>3 DEF n, m
  <2>2. IsConcat(v, a, p, n, m)
    BY <1>3, <2>1, ConcatIs
  <2>3. QED
    BY <2>2, Zenon DEF IsConcat
<1> HIDE DEF u, v
<1>6. ASSUME NEW i \in 1 .. n + m PROVE u[i] = v[i]
  <2>1. CASE i = n + k
    <3>1. ~(i <= n) /\ i - n = k
      BY <1>1, <1>2, <2>1 DEF m
    <3>2. v[i] = p[k] /\ u[i] = b
      BY <1>4, <1>5, <2>1, <3>1
    <3>3. QED
      BY <1>3, <3>2
  <2>2. CASE i # n + k /\ i <= n
    BY <1>1, <1>4, <1>5, <2>2
  <2>3. CASE i # n + k /\ ~(i <= n)
    <3>1. i - n \in 1 .. m /\ i - n # k
      BY <1>1, <1>2, <2>3
    <3>2. u[i] = t[i - n] /\ v[i] = p[i - n]
      BY <1>1, <1>4, <1>5, <2>3
    <3>3. QED
      BY <1>3, <3>1, <3>2
  <2>4. QED
    BY <2>1, <2>2, <2>3
<1>7. u = v
  BY <1>4, <1>5, <1>6, SeqEqual
<1>8. QED
  BY <1>7 DEF u, v, s, p, n

\* A value within the undo data of a record.
LEMMA PutInRecord ==
    ASSUME NEW w \in Written, NEW data \in Seq(Cell), Len(data) = Len(Raw(w)),
           NEW k \in 1 .. Len(data), NEW b \in Cell
    PROVE  Put(Record(w, data), 8 + k, b) = Record(w, Put(data, k, b))
<1> DEFINE a == MainnetMagic
           s == LittleEndian(Len(Raw(w)), 4)
           d == Sha256d(w.prev, Raw(w))
           h == a \o s
           hd == h \o data
           p == Put(data, k, b)
<1>1. RecordParts(w) /\ a \in Seq(Cell) /\ Len(a) = 4 /\ s \in Seq(Cell) /\ d \in Seq(Cell)
  <2>1. <<>> \in Seq(Cell)
    OBVIOUS
  <2>2. QED
    BY <2>1, PartsOfRecord, RecordLayout
<1>2. Len(s) = 4
  BY <1>1 DEF RecordParts
<1>3. Record(w, data) = hd \o d /\ Record(w, p) = (h \o p) \o d
  BY DEF Record
<1> HIDE DEF a, s, d, p
<1>4. h \in Seq(Cell) /\ Len(h) = 8
  <2>1. h \in Seq(Cell) /\ Len(h) = Len(a) + Len(s)
    BY <1>1, ConcatProperties, Zenon
  <2>2. QED
    BY <1>1, <1>2, <2>1
<1> HIDE DEF h
<1>5. hd \in Seq(Cell) /\ Len(hd) = 8 + Len(data)
  <2>1. hd \in Seq(Cell) /\ Len(hd) = Len(h) + Len(data)
    BY <1>4, ConcatProperties, Zenon
  <2>2. QED
    BY <1>4, <2>1
<1>6. Put(hd, 8 + k, b) = h \o p
  <2>1. Put(h \o data, Len(h) + k, b) = h \o Put(data, k, b)
    BY <1>4, PutSecond
  <2>2. QED
    BY <1>4, <2>1, Zenon DEF p
<1> HIDE DEF hd
<1>7. 8 + k \in 1 .. Len(hd)
  <2>1. Len(data) \in Nat
    BY LenProperties
  <2>2. QED
    BY <1>5, <2>1
<1>8. Put(hd \o d, 8 + k, b) = Put(hd, 8 + k, b) \o d
  BY <1>1, <1>5, <1>7, PutFirst
<1>9. QED
  BY <1>3, <1>6, <1>8, Zenon DEF p

\* Where a cell behind the first records is in the file.
Shifted(tail, n, z) ==
    \A j \in 0 .. n : \A l \in 1 .. Len(tail[j]) : tail[j][l] = tail[0][l + (z - Len(tail[j]))]
LEMMA TailIndex ==
    ASSUME NEW ws, NEW data, NEW tail, NEW f, NEW q, Layout(ws, data, tail, f, q)
    PROVE  Shifted(tail, Len(ws), Len(tail[0]))
<1> DEFINE n == Len(ws)
           z == Len(tail[0])
           T == {j \in 0 .. n : \A l \in 1 .. Len(tail[j]) : tail[j][l] = tail[0][l + (z - Len(tail[j]))]}
<1>1. Lengths(ws, data, tail, f, q)
  BY LayoutLengths
<1>2. n \in Nat /\ \A i \in 0 .. n : tail[i] \in Seq(Cell) /\ Len(tail[i]) \in Nat
  BY <1>1, Zenon DEF Lengths
<1> HIDE DEF n
<1>3. z \in Nat /\ 0 \in 0 .. n
  BY <1>2
<1>4. 0 \in T
  <2>1. ASSUME NEW l \in 1 .. z PROVE tail[0][l] = tail[0][l + (z - z)]
    <3>1. l + (z - z) = l
      BY <1>3
    <3>2. QED
      BY <3>1
  <2>2. QED
    BY <1>3, <2>1
<1>5. ASSUME NEW k \in 0 .. n - 1, k \in T PROVE k + 1 \in T
  <2> DEFINE i == k + 1
             rec == Record(ws[i], data[i])
             a == Len(tail[k])
             b == Len(tail[i])
             r == Len(rec)
  <2>1. k \in 0 .. n /\ i \in 0 .. n /\ i \in 1 .. n /\ i - 1 = k
    BY <1>2
  <2> HIDE DEF i
  <2>2. rec \in Seq(Cell) /\ r \in Nat /\ tail[i] \in Seq(Cell)
    BY <1>1, <1>2, <2>1, Zenon DEF Lengths, n
  <2>3. tail[k] = rec \o tail[i]
    BY <2>1, Zenon DEF Layout, n
  <2> HIDE DEF rec
  <2>4. IsConcat(tail[k], rec, tail[i], r, b)
    BY <2>2, <2>3, ConcatIs
  <2>5. a = r + b /\ \A x \in 1 .. r + b : tail[k][x] = IF x <= r THEN rec[x] ELSE tail[i][x - r]
    BY <2>4, Zenon DEF IsConcat
  <2>6. \A l \in 1 .. a : tail[k][l] = tail[0][l + (z - a)]
    BY <1>5
  <2>7. a \in Nat /\ b \in Nat
    BY <1>2, <2>1
  <2> HIDE DEF a, b, r, z
  <2>8. ASSUME NEW l \in 1 .. b PROVE tail[i][l] = tail[0][l + (z - b)]
    <3>1. r + l \in 1 .. r + b /\ r + l \in 1 .. a /\ ~(r + l <= r) /\ (r + l) - r = l
      BY <2>2, <2>5, <2>7
    <3>2. (r + l) + (z - a) = l + (z - b)
      BY <1>3, <2>2, <2>5, <2>7
    <3>3. tail[k][r + l] = tail[i][l]
      BY <2>5, <3>1
    <3>4. tail[k][r + l] = tail[0][(r + l) + (z - a)]
      BY <2>6, <3>1, Zenon
    <3>5. QED
      BY <3>2, <3>3, <3>4, Zenon
  <2>9. i \in T
    BY <2>1, <2>8 DEF b, z
  <2>10. QED
    BY <2>9 DEF i
<1>6. 0 .. n \subseteq T
  <2> HIDE DEF T
  <2>1. QED
    BY <1>2, <1>4, <1>5, UpTo
<1>7. QED
  BY <1>6 DEF n, Shifted

\* A file in which a cell of the undo data of a record is changed.
Changed(more, tails, ws, data, tail, g, i) ==
    /\ Layout(ws, more, tails, g, <<>>)
    /\ tails[Len(ws)] = tail[Len(ws)] /\ more[i] # data[i]
    /\ \A j \in 1 .. Len(ws) : j # i => more[j] = data[j]
LEMMA LayoutDamage ==
    ASSUME NEW ws, NEW data, NEW tail, NEW f, Layout(ws, data, tail, f, <<>>),
           NEW i \in 1 .. Len(ws), NEW k \in 1 .. Len(f), NEW b \in Cell,
           (Len(tail[0]) - Len(tail[i - 1])) + 8 < k, k <= ws[i].end - ChecksumSize, f[k] # b
    PROVE  \E more, tails : Changed(more, tails, ws, data, tail, Put(f, k, b), i)
<1> DEFINE n == Len(ws)
           z == Len(tail[0])
           At(j) == k - (z - Len(tail[j]))
           d == data[i]
           o == At(i - 1) - 8
           tails == [j \in 0 .. n |-> IF j < i THEN Put(tail[j], At(j), b) ELSE tail[j]]
           more == [j \in 1 .. n |-> IF j = i THEN Put(d, o, b) ELSE data[j]]
<1>1. Lengths(ws, data, tail, f, <<>>)
  BY LayoutLengths
<1>2. /\ n \in Nat /\ Len(f) \in Nat /\ z = Len(f) + Len(<<>>)
      /\ \A j \in 0 .. n : tail[j] \in Seq(Cell) /\ Len(tail[j]) \in Nat
      /\ \A j \in 1 .. n : /\ ws[j] \in Written /\ data[j] \in Seq(Cell)
                           /\ Len(data[j]) = Len(Raw(ws[j]))
                           /\ Record(ws[j], data[j]) \in Seq(Cell) /\ Len(Record(ws[j], data[j])) \in Nat
                           /\ Len(tail[j - 1]) = Len(Record(ws[j], data[j])) + Len(tail[j])
  BY <1>1, Zenon DEF Lengths
<1>3. /\ ws \in Seq(Written) /\ f \in Seq(Cell) /\ tail[0] = f \o <<>> /\ <<>> \in Seq(Cell)
      /\ data \in [1 .. n -> Seq(Cell)] /\ tail \in [0 .. n -> Seq(Cell)]
      /\ \A j \in 1 .. n : /\ tail[j - 1] = Record(ws[j], data[j]) \o tail[j]
                           /\ ws[j].end = z - Len(tail[j])
  BY Zenon DEF Layout
<1>4. \A x \in 0 .. n : \A y \in 0 .. x : Len(tail[x]) <= Len(tail[y])
  BY TailsShrink
<1>5. \A j \in 0 .. n : \A l \in 1 .. Len(tail[j]) : tail[j][l] = tail[0][l + (z - Len(tail[j]))]
  <2>1. Shifted(tail, n, z)
    BY TailIndex
  <2>2. QED
    BY <2>1, Zenon DEF Shifted
<1>6. i \in 1 .. n /\ (z - Len(tail[i - 1])) + 8 < k /\ k <= (z - Len(tail[i])) - ChecksumSize
  BY <1>3
<1>7. ChecksumSize \in Nat /\ z = Len(f)
  BY <1>2, FormatAssumption
<1> HIDE DEF n, z
<1>8. i - 1 \in 0 .. n /\ i \in 0 .. n /\ 0 \in 0 .. n /\ n \in 0 .. n /\ z \in Nat /\ k \in Nat
  BY <1>2, <1>6, <1>7
<1>9. k <= z
  BY <1>7
<1>10. Len(tail[i - 1]) = 8 + Len(d) + ChecksumSize + Len(tail[i]) /\ Len(d) \in Nat
  <2>1. Len(Record(ws[i], d)) = 8 + Len(d) + ChecksumSize
    BY <1>2, <1>3, <1>6, RecordLayout
  <2>2. Len(tail[i - 1]) = Len(Record(ws[i], d)) + Len(tail[i])
    BY <1>2, <1>6
  <2>3. Len(d) \in Nat
    BY <1>2, <1>6, LenProperties
  <2>4. QED
    BY <2>1, <2>2, <2>3
<1>11. o \in 1 .. Len(d) /\ At(i - 1) = 8 + o
  <2> DEFINE x == Len(tail[i - 1])
             y == Len(tail[i])
             e == Len(d)
  <2>1. x \in Nat /\ y \in Nat /\ x = 8 + e + ChecksumSize + y /\ e \in Nat
    BY <1>2, <1>8, <1>10
  <2>2. (z - x) + 8 < k /\ k <= (z - y) - ChecksumSize
    BY <1>6
  <2> HIDE DEF x, y, e
  <2>3. (k - (z - x)) - 8 \in 1 .. e /\ k - (z - x) = 8 + ((k - (z - x)) - 8)
    BY <1>7, <1>8, <2>1, <2>2
  <2>4. QED
    BY <2>3 DEF x, e
<1>12. ASSUME NEW j \in 0 .. n, j < i PROVE At(j) \in 1 .. Len(tail[j])
  <2> DEFINE x == Len(tail[i - 1])
             y == Len(tail[j])
  <2>1. j \in 0 .. i - 1
    BY <1>6, <1>12
  <2>2. x <= y /\ x \in Nat /\ y \in Nat /\ (z - x) + 8 < k
    BY <1>2, <1>4, <1>6, <1>8, <2>1
  <2> HIDE DEF x, y
  <2>3. k - (z - y) \in 1 .. y
    BY <1>8, <1>9, <2>2
  <2>4. QED
    BY <2>3 DEF y
<1>13. ASSUME NEW j \in 0 .. n PROVE tails[j] \in Seq(Cell) /\ Len(tails[j]) = Len(tail[j])
  <2>1. CASE j < i
    <3>1. tails[j] = Put(tail[j], At(j), b)
      BY <2>1
    <3>2. At(j) \in 1 .. Len(tail[j]) /\ tail[j] \in Seq(Cell)
      BY <1>2, <1>12, <2>1
    <3> HIDE DEF tails, At
    <3>3. IsPut(Put(tail[j], At(j), b), tail[j], Len(tail[j]), At(j), b)
      BY <3>2, PutIs
    <3>4. QED
      BY <3>1, <3>3, Zenon DEF IsPut
  <2>2. CASE ~(j < i)
    <3>1. tails[j] = tail[j]
      BY <2>2
    <3>2. QED
      BY <1>2, <3>1
  <2>3. QED
    BY <2>1, <2>2
<1>14. IsPut(Put(d, o, b), d, Len(d), o, b) /\ d \in Seq(Cell)
  <2>1. d \in Seq(Cell)
    BY <1>2, <1>6
  <2> HIDE DEF d, o, At
  <2>2. QED
    BY <1>11, <2>1, PutIs
<1>15. ASSUME NEW j \in 1 .. n PROVE more[j] \in Seq(Cell) /\ Len(more[j]) = Len(Raw(ws[j]))
  <2>1. CASE j = i
    <3>1. more[j] = Put(d, o, b)
      BY <2>1
    <3>2. Put(d, o, b) \in Seq(Cell) /\ Len(Put(d, o, b)) = Len(d)
      BY <1>14, Zenon DEF IsPut
    <3>3. Len(d) = Len(Raw(ws[j]))
      BY <1>2, <2>1
    <3>4. QED
      BY <3>1, <3>2, <3>3, Zenon
  <2>2. CASE j # i
    <3>1. more[j] = data[j]
      BY <2>2
    <3>2. QED
      BY <1>2, <3>1
  <2>3. QED
    BY <2>1, <2>2
<1>16. tails \in [0 .. n -> Seq(Cell)] /\ more \in [1 .. n -> Seq(Cell)]
  <2>1. tails = [j \in 0 .. n |-> tails[j]] /\ more = [j \in 1 .. n |-> more[j]]
    OBVIOUS
  <2> HIDE DEF tails, more
  <2>2. QED
    BY <1>13, <1>15, <2>1
<1>17. ASSUME NEW j \in 1 .. n PROVE tails[j - 1] = Record(ws[j], more[j]) \o tails[j]
  <2> DEFINE rec == Record(ws[j], data[j])
  <2>1. /\ j \in 0 .. n /\ j - 1 \in 0 .. n /\ rec \in Seq(Cell) /\ Len(rec) \in Nat
        /\ tail[j] \in Seq(Cell) /\ Len(tail[j]) \in Nat /\ Len(tail[j - 1]) = Len(rec) + Len(tail[j])
    <3>1. j \in 0 .. n /\ j - 1 \in 0 .. n
      BY <1>2
    <3>2. QED
      BY <1>2, <3>1, Zenon
  <2>2. tail[j - 1] = rec \o tail[j]
    BY <1>3
  <2>3. CASE j < i
    <3>1. tails[j] = Put(tail[j], At(j), b) /\ tails[j - 1] = Put(tail[j - 1], At(j - 1), b) /\ more[j] = data[j]
      <4>1. j - 1 < i /\ j # i
        BY <2>3
      <4>2. QED
        BY <2>1, <2>3, <4>1
    <3>2. At(j - 1) = Len(rec) + At(j)
      <4> DEFINE x == Len(rec)
                 y == Len(tail[j])
                 u == Len(tail[j - 1])
      <4>1. x \in Nat /\ y \in Nat /\ u = x + y
        BY <2>1
      <4> HIDE DEF x, y, u
      <4>2. k - (z - u) = x + (k - (z - y))
        BY <1>8, <4>1
      <4>3. QED
        BY <4>2 DEF x, y, u
    <3>3. At(j) \in 1 .. Len(tail[j])
      BY <1>12, <2>1, <2>3
    <3> HIDE DEF tails, more, At, rec
    <3>4. Put(rec \o tail[j], Len(rec) + At(j), b) = rec \o Put(tail[j], At(j), b)
      BY <2>1, <3>3, PutSecond
    <3>5. QED
      BY <2>2, <3>1, <3>2, <3>4, Zenon DEF rec
  <2>4. CASE j = i
    <3>1. tails[j] = tail[j] /\ tails[j - 1] = Put(tail[j - 1], At(j - 1), b) /\ more[j] = Put(d, o, b)
      <4>1. ~(j < i) /\ j - 1 < i
        BY <1>8, <2>4
      <4>2. tails[j] = tail[j] /\ more[j] = Put(d, o, b)
        BY <2>1, <2>4, <4>1, Zenon
      <4>3. tails[j - 1] = Put(tail[j - 1], At(j - 1), b)
        BY <2>1, <4>1, Zenon
      <4>4. QED
        BY <4>2, <4>3, Zenon
    <3>2. At(j - 1) = 8 + o /\ rec = Record(ws[i], d) /\ o \in 1 .. Len(d)
      BY <1>11, <2>4
    <3>3. 8 + o \in 1 .. Len(rec)
      <4>1. Len(Record(ws[i], d)) = 8 + Len(d) + ChecksumSize
        BY <1>2, <1>3, <1>6, RecordLayout
      <4> HIDE DEF d, o, At, rec
      <4>2. QED
        BY <1>7, <1>10, <3>2, <4>1
    <3>4. Put(rec \o tail[j], 8 + o, b) = Put(rec, 8 + o, b) \o tail[j]
      <4> HIDE DEF d, o, At, rec
      <4>1. QED
        BY <2>1, <3>3, PutFirst
    <3>5. Put(Record(ws[i], d), 8 + o, b) = Record(ws[i], Put(d, o, b))
      <4>1. ws[i] \in Written /\ d \in Seq(Cell) /\ Len(d) = Len(Raw(ws[i]))
        BY <1>2, <1>6
      <4> HIDE DEF d, o, At, rec
      <4>2. QED
        BY <1>11, <4>1, PutInRecord
    <3> HIDE DEF tails, more, At, rec, o, d
    <3>6. tails[j - 1] = Put(rec \o tail[j], 8 + o, b)
      BY <2>2, <3>1, <3>2, Zenon
    <3>7. QED
      BY <2>4, <3>1, <3>2, <3>4, <3>5, <3>6, Zenon
  <2>5. CASE j > i
    <3>1. ~(j < i) /\ ~(j - 1 < i) /\ j # i
      BY <1>8, <2>5
    <3>2. tails[j] = tail[j] /\ tails[j - 1] = tail[j - 1] /\ more[j] = data[j]
      BY <2>1, <3>1
    <3> HIDE DEF tails, more
    <3>3. QED
      BY <2>2, <3>2, Zenon DEF rec
  <2>6. j < i \/ j = i \/ j > i
    BY <1>8
  <2>7. QED
    BY <2>3, <2>4, <2>5, <2>6, Zenon
<1>18. tails[0] = Put(f, k, b) \o <<>> /\ Put(f, k, b) \in Seq(Cell)
  <2>1. 0 < i /\ At(0) = k
    BY <1>7, <1>8 DEF z
  <2>2. tails[0] = Put(tail[0], k, b)
    BY <1>8, <2>1
  <2> HIDE DEF tails
  <2>3. Put(f \o <<>>, k, b) = Put(f, k, b) \o <<>>
    BY <1>3, PutFirst
  <2>4. IsPut(Put(f, k, b), f, Len(f), k, b)
    BY <1>3, PutIs
  <2>5. Put(f, k, b) \in Seq(Cell)
    BY <2>4, Zenon DEF IsPut
  <2>6. QED
    BY <1>3, <2>2, <2>3, <2>5, Zenon
<1>19. more[i] # d
  <2>1. more[i] = Put(d, o, b)
    BY <1>6
  <2>2. Put(d, o, b)[o] = b
    BY <1>14, Zenon DEF IsPut
  <2>3. d[o] = f[k]
    <3> DEFINE rec == Record(ws[i], d)
               x == Len(tail[i - 1])
    <3>1. tail[i - 1] = rec \o tail[i] /\ Len(rec) = 8 + Len(d) + ChecksumSize
      BY <1>2, <1>3, <1>6, RecordLayout
    <3>2. At(i - 1) \in 1 .. x
      BY <1>6, <1>8, <1>12
    <3>3. tail[i - 1][At(i - 1)] = tail[0][At(i - 1) + (z - x)]
      <4> HIDE DEF At
      <4>1. QED
        BY <1>5, <1>8, <3>2, Zenon
    <3>4. At(i - 1) + (z - x) = k
      <4>1. x \in Nat
        BY <1>2, <1>8
      <4> HIDE DEF x
      <4>2. (k - (z - x)) + (z - x) = k
        BY <1>8, <4>1
      <4>3. QED
        BY <4>2 DEF x
    <3>5. tail[0] = f
      BY <1>3, ConcatEmptySeq
    <3> DEFINE h == MainnetMagic \o LittleEndian(Len(Raw(ws[i])), 4)
               c == Sha256d(ws[i].prev, Raw(ws[i]))
    <3>6. rec = (h \o d) \o c
      BY DEF Record
    <3>7. h \in Seq(Cell) /\ Len(h) = 8 /\ c \in Seq(Cell)
      <4> DEFINE a == MainnetMagic
                 s == LittleEndian(Len(Raw(ws[i])), 4)
      <4>1. RecordParts(ws[i]) /\ a \in Seq(Cell) /\ Len(a) = 4 /\ s \in Seq(Cell) /\ c \in Seq(Cell)
        BY <1>2, <1>3, <1>6, PartsOfRecord, RecordLayout
      <4>2. Len(s) = 4
        BY <4>1, Zenon DEF RecordParts
      <4> HIDE DEF a, s
      <4>3. a \o s \in Seq(Cell) /\ Len(a \o s) = Len(a) + Len(s)
        BY <4>1, ConcatProperties, Zenon
      <4>4. Len(a \o s) = 8
        BY <4>1, <4>2, <4>3
      <4>5. QED
        BY <4>1, <4>3, <4>4, Zenon DEF a, s
    <3>8. d \in Seq(Cell) /\ Len(d) \in Nat /\ o \in 1 .. Len(d) /\ Len(c) \in Nat
      <4>1. Len(c) \in Nat
        BY <3>7, LenProperties
      <4>2. QED
        BY <1>10, <1>11, <1>14, <4>1
    <3>9. tail[i] \in Seq(Cell) /\ Len(tail[i]) \in Nat
      BY <1>2, <1>8
    <3> HIDE DEF h, c, o, d, At, rec
    <3> DEFINE g == h \o d
    <3>10. IsConcat(g, h, d, 8, Len(d))
      BY <3>7, <3>8, ConcatIs
    <3>11. g \in Seq(Cell) /\ Len(g) = 8 + Len(d) /\ g[8 + o] = d[o]
      <4>1. /\ g \in Seq(Cell) /\ Len(g) = 8 + Len(d)
            /\ \A l \in 1 .. 8 + Len(d) : g[l] = IF l <= 8 THEN h[l] ELSE d[l - 8]
        BY <3>10, Zenon DEF IsConcat
      <4>2. 8 + o \in 1 .. 8 + Len(d) /\ ~(8 + o <= 8) /\ (8 + o) - 8 = o
        BY <3>8
      <4> HIDE DEF g
      <4>3. QED
        BY <4>1, <4>2
    <3> HIDE DEF g
    <3>12. IsConcat(rec, g, c, 8 + Len(d), Len(c))
      <4>1. rec = g \o c
        BY <3>6 DEF g
      <4>2. QED
        BY <3>7, <3>11, <4>1, ConcatIs
    <3>13. rec \in Seq(Cell) /\ Len(rec) = 8 + Len(d) + Len(c) /\ rec[8 + o] = g[8 + o]
      <4>1. /\ rec \in Seq(Cell) /\ Len(rec) = 8 + Len(d) + Len(c)
            /\ \A l \in 1 .. (8 + Len(d)) + Len(c) : rec[l] = IF l <= 8 + Len(d) THEN g[l] ELSE c[l - (8 + Len(d))]
        BY <3>12, Zenon DEF IsConcat
      <4>2. 8 + o \in 1 .. (8 + Len(d)) + Len(c) /\ 8 + o <= 8 + Len(d)
        BY <3>8
      <4>3. QED
        BY <4>1, <4>2
    <3>14. IsConcat(tail[i - 1], rec, tail[i], Len(rec), Len(tail[i]))
      BY <3>1, <3>9, <3>13, ConcatIs
    <3>15. tail[i - 1][8 + o] = rec[8 + o]
      <4>1. \A l \in 1 .. Len(rec) + Len(tail[i]) : tail[i - 1][l] = IF l <= Len(rec) THEN rec[l] ELSE tail[i][l - Len(rec)]
        BY <3>14, Zenon DEF IsConcat
      <4>2. 8 + o \in 1 .. Len(rec) + Len(tail[i]) /\ 8 + o <= Len(rec)
        <5> DEFINE e == Len(d)
                   y == Len(rec)
                   u == Len(tail[i])
                   v == Len(c)
        <5>1. e \in Nat /\ y = 8 + e + v /\ u \in Nat /\ v \in Nat /\ o \in 1 .. e
          BY <3>8, <3>9, <3>13
        <5> HIDE DEF e, y, u, v
        <5>2. 8 + o \in 1 .. y + u /\ 8 + o <= y
          BY <5>1
        <5>3. QED
          BY <5>2 DEF y, u
      <4>3. QED
        BY <4>1, <4>2
    <3>16. At(i - 1) = 8 + o
      BY <1>11
    <3>17. QED
      BY <3>3, <3>4, <3>5, <3>11, <3>13, <3>15, <3>16, Zenon
  <2> HIDE DEF more, o, d
  <2>4. QED
    BY <2>1, <2>2, <2>3, Zenon
<1>20. tails[n] = tail[n] /\ \A j \in 1 .. n : j # i => more[j] = data[j]
  <2>1. ~(n < i)
    BY <1>2, <1>6
  <2>2. QED
    BY <1>8, <2>1
<1> HIDE DEF tails, more
<1>21. ASSUME NEW j \in 1 .. n PROVE ws[j].end = Len(tails[0]) - Len(tails[j])
  <2>1. j \in 0 .. n
    BY <1>2
  <2>2. Len(tails[0]) = z /\ Len(tails[j]) = Len(tail[j])
    BY <1>8, <1>13, <2>1 DEF z
  <2>3. QED
    BY <1>3, <2>2
<1>22. Layout(ws, more, tails, Put(f, k, b), <<>>)
  BY <1>3, <1>15, <1>16, <1>17, <1>18, <1>21, Zenon DEF Layout, n
<1>23. QED
  BY <1>19, <1>20, <1>22, Zenon DEF n, d, Changed

\* The file has the records that were written, with other undo data for the damaged ones;
\* before it was cut, padded or damaged it has nothing else.
LaidOut(f, ws, dm, wh, data, tail, q) ==
    /\ Layout(ws, data, tail, f, q) /\ Ends(tail[Len(ws)], q)
    /\ \A i \in 1 .. Len(ws) : (i \in dm) = (data[i] # Raw(ws[i]))
    /\ wh => dm = {} /\ q = <<>> /\ tail[Len(ws)] = <<>>
RevState(f, ws, dm, wh) == \E data, tail, q : LaidOut(f, ws, dm, wh, data, tail, q)

\* A file that ends after its last record.
LEMMA EndsEmpty == ASSUME NEW q PROVE Ends(<<>>, q)
<1>1. <<>> = [i \in 1 .. 0 |-> 0] /\ 0 \in Nat
  OBVIOUS
<1>2. QED
  BY <1>1, Zenon DEF Ends

\* An empty file has no records.
LEMMA StateStarts == RevState(<<>>, <<>>, {}, TRUE)
<1> DEFINE tail == [i \in 0 .. 0 |-> <<>>]
           data == [i \in 1 .. 0 |-> <<>>]
<1>1. <<>> \in Seq(Cell) /\ <<>> \in Seq(Written) /\ Len(<<>>) = 0 /\ <<>> = <<>> \o <<>>
  OBVIOUS
<1>2. tail[0] = <<>> /\ tail \in [0 .. 0 -> Seq(Cell)] /\ data \in [1 .. 0 -> Seq(Cell)]
  BY <1>1
<1>3. \A i : i \notin 1 .. 0
  OBVIOUS
<1> HIDE DEF tail, data
<1>4. Layout(<<>>, data, tail, <<>>, <<>>)
  BY <1>1, <1>2, <1>3, Zenon DEF Layout
<1>5. Ends(tail[Len(<<>>)], <<>>)
  BY <1>1, <1>2, EndsEmpty, Zenon
<1>6. LaidOut(<<>>, <<>>, {}, TRUE, data, tail, <<>>)
  BY <1>1, <1>2, <1>3, <1>4, <1>5, Zenon DEF LaidOut
<1>7. QED
  BY <1>6, Zenon DEF RevState

\* A record is written behind the others.
LEMMA StateAppends ==
    ASSUME NEW f, NEW ws, NEW dm, RevState(f, ws, dm, TRUE), NEW undo \in Undos, NEW prev \in PrevHashes,
           NEW bytes, bytes = CoreRecord(undo, prev),
           NEW w, w = [undo |-> undo, prev |-> prev, end |-> Len(f) + Len(bytes)]
    PROVE  RevState(f \o bytes, Append(ws, w), dm, TRUE)
<1> DEFINE n == Len(ws)
<1>1. PICK data, tail, q : LaidOut(f, ws, dm, TRUE, data, tail, q)
  BY Zenon DEF RevState
<1>2. /\ Layout(ws, data, tail, f, q) /\ dm = {} /\ q = <<>> /\ tail[n] = <<>>
      /\ \A i \in 1 .. n : (i \in dm) = (data[i] # Raw(ws[i]))
  BY <1>1, Zenon DEF LaidOut
<1>3. Layout(ws, data, tail, f, <<>>)
  BY <1>2, Zenon
<1>4. n \in Nat /\ ws \in Seq(Written) /\ f \in Seq(Cell) /\ Len(f) \in Nat
  <2>1. Lengths(ws, data, tail, f, <<>>)
    BY <1>3, LayoutLengths
  <2>2. QED
    BY <1>3, <2>1, Zenon DEF Lengths, Layout
<1>5. bytes \in Seq(Cell) /\ Len(bytes) \in Nat
  <2> DEFINE v == [undo |-> undo, prev |-> prev, end |-> 0]
  <2>1. v \in Written /\ v.undo = undo /\ v.prev = prev
    BY DEF Written
  <2> HIDE DEF v
  <2>2. bytes = Record(v, Raw(v))
    BY <2>1, Zenon DEF Record, Raw, CoreRecord, RecordOf
  <2>3. RecordParts(v)
    BY <2>1, PartsOfRecord
  <2>4. Raw(v) \in Seq(Cell) /\ <<>> \in Seq(Cell)
    BY <2>3, CellsOf DEF RecordParts
  <2>5. bytes \in Seq(Cell)
    BY <2>1, <2>2, <2>4, RecordLayout
  <2>6. QED
    BY <2>5, LenProperties
<1>6. w \in Written /\ w.undo = undo /\ w.prev = prev /\ w.end = Len(f) + Len(bytes)
  <2> DEFINE e == Len(f) + Len(bytes)
  <2>1. e \in Nat
    BY <1>4, <1>5
  <2> HIDE DEF e
  <2>2. w = [undo |-> undo, prev |-> prev, end |-> e]
    BY DEF e
  <2>3. w \in Written /\ w.undo = undo /\ w.prev = prev /\ w.end = e
    BY <2>1, <2>2 DEF Written
  <2>4. QED
    BY <2>3 DEF e
<1>7. bytes = Record(w, Raw(w))
  BY <1>6, Zenon DEF Record, Raw, CoreRecord, RecordOf
<1>8. PICK longer : Layout(ws, data, longer, f \o bytes, <<>>) /\ longer[n] = tail[n] \o bytes
  <2>1. \E longer : Extended(longer, ws, data, tail, f, bytes)
    BY <1>3, <1>5, LayoutExtends
  <2>2. QED
    BY <2>1, Zenon DEF Extended
<1>9. longer[n] = Record(w, Raw(w))
  <2>1. <<>> \o bytes = bytes
    BY <1>5, ConcatEmptySeq
  <2>2. QED
    BY <1>2, <1>7, <1>8, <2>1, Zenon
<1>10. w.end = Len(longer[0])
  <2>1. Lengths(ws, data, longer, f \o bytes, <<>>)
    BY <1>8, LayoutLengths
  <2>2. Len(longer[0]) = Len(f \o bytes) + Len(<<>>)
    BY <2>1, Zenon DEF Lengths
  <2>3. Len(f \o bytes) = Len(f) + Len(bytes)
    BY <1>4, <1>5, ConcatProperties, Zenon
  <2>4. QED
    BY <1>4, <1>5, <1>6, <2>2, <2>3
<1>11. PICK more, tails : /\ Layout(Append(ws, w), more, tails, f \o bytes, <<>>)
                          /\ tails[n + 1] = <<>> /\ more[n + 1] = Raw(w)
                          /\ \A i \in 1 .. n : more[i] = data[i]
  BY <1>6, <1>8, <1>9, <1>10, LayoutSplits
<1> DEFINE vs == Append(ws, w)
<1>12. Len(vs) = n + 1 /\ vs[n + 1] = w /\ \A i \in 1 .. n : vs[i] = ws[i]
  BY <1>4, <1>6
<1>13. \A i \in 1 .. n + 1 : i \in 1 .. n \/ i = n + 1
  BY <1>4
<1> HIDE DEF n, vs
<1>14. \A i \in 1 .. n + 1 : (i \in dm) = (more[i] # Raw(vs[i]))
  <2>1. \A i \in 1 .. n : data[i] = Raw(ws[i])
    BY <1>2
  <2>2. ASSUME NEW i \in 1 .. n + 1 PROVE more[i] = Raw(vs[i])
    BY <1>11, <1>12, <1>13, <2>1, Zenon
  <2>3. QED
    BY <1>2, <2>2
<1>15. Ends(tails[Len(vs)], <<>>)
  BY <1>11, <1>12, EndsEmpty, Zenon
<1>16. LaidOut(f \o bytes, vs, dm, TRUE, more, tails, <<>>)
  BY <1>2, <1>11, <1>12, <1>14, <1>15, Zenon DEF LaidOut, vs
<1>17. QED
  BY <1>16, Zenon DEF RevState, vs

\* The file loses its tail.
LEMMA StateCut ==
    ASSUME NEW f, NEW ws, NEW dm, RevState(f, ws, dm, TRUE), NEW k \in 1 .. Len(f)
    PROVE  RevState(SubSeq(f, 1, k), ws, dm, FALSE)
<1>1. PICK data, tail, q : LaidOut(f, ws, dm, TRUE, data, tail, q)
  BY Zenon DEF RevState
<1>2. /\ Layout(ws, data, tail, f, q) /\ dm = {} /\ q = <<>> /\ tail[Len(ws)] = <<>>
      /\ \A i \in 1 .. Len(ws) : (i \in dm) = (data[i] # Raw(ws[i]))
  BY <1>1, Zenon DEF LaidOut
<1>3. Layout(ws, data, tail, f, <<>>)
  BY <1>2, Zenon
<1>4. PICK r : Layout(ws, data, tail, SubSeq(f, 1, k), r)
  BY <1>3, LayoutCut
<1>5. Ends(tail[Len(ws)], r)
  BY <1>2, EndsEmpty, Zenon
<1>6. LaidOut(SubSeq(f, 1, k), ws, dm, FALSE, data, tail, r)
  BY <1>2, <1>4, <1>5, Zenon DEF LaidOut
<1>7. QED
  BY <1>6, Zenon DEF RevState

\* Space is allocated behind the records.
LEMMA StatePadded ==
    ASSUME NEW f, NEW ws, NEW dm, RevState(f, ws, dm, TRUE), NEW k \in Nat
    PROVE  RevState(f \o [i \in 1 .. k |-> 0], ws, dm, FALSE)
<1> DEFINE z == [i \in 1 .. k |-> 0]
<1>1. PICK data, tail, q : LaidOut(f, ws, dm, TRUE, data, tail, q)
  BY Zenon DEF RevState
<1>2. /\ Layout(ws, data, tail, f, q) /\ dm = {} /\ q = <<>> /\ tail[Len(ws)] = <<>>
      /\ \A i \in 1 .. Len(ws) : (i \in dm) = (data[i] # Raw(ws[i]))
  BY <1>1, Zenon DEF LaidOut
<1>3. Layout(ws, data, tail, f, <<>>)
  BY <1>2, Zenon
<1>4. z \in Seq(Cell)
  <2>1. 0 \in Cell
    BY RadixAssumption DEF Cell, Byte
  <2>2. QED
    BY <2>1
<1>5. Ends(z, <<>>)
  BY Zenon DEF Ends
<1> HIDE DEF z
<1>6. PICK tails : Layout(ws, data, tails, f \o z, <<>>) /\ tails[Len(ws)] = tail[Len(ws)] \o z
  <2>1. \E tails : Extended(tails, ws, data, tail, f, z)
    BY <1>3, <1>4, LayoutExtends
  <2>2. QED
    BY <2>1, Zenon DEF Extended
<1>7. <<>> \o z = z
  BY <1>4, ConcatEmptySeq
<1>8. Ends(tails[Len(ws)], <<>>)
  BY <1>2, <1>5, <1>6, <1>7, Zenon
<1>9. LaidOut(f \o z, ws, dm, FALSE, data, tails, <<>>)
  BY <1>2, <1>6, <1>8, Zenon DEF LaidOut
<1>10. QED
  BY <1>9, Zenon DEF RevState, z

\* A byte of the undo data of a record is changed.
LEMMA StateDamaged ==
    ASSUME NEW f, NEW ws, NEW dm, RevState(f, ws, dm, TRUE),
           NEW i \in 1 .. Len(ws), NEW k \in 1 .. Len(f), NEW b \in DamageBytes, NEW start,
           i = 1 => start = 0, i # 1 => start = ws[i - 1].end,
           start + 8 < k, k <= ws[i].end - ChecksumSize, f[k] # b
    PROVE  RevState([f EXCEPT ![k] = b], ws, {i}, FALSE)
<1> DEFINE n == Len(ws)
<1>1. PICK data, tail, q : LaidOut(f, ws, dm, TRUE, data, tail, q)
  BY Zenon DEF RevState
<1>2. /\ Layout(ws, data, tail, f, q) /\ dm = {} /\ q = <<>> /\ tail[n] = <<>>
      /\ \A j \in 1 .. n : (j \in dm) = (data[j] # Raw(ws[j]))
  BY <1>1, Zenon DEF LaidOut
<1>3. Layout(ws, data, tail, f, <<>>)
  BY <1>2, Zenon
<1>4. n \in Nat /\ Len(tail[0]) \in Nat /\ \A j \in 1 .. n : ws[j].end = Len(tail[0]) - Len(tail[j])
  <2>1. Lengths(ws, data, tail, f, <<>>)
    BY <1>3, LayoutLengths
  <2>2. n \in Nat
    BY <2>1, Zenon DEF Lengths
  <2>3. 0 \in 0 .. n
    BY <2>2
  <2>4. Len(tail[0]) \in Nat
    BY <2>1, <2>3, Zenon DEF Lengths
  <2>5. QED
    BY <1>3, <2>2, <2>4, Zenon DEF Layout
<1>5. start = Len(tail[0]) - Len(tail[i - 1])
  <2>1. CASE i = 1
    <3>1. i - 1 = 0
      BY <2>1
    <3>2. QED
      BY <1>4, <2>1, <3>1
  <2>2. CASE i # 1
    <3>1. i - 1 \in 1 .. n
      BY <1>4, <2>2
    <3>2. QED
      BY <1>4, <2>2, <3>1
  <2>3. QED
    BY <2>1, <2>2
<1>6. b \in Cell
  BY DEF Cell
<1>7. PICK more, tails : /\ Layout(ws, more, tails, Put(f, k, b), <<>>)
                         /\ tails[n] = tail[n] /\ more[i] # data[i]
                         /\ \A j \in 1 .. n : j # i => more[j] = data[j]
  <2>1. (Len(tail[0]) - Len(tail[i - 1])) + 8 < k
    BY <1>5
  <2>2. \E more, tails : Changed(more, tails, ws, data, tail, Put(f, k, b), i)
    BY <1>3, <1>6, <2>1, LayoutDamage
  <2>3. QED
    BY <2>2, Zenon DEF Changed, n
<1>8. \A j \in 1 .. n : (j \in {i}) = (more[j] # Raw(ws[j]))
  <2>1. \A j \in 1 .. n : data[j] = Raw(ws[j])
    BY <1>2
  <2>2. QED
    BY <1>7, <2>1
<1>9. Ends(tails[n], <<>>)
  BY <1>2, <1>7, EndsEmpty, Zenon
<1>10. LaidOut(Put(f, k, b), ws, {i}, FALSE, more, tails, <<>>)
  BY <1>7, <1>8, <1>9, Zenon DEF LaidOut, n
<1>11. QED
  BY <1>10, Zenon DEF RevState, Put

\* What a file holds beyond its last record; negative when part of the records is missing.
Beyond(f, ws) == Len(f) - (IF ws = <<>> THEN 0 ELSE ws[Len(ws)].end)
\* A record that was read in place of w, with the undo data of w if that is intact.
ReadRecord(rec, w, intact) ==
    /\ rec.checksum = Sha256d(w.prev, Raw(w))
    /\ intact = (rec.rawUndo = Raw(w))
    /\ intact => rec.undo = CanonicalUndo(w.undo)
\* What parsing a file returns: its first c records, which without damage are all there are.
ReadFile(p, c, f, ws, dm) ==
    /\ c \in 0 .. Len(ws) /\ DOMAIN p.records = 1 .. c
    /\ \A i \in 1 .. c : ReadRecord(p.records[i], ws[i], i \notin dm)
    /\ dm = {} => /\ 1 .. c = {i \in 1 .. Len(ws) : ws[i].end <= Len(f)}
                  /\ p.err = (Beyond(f, ws) >= 4)

\* The records a file has are those that parsing returns.
LEMMA StateReads ==
    ASSUME NEW f, NEW ws, NEW dm, NEW wh, RevState(f, ws, dm, wh)
    PROVE  \E c : ReadFile(ParseAllRecords(f), c, f, ws, dm)
<1> DEFINE n == Len(ws)
           p == ParseAllRecords(f)
<1>1. PICK data, tail, q : LaidOut(f, ws, dm, wh, data, tail, q)
  BY Zenon DEF RevState
<1>2. /\ Layout(ws, data, tail, f, q) /\ Ends(tail[n], q)
      /\ \A i \in 1 .. n : (i \in dm) = (data[i] # Raw(ws[i]))
  BY <1>1, Zenon DEF LaidOut
<1>3. PICK c \in 0 .. n : Finished(p, c, ws, data, tail, f, q)
  BY <1>2, ParsesLayout
<1>4. Lengths(ws, data, tail, f, q)
  BY <1>2, LayoutLengths
<1>5. /\ n \in Nat /\ Len(f) \in Nat /\ Len(q) \in Nat /\ Len(tail[0]) = Len(f) + Len(q)
      /\ \A i \in 0 .. n : Len(tail[i]) \in Nat
      /\ \A i \in 1 .. n : ws[i] \in Written /\ data[i] \in Seq(Cell) /\ Len(data[i]) = Len(Raw(ws[i]))
  BY <1>4, Zenon DEF Lengths
<1>6. /\ p.records = Values(ws, data, c) /\ \A i \in 1 .. c : ws[i].end <= Len(f)
      /\ Intact(ws, data) => /\ \A i \in c + 1 .. n : ~(ws[i].end <= Len(f))
                             /\ p.err = (Len(tail[n]) - Len(q) >= 4)
  BY <1>3, Zenon DEF Finished
<1>7. ws \in Seq(Written) /\ \A i \in 1 .. n : ws[i].end = Len(tail[0]) - Len(tail[i])
  BY <1>2, Zenon DEF Layout
<1> HIDE DEF p, n
<1>8. DOMAIN p.records = 1 .. c /\ \A i \in 1 .. c : p.records[i] = Value(ws[i], data[i])
  BY <1>6 DEF Values
<1>9. \A i \in 1 .. c : i \in 1 .. n
  BY <1>5
<1>10. ASSUME NEW i \in 1 .. c PROVE ReadRecord(p.records[i], ws[i], i \notin dm)
  <2> DEFINE w == ws[i]
             d == data[i]
             v == Value(w, d)
             s == Record(w, d) \o <<>>
  <2>1. i \in 1 .. n /\ w \in Written /\ d \in Seq(Cell) /\ Len(d) = Len(Raw(w)) /\ <<>> \in Seq(Cell)
    BY <1>5, <1>9
  <2>2. (i \in dm) = (d # Raw(w))
    BY <1>2, <2>1 DEF n
  <2>3. p.records[i] = v
    BY <1>8
  <2>4. v.checksum = Sha256d(w.prev, Raw(w)) /\ v.rawUndo = d
    BY DEF Value
  <2>5. d = Raw(w) => v.undo = CanonicalUndo(w.undo)
    <3>1. d = Raw(w) => ParseRecord(s).ok /\ Value(w, d).undo = CanonicalUndo(w.undo)
      <4> HIDE DEF w, d
      <4>1. QED
        BY <2>1, RecordValue
    <3>2. QED
      BY <3>1, Zenon
  <2> HIDE DEF w, d, v
  <2>6. (i \notin dm) = (v.rawUndo = Raw(w))
    BY <2>2, <2>4
  <2>7. (i \notin dm) => v.undo = CanonicalUndo(w.undo)
    BY <2>2, <2>5
  <2>8. ReadRecord(v, w, i \notin dm)
    BY <2>4, <2>6, <2>7, Zenon DEF ReadRecord
  <2>9. QED
    BY <2>3, <2>8, Zenon DEF w
<1>11. ASSUME dm = {}
       PROVE  1 .. c = {i \in 1 .. n : ws[i].end <= Len(f)} /\ p.err = (Beyond(f, ws) >= 4)
  <2>1. Intact(ws, data)
    BY <1>2, <1>11 DEF Intact, n
  <2>2. 1 .. c = {i \in 1 .. n : ws[i].end <= Len(f)}
    <3>1. \A i \in 1 .. n : i \in 1 .. c \/ i \in c + 1 .. n
      BY <1>5
    <3>2. QED
      BY <1>6, <1>9, <2>1, <3>1, Zenon
  <2>3. Beyond(f, ws) = Len(tail[n]) - Len(q)
    <3> DEFINE x == Len(f)
               y == Len(q)
               z == Len(tail[0])
               t == Len(tail[n])
    <3>1. x \in Nat /\ y \in Nat /\ z = x + y
      BY <1>5
    <3>2. t \in Nat
      BY <1>5
    <3>3. CASE ws = <<>>
      <4>1. n = 0
        BY <3>3 DEF n
      <4>2. t = z /\ Beyond(f, ws) = x - 0
        BY <3>3, <4>1, Zenon DEF Beyond
      <4> HIDE DEF x, y, z, t
      <4>3. Beyond(f, ws) = t - y
        BY <3>1, <3>2, <4>2
      <4>4. QED
        BY <4>3 DEF t, y
    <3>4. CASE ws # <<>>
      <4>1. n \in 1 .. n
        BY <1>5, <1>7, <3>4 DEF n
      <4>2. Beyond(f, ws) = x - (z - t)
        BY <1>7, <3>4, <4>1, Zenon DEF Beyond, n
      <4> HIDE DEF x, y, z, t
      <4>3. Beyond(f, ws) = t - y
        BY <3>1, <3>2, <4>2
      <4>4. QED
        BY <4>3 DEF t, y
    <3>5. QED
      BY <3>3, <3>4
  <2>4. p.err = (Beyond(f, ws) >= 4)
    BY <1>6, <2>1, <2>3, Zenon
  <2>5. QED
    BY <2>2, <2>4
<1>12. ReadFile(p, c, f, ws, dm)
  BY <1>3, <1>8, <1>10, <1>11, Zenon DEF ReadFile, n
<1>13. QED
  BY <1>12, Zenon DEF p

\* The file is laid out by its records.
RevInv == RevState(file, written, damaged, whole)

\* In every state the file is what its records, and the cut, the padding or the damage, make it.
THEOREM FileLaidOut == Spec => []RevInv
<1>1. Init => RevInv
  BY StateStarts, Zenon DEF Init, RevInv
<1>2. RevInv /\ [Next]_vars => RevInv'
  <2> SUFFICES ASSUME RevInv, [Next]_vars PROVE RevInv'
    OBVIOUS
  <2>1. RevState(file, written, damaged, whole)
    BY DEF RevInv
  <2>2. ASSUME NEW undo \in Undos, NEW prev \in PrevHashes, AppendRecord(undo, prev) PROVE RevInv'
    <3> DEFINE bytes == CoreRecord(undo, prev)
               w == [undo |-> undo, prev |-> prev, end |-> Len(file) + Len(bytes)]
    <3>1. /\ whole = TRUE /\ file' = file \o bytes /\ written' = Append(written, w)
          /\ damaged' = damaged /\ whole' = whole
      <4>1. whole /\ whole = TRUE
        BY <2>2 DEF AppendRecord
      <4>2. QED
        BY <2>2, <4>1, Zenon DEF AppendRecord
    <3>2. RevState(file, written, damaged, TRUE)
      BY <2>1, <3>1, Zenon
    <3>3. RevState(file \o bytes, Append(written, w), damaged, TRUE)
      BY <3>2, StateAppends
    <3>4. QED
      BY <3>1, <3>3, Zenon DEF RevInv
  <2>3. ASSUME NEW k \in 1 .. Len(file), Cut(k) PROVE RevInv'
    <3>1. /\ whole = TRUE /\ file' = SubSeq(file, 1, k) /\ whole' = FALSE
          /\ written' = written /\ damaged' = damaged
      BY <2>3 DEF Cut
    <3>2. RevState(file, written, damaged, TRUE)
      BY <2>1, <3>1, Zenon
    <3>3. RevState(SubSeq(file, 1, k), written, damaged, FALSE)
      BY <3>2, StateCut
    <3>4. QED
      BY <3>1, <3>3, Zenon DEF RevInv
  <2>4. ASSUME NEW k \in 1 .. MaxPadding, Preallocate(k) PROVE RevInv'
    <3>1. /\ whole = TRUE /\ file' = file \o [i \in 1 .. k |-> 0] /\ whole' = FALSE
          /\ written' = written /\ damaged' = damaged /\ k \in Nat
      BY <2>4, FormatAssumption DEF Preallocate
    <3>2. RevState(file, written, damaged, TRUE)
      BY <2>1, <3>1, Zenon
    <3>3. RevState(file \o [i \in 1 .. k |-> 0], written, damaged, FALSE)
      BY <3>1, <3>2, StatePadded
    <3>4. QED
      BY <3>1, <3>3, Zenon DEF RevInv
  <2>5. ASSUME NEW i \in 1 .. Len(written), NEW k \in 1 .. Len(file), NEW b \in DamageBytes, Damage(i, k, b)
        PROVE  RevInv'
    <3> DEFINE start == IF i = 1 THEN 0 ELSE written[i - 1].end
    <3>1. /\ whole = TRUE /\ start + 8 < k /\ k <= written[i].end - ChecksumSize /\ file[k] # b
          /\ file' = [file EXCEPT ![k] = b] /\ damaged' = {i} /\ whole' = FALSE /\ written' = written
      BY <2>5 DEF Damage, StorageHeaderSize
    <3>2. (i = 1 => start = 0) /\ (i # 1 => start = written[i - 1].end)
      OBVIOUS
    <3> HIDE DEF start
    <3>3. RevState(file, written, damaged, TRUE)
      BY <2>1, <3>1, Zenon
    <3>4. RevState([file EXCEPT ![k] = b], written, {i}, FALSE)
      BY <3>1, <3>2, <3>3, StateDamaged
    <3>5. QED
      BY <3>1, <3>4, Zenon DEF RevInv
  <2>6. CASE UNCHANGED vars
    BY <2>1, <2>6, Zenon DEF RevInv, vars
  <2>7. QED
    BY <2>2, <2>3, <2>4, <2>5, <2>6, Zenon DEF Next
<1>3. QED
  BY <1>1, <1>2, PTL DEF Spec

\* Parsing a rev file that was cut or padded returns the records that are there in full, as
\* ParsesCompleteRecords says, for every size of the fields and all undo data that fits.
THEOREM CompleteRecordsParsed == Spec => []ParsesCompleteRecords
<1>1. RevInv => ParsesCompleteRecords
  <2> SUFFICES ASSUME RevInv, damaged = {} PROVE ParsesCompleteRecords
    BY DEF ParsesCompleteRecords
  <2> DEFINE p == ParseAllRecords(file)
             n == Len(written)
  <2>1. PICK c : ReadFile(p, c, file, written, damaged)
    BY StateReads DEF RevInv
  <2>2. /\ DOMAIN p.records = 1 .. c /\ 1 .. c = {i \in 1 .. n : written[i].end <= Len(file)}
        /\ p.err = (Beyond(file, written) >= 4)
        /\ \A i \in 1 .. c : ReadRecord(p.records[i], written[i], i \notin damaged)
    BY <2>1, Zenon DEF ReadFile
  <2>3. \A i \in 1 .. c : p.records[i].undo = CanonicalUndo(written[i].undo)
    BY <2>2, Zenon DEF ReadRecord
  <2>4. DOMAIN written = 1 .. n
    <3>1. written \in Seq(Written)
      BY Zenon DEF RevInv, RevState, LaidOut, Layout
    <3>2. QED
      BY <3>1
  <2>5. Len(MainnetMagic) = 4
    BY FormatAssumption
  <2> HIDE DEF p, n
  <2>6. /\ DOMAIN p.records = {i \in DOMAIN written : written[i].end <= Len(file)}
        /\ \A i \in DOMAIN p.records : p.records[i].undo = CanonicalUndo(written[i].undo)
        /\ p.err = (Beyond(file, written) >= Len(MainnetMagic))
    BY <2>2, <2>3, <2>4, <2>5, Zenon
  <2>7. QED
    BY <2>6, Zenon DEF ParsesCompleteRecords, Beyond, p, n
<1>2. QED
  BY <1>1, FileLaidOut, PTL

\* A record of bitcoind's that was read is written again with the bytes of the original, as
\* RewritesTheSame says: for all scripts but those that are taken for a key and are none.
THEOREM RecordsRewritten == Spec => []RewritesTheSame
<1>1. RevInv => RewritesTheSame
  <2> SUFFICES ASSUME RevInv, damaged = {} PROVE RewritesTheSame
    BY DEF RewritesTheSame
  <2> DEFINE p == ParseAllRecords(file)
             n == Len(written)
             Taken(undo) == \E t \in DOMAIN undo : \E c \in DOMAIN undo[t] :
                                TakenForKey(undo[t][c].script)
  <2>1. PICK c : ReadFile(p, c, file, written, damaged)
    BY StateReads DEF RevInv
  <2>2. /\ c \in 0 .. n /\ DOMAIN p.records = 1 .. c
        /\ \A i \in 1 .. c : ReadRecord(p.records[i], written[i], i \notin damaged)
    BY <2>1, Zenon DEF ReadFile
  <2>3. written \in Seq(Written)
    BY Zenon DEF RevInv, RevState, LaidOut, Layout
  <2> HIDE DEF p
  <2>4. ASSUME NEW i \in 1 .. c, ~Taken(written[i].undo)
        PROVE  SerializeRecord(p.records[i].undo, written[i].prev)
               = RecordOf(p.records[i].rawUndo, p.records[i].checksum)
    <3> DEFINE w == written[i]
    <3>1. i \in 1 .. n /\ w \in Written
      BY <2>2, <2>3
    <3>2. \A t \in DOMAIN w.undo : \A k \in DOMAIN w.undo[t] : ~TakenForKey(w.undo[t][k].script)
      BY <2>4, Zenon
    <3> HIDE DEF w
    <3>3. w.undo \in Seq(Seq(Coin))
      BY <3>1, UndoAssumption DEF Written
    <3>4. SerializeBlockUndo(CanonicalUndo(w.undo)) = Raw(w)
      <4> DEFINE undo == w.undo
      <4>1. undo \in Seq(Seq(Coin))
        BY <3>3
      <4>2. \A t \in DOMAIN undo : \A k \in DOMAIN undo[t] : ~TakenForKey(undo[t][k].script)
        BY <3>2
      <4> HIDE DEF undo
      <4>3. SerializeBlockUndo(CanonicalUndo(undo)) = CoreBlockUndo(undo)
        BY <4>1, <4>2, RewritesBlock
      <4>4. QED
        BY <4>3 DEF Raw, undo
    <3>5. ReadRecord(p.records[i], w, i \notin damaged) /\ i \notin damaged
      BY <2>2 DEF w
    <3>6. /\ p.records[i].undo = CanonicalUndo(w.undo) /\ p.records[i].rawUndo = Raw(w)
          /\ p.records[i].checksum = Sha256d(w.prev, Raw(w))
      BY <3>5, Zenon DEF ReadRecord
    <3>7. SerializeRecord(p.records[i].undo, w.prev)
          = RecordOf(p.records[i].rawUndo, p.records[i].checksum)
      BY <3>4, <3>6, Zenon DEF SerializeRecord
    <3>8. QED
      BY <3>7 DEF w
  <2>5. QED
    BY <2>2, <2>4, Zenon DEF RewritesTheSame, p
<1>2. QED
  BY <1>1, FileLaidOut, PTL

\* Checksums agree only for the same previous block and the same undo data.
LEMMA ChecksumsDiffer ==
    ASSUME NEW p, NEW q, NEW r, NEW s, Sha256d(p, r) = Sha256d(q, s)
    PROVE  p = q /\ r = s
<1>1. 1 \in 1 .. ChecksumSize
  BY FormatAssumption
<1>2. Sha256d(p, r)[1] = <<p, r, 1>> /\ Sha256d(q, s)[1] = <<q, s, 1>>
  BY <1>1 DEF Sha256d
<1>3. <<p, r, 1>> = <<q, s, 1>>
  BY <1>2
<1>4. QED
  BY <1>3

\* The checksum of a record that was read verifies exactly when its undo data is as it was
\* written and the block is the one it was written for, as ChecksumsTell says.
THEOREM ChecksumsSound == Spec => []ChecksumsTell
<1>1. RevInv => ChecksumsTell
  <2> SUFFICES ASSUME RevInv PROVE ChecksumsTell
    OBVIOUS
  <2> DEFINE p == ParseAllRecords(file)
  <2>1. PICK c : ReadFile(p, c, file, written, damaged)
    BY StateReads DEF RevInv
  <2>2. /\ DOMAIN p.records = 1 .. c
        /\ \A i \in 1 .. c : ReadRecord(p.records[i], written[i], i \notin damaged)
    BY <2>1, Zenon DEF ReadFile
  <2> HIDE DEF p
  <2>3. ASSUME NEW i \in 1 .. c, NEW prev \in PrevHashes
        PROVE  VerifyChecksum(p.records[i], prev) <=>
                   /\ prev = written[i].prev
                   /\ i \notin damaged
                   /\ p.records[i].undo = CanonicalUndo(written[i].undo)
    <3> DEFINE w == written[i]
               rec == p.records[i]
    <3>1. ReadRecord(rec, w, i \notin damaged)
      BY <2>2
    <3> HIDE DEF w, rec
    <3>2. /\ rec.checksum = Sha256d(w.prev, Raw(w)) /\ (i \notin damaged) = (rec.rawUndo = Raw(w))
          /\ (i \notin damaged) => rec.undo = CanonicalUndo(w.undo)
      BY <3>1, Zenon DEF ReadRecord
    <3>3. ASSUME VerifyChecksum(rec, prev)
          PROVE  prev = w.prev /\ i \notin damaged /\ rec.undo = CanonicalUndo(w.undo)
      <4>1. Sha256d(w.prev, Raw(w)) = Sha256d(prev, rec.rawUndo)
        BY <3>2, <3>3, Zenon DEF VerifyChecksum
      <4>2. w.prev = prev /\ Raw(w) = rec.rawUndo
        BY <4>1, ChecksumsDiffer
      <4>3. QED
        BY <3>2, <4>2
    <3>4. ASSUME prev = w.prev, i \notin damaged
          PROVE  VerifyChecksum(rec, prev)
      BY <3>2, <3>4 DEF VerifyChecksum
    <3>5. QED
      BY <3>3, <3>4 DEF w, rec
  <2>4. QED
    BY <2>2, <2>3, Zenon DEF ChecksumsTell, p
<1>2. QED
  BY <1>1, FileLaidOut, PTL
=============================================================================
