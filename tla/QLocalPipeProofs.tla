-------------------------- MODULE QLocalPipeProofs ---------------------------
(***************************************************************************)
(* For any number of threads, any chunk and any blocks: bytes are read     *)
(* once each, in the order they were written, and a flush ends when they   *)
(* have been.                                                              *)
(***************************************************************************)
EXTENDS QLocalPipe, FiniteSetTheorems, SequenceTheorems, WellFoundedInduction, TLAPS

\* What the pointers and the count of chunks say of the content.
Extents ==
  /\ clients = 2 => /\ Len(data) = (datachunks - 1) * Granularity + wptr
                    /\ rptr <= Len(data)
  /\ clients = 1 => data = <<>> /\ rptr = 0 /\ wptr = 0

\* The bytes that are there are those that have been written and not been read.
BytesAgree ==
  /\ got <= sent
  /\ empty => got = sent
  /\ clients = 2 => Numbers(Unread, got, sent)

\* What a flush waits for.
WriterLabels == {"idle", "rawflush", "flushtest", "flushgap", "flushasleep", "flushed"}
FlushesAgree == \A w \in Writers :
  /\ at[w] \in WriterLabels
  /\ at[w] \in {"idle", "rawflush"} => mark[w] = -1
  /\ at[w] \in {"flushtest", "flushgap", "flushasleep"} => mark[w] \in 0..sent
  /\ at[w] = "flushed" => mark[w] \in 0..got

\* What a reader wants, and how many of them are counted.
ReaderLabels == {"idle", "unlocked", "gap", "asleep", "woken", "polled"}
ReadersAgree ==
  /\ \A r \in Readers : /\ at[r] \in ReaderLabels
                        /\ at[r] # "idle" => want[r] > 0
                        /\ at[r] = "polled" => waiting[r] > 0
  /\ ~broken => newdatawaiters = Cardinality(InCall)

\* What holds however the pipe is used.
Base == TypeOK /\ Extents /\ BytesAgree /\ FlushesAgree /\ ReadersAgree

\* Used as the code bears it, there is no rubbish in the pipe, and the one reader finds
\* what it has counted.
Plain ==
  /\ ~broken
  /\ \A r, q \in Readers : at[r] # "idle" /\ at[q] # "idle" => r = q
  /\ \A r \in Readers : at[r] # "idle" => clients = 2 /\ waiting[r] <= Len(Unread)
  /\ clients = 2 => /\ Len(Unread) = sent - got
                    /\ \A i \in 1..Len(Unread) : Unread[i] = got + i

\* The inductive invariant.
IInv == Base /\ (~rough => Plain)
-----------------------------------------------------------------------------
\* Arithmetic of chunks.
LEMMA DivMod ==
  ASSUME NEW x \in Nat, NEW d \in Nat \ {0}
  PROVE  /\ x \div d \in Nat /\ x % d \in 0..(d - 1)
         /\ x = d * (x \div d) + (x % d) /\ d * (x \div d) \in Nat
  <1>1. x \div d \in Nat /\ x % d \in 0..(d - 1)
    OBVIOUS
  <1>2. x = d * (x \div d) + (x % d)
    OBVIOUS
  <1>3. d * (x \div d) \in Nat
    BY <1>1, <1>2
  <1>4. QED
    BY <1>1, <1>2, <1>3

\* Products with a chunk.
LEMMA Products ==
  ASSUME NEW d \in Nat \ {0}, NEW m \in Int, NEW n \in Int
  PROVE  /\ d * m \in Int /\ d * n \in Int /\ m * d = d * m
         /\ d * (m + n) = d * m + d * n /\ d * (m - n) = d * m - d * n
         /\ d * (m - 1) = d * m - d /\ d * (m + 1) = d * m + d
  <1>1. d * m \in Int /\ d * n \in Int /\ m * d = d * m
    OBVIOUS
  <1>2. d * (m + n) = d * m + d * n /\ d * (m - n) = d * m - d * n
    OBVIOUS
  <1>3. d * (m - 1) = d * m - d /\ d * (m + 1) = d * m + d
    OBVIOUS
  <1>4. QED
    BY <1>1, <1>2, <1>3

\* A larger number has no fewer chunks.
LEMMA ChunksInOrder ==
  ASSUME NEW d \in Nat \ {0}, NEW m \in Int, NEW n \in Int,
         NEW r \in 0..(d - 1), NEW t \in 0..(d - 1), d * m + r <= d * n + t
  PROVE  m <= n
  <1> SUFFICES ASSUME m >= n + 1 PROVE FALSE
    OBVIOUS
  <1>1. d * m >= d * (n + 1)
    OBVIOUS
  <1>2. d * (n + 1) = d * n + d /\ d * m \in Int /\ d * n \in Int
    BY Products
  <1>3. QED
    BY <1>1, <1>2

\* writeBlock() copies the whole block, and less than a chunk more.
LEMMA CopiedBounds ==
  ASSUME NEW len \in Nat \ {0}, NEW g \in Nat \ {0}, NEW w \in 0..(g - 1)
  PROVE  /\ Copied(len, w, g) \in Nat
         /\ len <= Copied(len, w, g) /\ Copied(len, w, g) <= len + (g - 1)
  <1> DEFINE first == Min2(len, g - w)
             round == Min2(len, g)
             x == len - first + round - 1
  <1>1. /\ first \in Nat /\ first <= len /\ round \in Nat \ {0} /\ round <= g
        /\ x \in Nat /\ x = len - first + round - 1
    BY DEF Min2
  <1>2. Copied(len, w, g) = first + round * (x \div round)
    BY DEF Copied
  <1> HIDE DEF first, round, x
  <1>3. /\ round * (x \div round) \in Nat /\ x % round \in 0..(round - 1)
        /\ x = round * (x \div round) + (x % round)
    BY <1>1, DivMod
  <1>4. QED
    BY <1>1, <1>2, <1>3

\* A block that fits is copied as it is.
LEMMA CopiedExactly ==
  ASSUME NEW len \in Nat \ {0}, NEW g \in Nat \ {0}, NEW w \in 0..(g - 1), Fits(len, w, g)
  PROVE  Copied(len, w, g) = len
  <1>1. CASE w + len <= g
    <2>1. Min2(len, g - w) = len /\ Min2(len, g) = len
      BY <1>1 DEF Min2
    <2>2. len - len + len - 1 = len - 1 /\ (len - 1) \div len = 0 /\ len + len * 0 = len
      OBVIOUS
    <2>3. QED
      BY <2>1, <2>2 DEF Copied
  <1>2. CASE w + len > g /\ (w + len) % g = 0
    <2>1. PICK k : k = (w + len) \div g
      OBVIOUS
    <2>2. k \in Nat /\ w + len = g * k /\ g * k \in Nat
      <3>1. w + len \in Nat
        OBVIOUS
      <3>2. /\ (w + len) \div g \in Nat /\ w + len = g * ((w + len) \div g) + ((w + len) % g)
            /\ g * ((w + len) \div g) \in Nat
        BY <3>1, DivMod
      <3>3. QED
        BY <1>2, <2>1, <3>2
    <2>3. g * (k - 1) = g * k - g
      BY <2>2, Products
    <2>4. len >= g
      <3>1. k >= 2
        <4>1. g * k + 0 <= g * 1 + 0 => FALSE
          BY <1>2, <2>2
        <4>2. ~(k <= 1)
          <5> SUFFICES ASSUME k <= 1 PROVE FALSE
            OBVIOUS
          <5>1. k = 0 \/ k = 1
            BY <2>2
          <5>2. g * k <= g
            BY <5>1
          <5>3. QED
            BY <1>2, <2>2, <5>2
        <4>3. QED
          BY <2>2, <4>2
      <3>2. g * k >= g * 2
        <4>1. g * k = g * 2 + g * (k - 2) /\ g * (k - 2) \in Nat
          BY <2>2, <3>1
        <4>2. QED
          BY <4>1
      <3>3. QED
        BY <2>2, <3>2
    <2>5. Min2(len, g - w) = g - w /\ Min2(len, g) = g
      BY <1>2, <2>4 DEF Min2
    <2>6. len - (g - w) + g - 1 = g * (k - 1) + (g - 1)
      BY <2>2, <2>3
    <2>7. (g * (k - 1) + (g - 1)) \div g = k - 1
      BY <2>2
    <2>8. QED
      BY <2>2, <2>3, <2>5, <2>6, <2>7 DEF Copied
  <1>3. QED
    BY <1>1, <1>2 DEF Fits
-----------------------------------------------------------------------------
\* Lists.
LEMMA DropProperties ==
  ASSUME NEW T, NEW s \in Seq(T), NEW k \in 0..Len(s)
  PROVE  /\ Drop(s, k) \in Seq(T) /\ Len(Drop(s, k)) = Len(s) - k /\ Len(s) \in Nat
         /\ \A i \in 1..(Len(s) - k) : Drop(s, k)[i] = s[k + i]
  <1> DEFINE b == Drop(s, k)
  <1>1. Len(s) \in Nat /\ k \in Nat /\ k <= Len(s)
    BY LenProperties
  <1>2. \A i \in (k + 1)..Len(s) : s[i] \in T
    BY <1>1, ElementOfSeq
  <1>3. /\ b \in Seq(T) /\ Len(b) = IF k + 1 <= Len(s) THEN Len(s) - (k + 1) + 1 ELSE 0
        /\ \A i \in 1..(Len(s) - (k + 1) + 1) : b[i] = s[(k + 1) + i - 1]
    BY <1>1, <1>2, SubSeqProperties DEF Drop
  <1> HIDE DEF b
  <1>4. Len(b) = Len(s) - k
    <2>1. Len(b) = IF k + 1 <= Len(s) THEN Len(s) - (k + 1) + 1 ELSE 0
      BY <1>3
    <2>2. QED
      BY <1>1, <2>1
  <1>5. ASSUME NEW i \in 1..(Len(s) - k) PROVE b[i] = s[k + i]
    <2>1. i \in 1..(Len(s) - (k + 1) + 1) /\ (k + 1) + i - 1 = k + i
      BY <1>1
    <2>2. b[i] = s[(k + 1) + i - 1]
      BY <1>3, <2>1
    <2>3. QED
      BY <2>1, <2>2
  <1>6. QED
    BY <1>1, <1>3, <1>4, <1>5 DEF b

\* Elements dropped in two goes are dropped in one.
LEMMA DropDrop ==
  ASSUME NEW T, NEW s \in Seq(T), NEW k \in 0..Len(s), NEW n \in 0..(Len(s) - k)
  PROVE  Drop(Drop(s, k), n) = Drop(s, k + n)
  <1>1. /\ Drop(s, k) \in Seq(T) /\ Len(Drop(s, k)) = Len(s) - k /\ Len(s) \in Nat
        /\ \A i \in 1..(Len(s) - k) : Drop(s, k)[i] = s[k + i]
    BY DropProperties
  <1>2. k + n \in 0..Len(s)
    BY <1>1
  <1>3. /\ Drop(s, k + n) \in Seq(T) /\ Len(Drop(s, k + n)) = Len(s) - (k + n)
        /\ \A i \in 1..(Len(s) - (k + n)) : Drop(s, k + n)[i] = s[(k + n) + i]
    BY <1>2, DropProperties
  <1> DEFINE q == Drop(s, k)
  <1> HIDE DEF q
  <1>4. /\ q \in Seq(T) /\ Len(q) = Len(s) - k
        /\ \A i \in 1..(Len(s) - k) : q[i] = s[k + i]
    BY <1>1 DEF q
  <1>5. n \in 0..Len(q)
    BY <1>4
  <1>6. /\ Drop(q, n) \in Seq(T) /\ Len(Drop(q, n)) = Len(q) - n
        /\ \A i \in 1..(Len(q) - n) : Drop(q, n)[i] = q[n + i]
    BY <1>4, <1>5, DropProperties
  <1>7. Len(Drop(q, n)) = Len(Drop(s, k + n))
    <2>1. Len(Drop(q, n)) = (Len(s) - k) - n
      BY <1>4, <1>6
    <2>2. Len(Drop(s, k + n)) = Len(s) - (k + n)
      BY <1>3
    <2>3. Len(s) \in Int /\ k \in Int /\ n \in Int
      BY <1>1
    <2>4. QED
      BY <2>1, <2>2, <2>3
  <1>8. ASSUME NEW i \in 1..(Len(s) - (k + n)) PROVE Drop(q, n)[i] = Drop(s, k + n)[i]
    <2>1. i \in 1..(Len(q) - n) /\ n + i \in 1..(Len(s) - k) /\ k + (n + i) = (k + n) + i
      BY <1>1, <1>4
    <2>2. Drop(q, n)[i] = q[n + i] /\ q[n + i] = s[k + (n + i)]
      BY <1>4, <1>6, <2>1
    <2>3. QED
      BY <1>3, <2>1, <2>2
  <1>9. Drop(q, n) = Drop(s, k + n)
    BY <1>3, <1>6, <1>7, <1>8, SeqEqual
  <1>10. QED
    BY <1>9 DEF q

\* What is dropped is dropped from the front, whatever is appended.
LEMMA DropConcat ==
  ASSUME NEW T, NEW s \in Seq(T), NEW x \in Seq(T), NEW k \in 0..Len(s)
  PROVE  Drop(s \o x, k) = Drop(s, k) \o x
  <1> DEFINE c == s \o x
             q == Drop(s, k)
  <1>1. /\ q \in Seq(T) /\ Len(q) = Len(s) - k /\ Len(s) \in Nat /\ Len(x) \in Nat
        /\ \A i \in 1..(Len(s) - k) : q[i] = s[k + i]
    BY DropProperties, LenProperties
  <1>2. /\ c \in Seq(T) /\ Len(c) = Len(s) + Len(x)
        /\ \A i \in 1..(Len(s) + Len(x)) : c[i] = IF i <= Len(s) THEN s[i] ELSE x[i - Len(s)]
    BY ConcatProperties
  <1> HIDE DEF c, q
  <1>3. /\ q \o x \in Seq(T) /\ Len(q \o x) = Len(q) + Len(x)
        /\ \A i \in 1..(Len(q) + Len(x)) : (q \o x)[i] = IF i <= Len(q) THEN q[i] ELSE x[i - Len(q)]
    BY <1>1, ConcatProperties
  <1>4. k \in 0..Len(c)
    BY <1>1, <1>2
  <1>5. /\ Drop(c, k) \in Seq(T) /\ Len(Drop(c, k)) = Len(c) - k
        /\ \A i \in 1..(Len(c) - k) : Drop(c, k)[i] = c[k + i]
    BY <1>2, <1>4, DropProperties
  <1>6. Len(Drop(c, k)) = Len(q \o x)
    BY <1>1, <1>2, <1>3, <1>5
  <1>7. ASSUME NEW i \in 1..(Len(q) + Len(x)) PROVE Drop(c, k)[i] = (q \o x)[i]
    <2>1. i \in 1..(Len(c) - k) /\ k + i \in 1..(Len(s) + Len(x))
      BY <1>1, <1>2
    <2>2. Drop(c, k)[i] = IF k + i <= Len(s) THEN s[k + i] ELSE x[(k + i) - Len(s)]
      BY <1>2, <1>5, <2>1
    <2>3. CASE i <= Len(q)
      <3>1. k + i <= Len(s) /\ i \in 1..(Len(s) - k)
        BY <1>1, <2>3
      <3>2. QED
        BY <1>1, <1>3, <2>2, <2>3, <3>1
    <2>4. CASE i > Len(q)
      <3>1. ~(k + i <= Len(s)) /\ (k + i) - Len(s) = i - Len(q)
        BY <1>1, <2>4
      <3>2. ~(i <= Len(q))
        BY <1>1, <2>4
      <3>3. QED
        BY <1>3, <2>2, <3>1, <3>2
    <2>5. QED
      BY <1>1, <2>3, <2>4
  <1>8. Drop(c, k) = q \o x
    BY <1>3, <1>5, <1>6, <1>7, SeqEqual
  <1>9. QED
    BY <1>8 DEF c, q
-----------------------------------------------------------------------------
\* The block that a write of len adds: its bytes, and rubbish up to n.
Block(n, len, b) == [i \in 1..n |-> IF i <= len THEN b + i ELSE 0]

\* A block is a list of bytes, the caller's and then rubbish.
LEMMA BlockProperties ==
  ASSUME NEW n \in Nat, NEW len \in 0..n, NEW b \in Nat, NEW m \in Nat, b + len <= m
  PROVE  /\ Block(n, len, b) \in Seq(0..m) /\ Len(Block(n, len, b)) = n
         /\ \A i \in 1..n : Block(n, len, b)[i] = IF i <= len THEN b + i ELSE 0
  <1> DEFINE x == Block(n, len, b)
  <1>1. x \in [1..n -> 0..m] /\ DOMAIN x = 1..n
    BY DEF Block
  <1>2. x \in Seq(0..m)
    BY <1>1, SeqDef
  <1>3. Len(x) = n
    <2>1. DOMAIN x = 1..Len(x) /\ Len(x) \in Nat
      BY <1>2, LenProperties
    <2>2. QED
      BY <1>1, <2>1
  <1>4. \A i \in 1..n : x[i] = IF i <= len THEN b + i ELSE 0
    BY DEF Block
  <1>5. QED
    BY <1>2, <1>3, <1>4

\* A block that is appended brings the next numbers, in order.
LEMMA NumbersWritten ==
  ASSUME NEW m \in Nat, NEW q \in Seq(0..m), NEW a \in Nat, NEW b \in Nat, a <= b,
         Numbers(q, a, b), NEW n \in Nat, NEW len \in 0..n, b + len <= m
  PROVE  Numbers(q \o Block(n, len, b), a, b + len)
  <1> DEFINE x == Block(n, len, b)
             c == q \o x
  <1>1. /\ x \in Seq(0..m) /\ Len(x) = n
        /\ \A i \in 1..n : x[i] = IF i <= len THEN b + i ELSE 0
    <2>1. x \in Seq(0..m)
      BY BlockProperties
    <2>2. Len(x) = n
      BY BlockProperties
    <2>3. \A i \in 1..n : x[i] = IF i <= len THEN b + i ELSE 0
      BY DEF Block
    <2>4. QED
      BY <2>1, <2>2, <2>3
  <1> HIDE DEF x
  <1>2. /\ c \in Seq(0..m) /\ Len(c) = Len(q) + n /\ Len(q) \in Nat
        /\ \A i \in 1..(Len(q) + n) : c[i] = IF i <= Len(q) THEN q[i] ELSE x[i - Len(q)]
    BY <1>1, ConcatProperties, LenProperties
  <1> HIDE DEF c
  <1>3. \A i \in 1..Len(q) : i \in 1..Len(c) /\ c[i] = q[i]
    BY <1>2
  <1>4. ASSUME NEW i \in 1..Len(c), i > Len(q)
        PROVE  /\ i - Len(q) \in 1..n
               /\ c[i] = IF i - Len(q) <= len THEN b + (i - Len(q)) ELSE 0
    <2>1. i - Len(q) \in 1..n /\ ~(i <= Len(q))
      BY <1>2, <1>4
    <2>2. c[i] = x[i - Len(q)]
      BY <1>2, <2>1
    <2>3. QED
      BY <1>1, <2>1, <2>2
  <1>5. ASSUME NEW i \in 1..Len(c), NEW j \in 1..Len(c), c[i] # 0, c[j] # 0, i < j
        PROVE  c[i] < c[j]
    <2>1. CASE j <= Len(q)
      <3>1. i \in 1..Len(q) /\ j \in 1..Len(q)
        BY <1>2, <1>5, <2>1
      <3>2. QED
        BY <1>3, <1>5, <3>1 DEF Numbers
    <2>2. CASE i <= Len(q) /\ j > Len(q)
      <3>1. i \in 1..Len(q)
        BY <1>2, <2>2
      <3>2. c[i] \in (a + 1)..b
        BY <1>3, <1>5, <3>1 DEF Numbers
      <3>3. c[j] = b + (j - Len(q)) /\ j - Len(q) \in 1..n
        BY <1>4, <1>5, <2>2
      <3>4. QED
        BY <3>2, <3>3
    <2>3. CASE i > Len(q) /\ j > Len(q)
      <3>1. /\ c[i] = b + (i - Len(q)) /\ c[j] = b + (j - Len(q))
            /\ i \in Int /\ j \in Int /\ Len(q) \in Int
        BY <1>2, <1>4, <1>5, <2>3
      <3>2. QED
        BY <1>5, <3>1
    <2>4. QED
      BY <1>2, <1>5, <2>1, <2>2, <2>3
  <1>6. ASSUME NEW i \in 1..Len(c), c[i] # 0 PROVE c[i] \in (a + 1)..(b + len)
    <2>1. CASE i <= Len(q)
      <3>1. i \in 1..Len(q)
        BY <1>2, <2>1
      <3>2. c[i] \in (a + 1)..b
        BY <1>3, <1>6, <3>1 DEF Numbers
      <3>3. QED
        BY <3>2
    <2>2. CASE i > Len(q)
      BY <1>4, <1>6, <2>2
    <2>3. QED
      BY <1>2, <2>1, <2>2
  <1>7. ASSUME NEW k \in (a + 1)..(b + len) PROVE \E i \in 1..Len(c) : c[i] = k
    <2>1. CASE k <= b
      <3>1. k \in (a + 1)..b
        BY <2>1
      <3>2. PICK i \in 1..Len(q) : q[i] = k
        BY <3>1 DEF Numbers
      <3>3. QED
        BY <1>3, <3>2
    <2>2. CASE k > b
      <3>1. Len(q) + (k - b) \in 1..Len(c) /\ (Len(q) + (k - b)) - Len(q) = k - b
            /\ Len(q) + (k - b) > Len(q) /\ k - b <= len
        BY <1>2, <2>2
      <3>2. c[Len(q) + (k - b)] = b + (k - b)
        BY <1>4, <3>1
      <3>3. QED
        BY <3>1, <3>2
    <2>3. QED
      BY <2>1, <2>2
  <1>8. Numbers(c, a, b + len)
    BY <1>5, <1>6, <1>7 DEF Numbers
  <1>9. QED
    BY <1>8 DEF c, x

\* g is the last number in the first len elements, or a if there is none.
LastTaken(q, len, a, g) ==
  \/ (\A i \in 1..len : q[i] = 0) /\ g = a
  \/ \E k \in 1..len : q[k] # 0 /\ g = q[k] /\ \A i \in 1..len : q[i] # 0 => i <= k

\* What the first len elements of the list are, and what stays.
LEMMA NumbersTaken ==
  ASSUME NEW m \in Nat, NEW q \in Seq(0..m), NEW a \in Nat, NEW b \in Nat, a <= b,
         Numbers(q, a, b), NEW len \in 0..Len(q), NEW g, LastTaken(q, len, a, g)
  PROVE  g \in a..b /\ Numbers(Drop(q, len), g, b)
  <1> DEFINE d == Drop(q, len)
  <1>1. /\ Len(q) \in Nat /\ len \in Nat /\ len <= Len(q) /\ Len(d) = Len(q) - len
        /\ \A i \in 1..(Len(q) - len) : d[i] = q[len + i]
    <2>1. /\ Drop(q, len) \in Seq(0..m) /\ Len(Drop(q, len)) = Len(q) - len /\ Len(q) \in Nat
          /\ \A i \in 1..(Len(q) - len) : Drop(q, len)[i] = q[len + i]
      BY DropProperties, Zenon
    <2>2. QED
      BY <2>1
  <1> HIDE DEF d
  <1>2. \A i \in 1..Len(d) : len + i \in 1..Len(q) /\ d[i] = q[len + i]
    BY <1>1
  <1>3. \A i \in 1..Len(q) : i > len => i - len \in 1..Len(d) /\ len + (i - len) = i
    BY <1>1
  <1>4. \A i \in 1..Len(q) : q[i] \in 0..m
    BY ElementOfSeq
  <1>5. g \in a..b
    BY <1>1 DEF Numbers, LastTaken
  \* Everything up to len is g at most, and everything after it more.
  <1>6. ASSUME NEW i \in 1..Len(q), q[i] # 0 PROVE i <= len <=> q[i] <= g
    <2>1. CASE (\A k \in 1..len : q[k] = 0) /\ g = a
      <3>1. q[i] \in (a + 1)..b
        BY <1>6 DEF Numbers
      <3>2. ~(i <= len)
        BY <1>1, <1>6, <2>1
      <3>3. QED
        BY <2>1, <3>1, <3>2
    <2>2. CASE \E k \in 1..len : q[k] # 0 /\ g = q[k] /\ \A j \in 1..len : q[j] # 0 => j <= k
      <3>1. PICK k \in 1..len : q[k] # 0 /\ g = q[k] /\ \A j \in 1..len : q[j] # 0 => j <= k
        BY <2>2
      <3>2. k \in 1..Len(q) /\ q[k] \in Nat /\ q[i] \in Nat
        BY <1>1, <1>4, <3>1
      <3>3. CASE i <= len
        <4>1. i \in 1..len /\ i <= k
          BY <1>1, <1>6, <3>1, <3>3
        <4>2. ASSUME i # k PROVE q[i] < q[k]
          <5>1. i < k
            BY <4>1, <4>2
          <5>2. QED
            BY <1>6, <3>1, <3>2, <5>1 DEF Numbers
        <4>3. QED
          BY <3>1, <3>2, <3>3, <4>2
      <3>4. CASE i > len
        <4>1. k < i
          BY <1>1, <3>4
        <4>2. q[k] < q[i]
          BY <1>6, <3>1, <3>2, <4>1 DEF Numbers
        <4>3. QED
          BY <1>1, <3>1, <3>2, <3>4, <4>2
      <3>5. QED
        BY <1>1, <3>3, <3>4
    <2>3. QED
      BY <2>1, <2>2 DEF LastTaken
  <1>7. Numbers(d, g, b)
    <2>1. ASSUME NEW i \in 1..Len(d), NEW j \in 1..Len(d), d[i] # 0, d[j] # 0, i < j
          PROVE  d[i] < d[j]
      <3>1. len + i < len + j
        BY <1>1, <2>1
      <3>2. QED
        BY <1>2, <2>1, <3>1 DEF Numbers
    <2>2. ASSUME NEW i \in 1..Len(d), d[i] # 0 PROVE d[i] \in (g + 1)..b
      <3>1. len + i \in 1..Len(q) /\ d[i] = q[len + i] /\ ~(len + i <= len)
        BY <1>1, <1>2
      <3>2. d[i] \in (a + 1)..b /\ ~(d[i] <= g)
        BY <1>6, <2>2, <3>1 DEF Numbers
      <3>3. QED
        BY <1>5, <3>2
    <2>3. ASSUME NEW n \in (g + 1)..b PROVE \E i \in 1..Len(d) : d[i] = n
      <3>1. n \in (a + 1)..b /\ n # 0 /\ ~(n <= g)
        BY <1>5
      <3>2. PICK i \in 1..Len(q) : q[i] = n
        BY <3>1 DEF Numbers
      <3>3. i > len
        BY <1>1, <1>6, <3>1, <3>2
      <3>4. QED
        BY <1>2, <1>3, <3>2, <3>3
    <2>4. QED
      BY <2>1, <2>2, <2>3 DEF Numbers
  <1>8. QED
    BY <1>5, <1>7 DEF d

\* An empty list: there is nothing between a and b.
LEMMA NumbersOfNothing ==
  ASSUME NEW q, Len(q) = 0, NEW a \in Int, NEW b \in Int, a <= b, Numbers(q, a, b)
  PROVE  a = b
  <1> SUFFICES ASSUME a < b PROVE FALSE
    OBVIOUS
  <1>1. b \in (a + 1)..b
    OBVIOUS
  <1>2. QED
    BY <1>1 DEF Numbers
-----------------------------------------------------------------------------
\* The smallest element of a set of naturals, and the largest up to n.
LEMMA Smallest ==
  ASSUME NEW S, S \subseteq Nat, S # {}
  PROVE  \E x \in S : \A y \in S : x <= y
  <1>1. \E x \in S : \A y \in S : <<y, x>> \notin OpToRel(<, Nat)
    BY NatLessThanWellFounded, WFMin
  <1>2. \A x, y \in Nat : <<y, x>> \notin OpToRel(<, Nat) => x <= y
    BY DEF OpToRel
  <1>3. QED
    BY <1>1, <1>2

\* A set of numbers that is bounded and not empty has a largest one, which Max finds.
LEMMA Largest ==
  ASSUME NEW n \in Nat, NEW S, S \subseteq 1..n, S # {}
  PROVE  Max(S) \in S /\ \A y \in S : y <= Max(S)
  <1> DEFINE T == {n - x : x \in S}
  <1>1. T \subseteq Nat /\ T # {}
    <2>1. \A x \in S : n - x \in Nat
      OBVIOUS
    <2>2. PICK x : x \in S
      OBVIOUS
    <2>3. n - x \in T
      BY <2>2
    <2>4. QED
      BY <2>1, <2>3
  <1>2. PICK t \in T : \A u \in T : t <= u
    BY <1>1, Smallest
  <1>3. PICK x \in S : t = n - x
    BY <1>2
  <1>4. \A y \in S : x >= y
    <2> SUFFICES ASSUME NEW y \in S PROVE x >= y
      OBVIOUS
    <2>1. n - x <= n - y
      BY <1>2, <1>3
    <2>2. QED
      BY <1>3, <2>1
  <1>5. \E z \in S : \A y \in S : z >= y
    BY <1>3, <1>4
  <1>6. Max(S) \in S /\ \A y \in S : Max(S) >= y
    BY <1>5 DEF Max
  <1>7. QED
    BY <1>6
-----------------------------------------------------------------------------
\* What reading does to the chunks, if it stays within them.
LEMMA TakeMoves ==
  ASSUME TypeOK, Extents, NEW r \in Readers, NEW len \in 1..MaxLen, Take(r, len),
         rptr + len <= Len(data), UNCHANGED clients
  PROVE  /\ clients = 2 /\ Extents' /\ data' \in Seq(0..MaxBytes)
         /\ rptr' \in 0..(Granularity - 1) /\ wptr' \in 0..(Granularity - 1)
         /\ datachunks' \in Nat \ {0}
         /\ Unread \in Seq(0..MaxBytes) /\ len \in 1..Len(Unread) /\ Unread' = Drop(Unread, len)
         /\ \A i \in 1..len : Unread[i] = data[rptr + i]
         /\ Drained(len) => Unread' = <<>>
  <1>1. /\ data \in Seq(0..MaxBytes) /\ rptr \in 0..(Granularity - 1) /\ wptr \in 0..(Granularity - 1)
        /\ datachunks \in Nat \ {0} /\ clients \in {1, 2} /\ Granularity \in Nat \ {0}
        /\ len \in Nat \ {0} /\ Len(data) \in Nat
    BY QLocalPipeAssumption, LenProperties DEF TypeOK
  <1>2. clients = 2
    <2>1. CASE clients = 1
      <3>1. data = <<>> /\ rptr = 0
        BY <2>1 DEF Extents
      <3>2. Len(data) = 0
        BY <3>1, EmptySeq
      <3>3. QED
        BY <1>1, <3>1, <3>2
    <2>2. QED
      BY <1>1, <2>1
  <1>3. Len(data) = (datachunks - 1) * Granularity + wptr /\ rptr <= Len(data)
    BY <1>2 DEF Extents
  <1>4. PICK e : e = rptr + len
    OBVIOUS
  <1>5. PICK q : q = e \div Granularity
    OBVIOUS
  <1>6. PICK m : m = e % Granularity
    OBVIOUS
  <1>7. e \in Nat /\ e <= Len(data)
    BY <1>1, <1>4
  <1>8. /\ q \in Nat /\ m \in 0..(Granularity - 1) /\ Granularity * q \in Nat
        /\ e = Granularity * q + m
    BY <1>1, <1>5, <1>6, <1>7, DivMod
  <1>9. /\ Granularity * (datachunks - 1) \in Int
        /\ (datachunks - 1) * Granularity = Granularity * (datachunks - 1)
        /\ Granularity * ((datachunks - 1) - q) = Granularity * (datachunks - 1) - Granularity * q
        /\ ((datachunks - 1) - q) * Granularity = Granularity * ((datachunks - 1) - q)
    <2>1. datachunks - 1 \in Int /\ (datachunks - 1) - q \in Int /\ q \in Int
      BY <1>1, <1>8
    <2>2. QED
      BY <1>1, <2>1, Products
  <1>10. q <= datachunks - 1
    <2>1. Granularity * q + m <= Granularity * (datachunks - 1) + wptr
      BY <1>3, <1>7, <1>8, <1>9
    <2>2. QED
      BY <1>1, <1>8, <2>1, ChunksInOrder
  <1>11. Drained(len) <=> datachunks = 1 + q /\ m = wptr
    BY <1>4, <1>5, <1>6 DEF Drained
  <1>12. /\ datachunks' = datachunks - q
         /\ data' = IF Drained(len) THEN <<>> ELSE Drop(data, e - m)
         /\ rptr' = IF Drained(len) THEN 0 ELSE m
         /\ wptr' = IF Drained(len) THEN 0 ELSE wptr
    <2>1. /\ datachunks' = datachunks - ((rptr + len) \div Granularity)
          /\ data' = IF Drained(len) THEN <<>>
                     ELSE Drop(data, (rptr + len) - ((rptr + len) % Granularity))
          /\ rptr' = IF Drained(len) THEN 0 ELSE (rptr + len) % Granularity
          /\ wptr' = IF Drained(len) THEN 0 ELSE wptr
      <3>1. ~(rptr + len > Len(data))
        BY <1>1
      <3>2. QED
        BY <3>1, Zenon DEF Take, KeptFrom
    <2>2. QED
      BY <1>4, <1>5, <1>6, <2>1 DEF Drop
  <1>13. datachunks' \in Nat \ {0}
    BY <1>1, <1>8, <1>10, <1>12
  <1>14. e - m \in 0..Len(data) /\ e - m = Granularity * q
    BY <1>7, <1>8
  <1>15. /\ Drop(data, e - m) \in Seq(0..MaxBytes) /\ Len(Drop(data, e - m)) = Len(data) - (e - m)
    BY <1>1, <1>14, DropProperties
  <1>16. data' \in Seq(0..MaxBytes)
    BY <1>12, <1>15, EmptySeq
  <1>17. rptr' \in 0..(Granularity - 1) /\ wptr' \in 0..(Granularity - 1)
    BY <1>1, <1>8, <1>12
  <1>18. Extents'
    <2>1. CASE Drained(len)
      <3>1. data' = <<>> /\ rptr' = 0 /\ wptr' = 0 /\ datachunks' = 1
        BY <1>1, <1>8, <1>11, <1>12, <2>1
      <3>2. Len(data') = 0 /\ 0 * Granularity = 0
        BY <1>1, <3>1, EmptySeq
      <3>3. QED
        BY <3>1, <3>2, <1>1, <1>2 DEF Extents
    <2>2. CASE ~Drained(len)
      <3>1. data' = Drop(data, e - m) /\ rptr' = m /\ wptr' = wptr
        BY <1>12, <2>2
      <3>2. Len(data') = Len(data) - Granularity * q
        BY <1>14, <1>15, <3>1
      <3>3. (datachunks' - 1) * Granularity = Granularity * (datachunks - 1) - Granularity * q
        <4>1. datachunks' - 1 = (datachunks - 1) - q
          BY <1>1, <1>8, <1>12
        <4>2. QED
          BY <1>9, <4>1
      <3>4. Len(data') = (datachunks' - 1) * Granularity + wptr'
        BY <1>1, <1>3, <1>8, <1>9, <3>1, <3>2, <3>3
      <3>5. rptr' <= Len(data')
        BY <1>1, <1>7, <1>8, <3>1, <3>2
      <3>6. QED
        BY <1>2, <3>4, <3>5 DEF Extents
    <2>3. QED
      BY <2>1, <2>2
  <1>19. /\ Unread \in Seq(0..MaxBytes) /\ Len(Unread) = Len(data) - rptr
         /\ \A i \in 1..(Len(data) - rptr) : Unread[i] = data[rptr + i]
    <2>1. rptr \in 0..Len(data)
      BY <1>1, <1>3
    <2>2. QED
      BY <1>1, <2>1, DropProperties DEF Unread
  <1>20. len \in 1..Len(Unread) /\ 1..len \subseteq 1..(Len(data) - rptr)
    BY <1>1, <1>4, <1>7, <1>19
  <1>21. Drop(Unread, len) = Drop(data, e)
    <2>1. rptr \in 0..Len(data) /\ len \in 0..(Len(data) - rptr)
      BY <1>1, <1>3, <1>4, <1>7
    <2>2. QED
      BY <1>1, <1>4, <2>1, DropDrop DEF Unread
  <1>22. Unread' = Drop(Unread, len) /\ (Drained(len) => Unread' = <<>>)
    <2>1. CASE Drained(len)
      <3>1. Unread' = <<>>
        <4>1. data' = <<>> /\ rptr' = 0
          BY <1>12, <2>1
        <4>2. Unread' = SubSeq(<<>>, 0 + 1, Len(<<>>)) /\ Len(<<>>) = 0
          BY <4>1, EmptySeq DEF Unread, Drop
        <4>3. QED
          BY <4>2, SubSeqEmpty
      <3>2. e = Len(data)
        BY <1>1, <1>3, <1>8, <1>9, <1>11, <2>1
      <3>3. Drop(data, e) = <<>>
        BY <1>1, <3>2, SubSeqEmpty DEF Drop
      <3>4. QED
        BY <1>21, <3>1, <3>3
    <2>2. CASE ~Drained(len)
      <3>1. Unread' = Drop(Drop(data, e - m), m)
        BY <1>12, <2>2 DEF Unread
      <3>2. m \in 0..(Len(data) - (e - m)) /\ (e - m) + m = e
        BY <1>7, <1>8
      <3>3. Drop(Drop(data, e - m), m) = Drop(data, e)
        BY <1>1, <1>14, <3>2, DropDrop
      <3>4. QED
        BY <1>21, <2>2, <3>1, <3>3
    <2>3. QED
      BY <2>1, <2>2
  <1>23. \A i \in 1..len : Unread[i] = data[rptr + i]
    BY <1>19, <1>20
  <1>24. QED
    BY <1>2, <1>13, <1>16, <1>17, <1>18, <1>19, <1>20, <1>22, <1>23
-----------------------------------------------------------------------------
\* A reader enters or leaves readBlock().
LEMMA CallCounts ==
  ASSUME NEW r \in Readers, NEW C, C \subseteq Readers
  PROVE  /\ Cardinality(C) \in 0..Cardinality(Readers)
         /\ Cardinality(C \cup {r}) \in 1..Cardinality(Readers)
         /\ Cardinality(C \ {r}) = Cardinality(C \cup {r}) - 1
         /\ r \notin C => Cardinality(C \cup {r}) = Cardinality(C) + 1
         /\ r \in C => Cardinality(C \cup {r}) = Cardinality(C)
         /\ Cardinality(Readers) \in Nat
  <1> DEFINE A == C \cup {r}
             R == C \ {r}
  <1>1. IsFiniteSet(Readers) /\ A \subseteq Readers /\ R \subseteq Readers
    BY QLocalPipeAssumption
  <1>2. IsFiniteSet(A) /\ IsFiniteSet(R) /\ IsFiniteSet(C)
    BY <1>1, FS_Subset
  <1>3. /\ Cardinality(A) \in Nat /\ Cardinality(R) \in Nat /\ Cardinality(C) \in Nat
        /\ Cardinality(Readers) \in Nat
        /\ Cardinality(A) <= Cardinality(Readers) /\ Cardinality(C) <= Cardinality(Readers)
    BY <1>1, <1>2, FS_CardinalityType, FS_Subset
  <1>4. R \cup {r} = A /\ r \notin R
    OBVIOUS
  <1>5. Cardinality(A) = Cardinality(R) + 1
    <2> HIDE DEF A, R
    <2>1. Cardinality(R \cup {r}) = Cardinality(R) + 1
      BY <1>2, <1>4, FS_AddElement
    <2>2. QED
      BY <1>4, <2>1
  <1>6. r \notin C => C = R
    OBVIOUS
  <1>7. r \in C => C = A
    OBVIOUS
  <1> HIDE DEF A, R
  <1>8. /\ r \notin C => Cardinality(A) = Cardinality(C) + 1
        /\ r \in C => Cardinality(A) = Cardinality(C)
    BY <1>5, <1>6, <1>7
  <1>9. QED
    BY <1>3, <1>5, <1>8 DEF A, R

\* The last own byte that is taken is the one that got becomes.
LEMMA TakeLast ==
  ASSUME TypeOK, NEW r \in Readers, NEW len \in 1..MaxLen, Take(r, len),
         rptr + len <= Len(data), \A i \in 1..len : Unread[i] = data[rptr + i]
  PROVE  LastTaken(Unread, len, got, got')
  <1> DEFINE own == {i \in (rptr + 1)..(rptr + len) : data[i] # 0}
  <1>1. rptr \in Nat /\ len \in Nat /\ rptr + len \in Nat /\ Len(data) \in Nat
    BY QLocalPipeAssumption, LenProperties DEF TypeOK
  <1>2. got' = IF own = {} THEN got ELSE data[Max(own)]
    <2>1. ~(rptr + len > Len(data))
      BY <1>1
    <2>2. QED
      BY <2>1, Zenon DEF Take
  <1>3. \A i \in 1..len : rptr + i \in (rptr + 1)..(rptr + len) /\ Unread[i] = data[rptr + i]
    BY <1>1
  <1>4. CASE own = {}
    <2>1. \A i \in 1..len : Unread[i] = 0
      BY <1>3, <1>4
    <2>2. QED
      BY <1>2, <1>4, <2>1 DEF LastTaken
  <1>5. CASE own # {}
    <2>1. own \subseteq 1..(rptr + len)
      BY <1>1
    <2>2. Max(own) \in own /\ \A i \in own : i <= Max(own)
      BY <1>1, <1>5, <2>1, Largest
    <2>3. PICK x : x = Max(own)
      OBVIOUS
    <2>4. /\ x \in (rptr + 1)..(rptr + len) /\ data[x] # 0 /\ got' = data[x]
          /\ \A i \in own : i <= x
      BY <1>2, <1>5, <2>2, <2>3
    <2>5. PICK k \in 1..len : k = x - rptr /\ rptr + k = x
      <3>1. x - rptr \in 1..len /\ rptr + (x - rptr) = x
        BY <1>1, <2>4
      <3>2. QED
        BY <3>1
    <2>6. Unread[k] # 0 /\ got' = Unread[k]
      BY <1>3, <2>4, <2>5
    <2>7. ASSUME NEW i \in 1..len, Unread[i] # 0 PROVE i <= k
      <3>1. rptr + i \in own
        BY <1>3, <2>7
      <3>2. rptr + i <= rptr + k
        BY <2>4, <2>5, <3>1
      <3>3. QED
        BY <1>1, <3>2
    <2>8. QED
      BY <2>6, <2>7 DEF LastTaken
  <1>6. QED
    BY <1>4, <1>5

\* The end of readBlock() takes the next numbers, or reads memory that is not the pipe's.
LEMMA StepTake ==
  ASSUME Base, ~broken, NEW r \in Readers, NEW len \in 1..MaxLen, Take(r, len),
         newdata' \in BOOLEAN, newdatawaiters' = Cardinality(InCall \cup {r}) - 1,
         UNCHANGED <<clients, raw, p, sent, mark>>, rough' \in BOOLEAN
  PROVE  Base'
  <1>1. TypeOK /\ Extents /\ BytesAgree /\ FlushesAgree /\ ReadersAgree
    BY DEF Base
  <1>2. /\ InCall \subseteq Readers /\ Cardinality(InCall \cup {r}) \in 1..Cardinality(Readers)
        /\ Cardinality(InCall \ {r}) = Cardinality(InCall \cup {r}) - 1
        /\ Cardinality(Readers) \in Nat
    <2>1. InCall \subseteq Readers
      BY DEF InCall
    <2>2. QED
      BY <2>1, CallCounts
  <1>3. newdatawaiters' \in 0..Cardinality(Readers) /\ newdatawaiters' = Cardinality(InCall \ {r})
    BY <1>2
  <1>4. CASE rptr + len > Len(data)
    <2>1. broken' = TRUE /\ UNCHANGED <<data, rptr, wptr, datachunks, empty, got, missed, at, want, waiting>>
      <3>1. ~(rptr + len <= Len(data))
        <4>1. rptr \in Int /\ len \in Int /\ Len(data) \in Int
          BY <1>1, QLocalPipeAssumption, LenProperties DEF TypeOK
        <4>2. QED
          BY <1>4, <4>1
      <3>2. QED
        BY <3>1, Zenon DEF Take, buffer
    <2>2. TypeOK'
      BY <1>1, <1>3, <2>1 DEF TypeOK
    <2>3. Extents' /\ BytesAgree' /\ FlushesAgree' /\ ReadersAgree'
      BY <1>1, <2>1 DEF Extents, BytesAgree, Numbers, Unread, FlushesAgree, ReadersAgree
    <2>4. QED
      BY <2>2, <2>3 DEF Base
  <1>5. CASE rptr + len <= Len(data)
    <2>1. /\ clients = 2 /\ Extents' /\ data' \in Seq(0..MaxBytes)
          /\ rptr' \in 0..(Granularity - 1) /\ wptr' \in 0..(Granularity - 1)
          /\ datachunks' \in Nat \ {0}
          /\ Unread \in Seq(0..MaxBytes) /\ len \in 1..Len(Unread) /\ Unread' = Drop(Unread, len)
          /\ \A i \in 1..len : Unread[i] = data[rptr + i]
          /\ Drained(len) => Unread' = <<>>
      BY <1>1, <1>5, TakeMoves
    <2>2. /\ empty' = (empty \/ Drained(len))
          /\ missed' = \/ missed
                       \/ Drained(len) /\ ~empty /\ \E w \in Writers : at[w] = "flushgap"
          /\ at' = [t \in DOMAIN at |->
                      IF t = r THEN "idle"
                      ELSE IF Drained(len) /\ ~empty /\ at[t] = "flushasleep" THEN "flushed"
                      ELSE at[t]]
          /\ want' = [want EXCEPT ![r] = 0] /\ waiting' = [waiting EXCEPT ![r] = 0]
          /\ broken' = broken
      <3>1. ~(rptr + len > Len(data))
        <4>1. rptr \in Int /\ len \in Int /\ Len(data) \in Int
          BY <1>1, QLocalPipeAssumption, LenProperties DEF TypeOK
        <4>2. QED
          BY <1>5, <4>1
      <3>2. QED
        BY <3>1, Zenon DEF Take
    <2>3. /\ got \in Nat /\ sent \in Nat /\ got <= sent /\ sent \in 0..MaxBytes
          /\ Numbers(Unread, got, sent) /\ MaxBytes \in Nat
      BY <1>1, <2>1, QLocalPipeAssumption DEF TypeOK, BytesAgree
    <2>4. got' \in got..sent /\ Numbers(Unread', got', sent)
      <3>1. PICK g : g = got'
        OBVIOUS
      <3>2. LastTaken(Unread, len, got, g)
        BY <1>1, <1>5, <2>1, <3>1, TakeLast
      <3>3. PICK q \in Seq(0..MaxBytes) : q = Unread
        BY <2>1
      <3>4. len \in 0..Len(q) /\ Numbers(q, got, sent)
        BY <2>1, <2>3, <3>3
      <3>5. /\ got \in Nat /\ sent \in Nat /\ got <= sent /\ MaxBytes \in Nat
            /\ q \in Seq(0..MaxBytes) /\ LastTaken(q, len, got, g)
        BY <2>3, <3>2, <3>3
      <3>6. g \in got..sent /\ Numbers(Drop(q, len), g, sent)
        BY <3>4, <3>5, NumbersTaken
      <3>7. QED
        BY <2>1, <3>1, <3>3, <3>6
    <2>5. Drained(len) => got' = sent
      <3> SUFFICES ASSUME Drained(len) PROVE got' = sent
        OBVIOUS
      <3>1. Unread' = <<>> /\ Len(Unread') = 0
        BY <2>1, EmptySeq
      <3>2. PICK g, q : g = got' /\ q = Unread'
        OBVIOUS
      <3>3. g \in got..sent /\ Numbers(q, g, sent) /\ Len(q) = 0
        BY <2>4, <3>1, <3>2
      <3>4. g \in Int /\ sent \in Int /\ g <= sent
        BY <2>3, <3>3
      <3>5. g = sent
        BY <3>3, <3>4, NumbersOfNothing
      <3>6. QED
        BY <3>2, <3>5
    <2>6. BytesAgree'
      <3>1. empty => got' = sent
        BY <1>1, <2>3, <2>4 DEF BytesAgree
      <3>2. empty' => got' = sent
        BY <2>2, <2>5, <3>1
      <3>3. QED
        BY <2>3, <2>4, <3>2 DEF BytesAgree
    <2>7. /\ at'[r] = "idle"
          /\ \A t \in Readers : t # r => at'[t] = at[t]
          /\ \A w \in Writers : at'[w] = at[w] \/ (Drained(len) /\ at[w] = "flushasleep" /\ at'[w] = "flushed")
      <3>1. DOMAIN at = Writers \cup Readers /\ Writers \cap Readers = {}
        BY <1>1, QLocalPipeAssumption DEF TypeOK
      <3>2. \A t \in Readers : at[t] # "flushasleep"
        BY <1>1 DEF ReadersAgree, ReaderLabels
      <3>3. QED
        BY <2>2, <3>1, <3>2
    <2>8. FlushesAgree'
      <3> SUFFICES ASSUME NEW w \in Writers
                   PROVE  /\ at'[w] \in WriterLabels
                          /\ at'[w] \in {"idle", "rawflush"} => mark[w] = -1
                          /\ at'[w] \in {"flushtest", "flushgap", "flushasleep"} => mark[w] \in 0..sent
                          /\ at'[w] = "flushed" => mark[w] \in 0..got'
        BY DEF FlushesAgree
      <3>1. CASE at'[w] = at[w]
        <4>1. at[w] = "flushed" => mark[w] \in 0..got'
          <5>1. at[w] = "flushed" => mark[w] \in 0..got
            BY <1>1 DEF FlushesAgree
          <5>2. QED
            BY <2>3, <2>4, <5>1
        <4>2. QED
          BY <1>1, <3>1, <4>1 DEF FlushesAgree
      <3>2. CASE Drained(len) /\ at[w] = "flushasleep" /\ at'[w] = "flushed"
        BY <1>1, <2>5, <3>2 DEF FlushesAgree, WriterLabels
      <3>3. QED
        BY <2>7, <3>1, <3>2
    <2>9. ReadersAgree'
      <3>1. InCall' = InCall \ {r}
        BY <2>7 DEF InCall
      <3>2. \A t \in Readers : t # r => want'[t] = want[t] /\ waiting'[t] = waiting[t]
        BY <1>1, <2>2 DEF TypeOK
      <3>3. QED
        BY <1>1, <1>3, <2>2, <2>7, <3>1, <3>2 DEF ReadersAgree, ReaderLabels
    <2>10. TypeOK'
      <3>1. at' \in [Writers \cup Readers -> {"idle", "rawflush", "flushtest",
               "flushgap", "flushasleep", "flushed", "unlocked", "gap", "asleep", "woken", "polled"}]
        BY <1>1, <2>2 DEF TypeOK
      <3>2. missed' \in BOOLEAN /\ empty' \in BOOLEAN
        BY <2>2, Zenon
      <3>3. want' \in [Readers -> 0..MaxLen] /\ waiting' \in [Readers -> 0..MaxLen]
        BY <1>1, <2>2, QLocalPipeAssumption DEF TypeOK
      <3>4. got' \in 0..MaxBytes
        BY <2>3, <2>4
      <3>5. QED
        BY <1>1, <1>3, <2>1, <2>2, <3>1, <3>2, <3>3, <3>4 DEF TypeOK
    <2>11. QED
      BY <2>1, <2>6, <2>8, <2>9, <2>10 DEF Base
  <1>6. QED
    <2>1. rptr \in Int /\ len \in Int /\ Len(data) \in Int
      BY <1>1, QLocalPipeAssumption, LenProperties DEF TypeOK
    <2>2. QED
      BY <1>4, <1>5, <2>1
-----------------------------------------------------------------------------
\* An equation of sums with something added to both sides.
LEMMA Regrouped ==
  ASSUME NEW e \in Int, NEW v \in Int, NEW n \in Int, NEW g \in Int, NEW m \in Int,
         v + n = g + m
  PROVE  (e + v) + n = (e + g) + m
  OBVIOUS

\* What writing does to the chunks.
LEMMA WriteMoves ==
  ASSUME TypeOK, Extents, NEW w \in Writers, NEW len \in 1..MaxLen, Write(w, len)
  PROVE  \E n \in Nat :
           /\ n \in len..(len + (Granularity - 1)) /\ sent + len <= MaxBytes
           /\ Fits(len, wptr, Granularity) => n = len
           /\ data' = data \o Block(n, len, sent) /\ data' \in Seq(0..MaxBytes)
           /\ wptr' \in 0..(Granularity - 1) /\ datachunks' \in Nat \ {0}
           /\ Extents' /\ Unread \in Seq(0..MaxBytes)
           /\ Unread' = Unread \o Block(n, len, sent)
  <1>1. /\ data \in Seq(0..MaxBytes) /\ rptr \in 0..(Granularity - 1) /\ wptr \in 0..(Granularity - 1)
        /\ datachunks \in Nat \ {0} /\ Granularity \in Nat \ {0} /\ sent \in Nat /\ MaxBytes \in Nat
        /\ len \in Nat \ {0} /\ Len(data) \in Nat
    BY QLocalPipeAssumption, LenProperties DEF TypeOK
  <1>2. PICK n : n = Copied(len, wptr, Granularity)
    OBVIOUS
  <1>3. n \in Nat /\ len <= n /\ n <= len + (Granularity - 1)
    BY <1>1, <1>2, CopiedBounds
  <1>4. /\ clients = 2 /\ clients' = 2 /\ rptr' = rptr /\ sent + len <= MaxBytes
        /\ data' = data \o Block(n, len, sent)
        /\ wptr' = (wptr + n) % Granularity
        /\ datachunks' = datachunks + ((wptr + n) \div Granularity)
    BY <1>2 DEF Write, Block, ends
  <1>5. PICK q : q = (wptr + n) \div Granularity
    OBVIOUS
  <1>6. /\ q \in Nat /\ wptr' \in 0..(Granularity - 1) /\ Granularity * q \in Nat
        /\ wptr + n = Granularity * q + wptr'
    <2>1. PICK v \in Nat : v = wptr + n
      BY <1>1, <1>3
    <2>2. PICK g \in Nat \ {0} : g = Granularity
      BY <1>1
    <2>3. PICK m : m = v % g
      OBVIOUS
    <2>4. q = v \div g /\ wptr' = m
      BY <1>4, <1>5, <2>1, <2>2, <2>3
    <2>5. /\ v \div g \in Nat /\ v % g \in 0..(g - 1) /\ g * (v \div g) \in Nat
          /\ v = g * (v \div g) + (v % g)
      BY <2>1, <2>2, DivMod
    <2>6. q \in Nat /\ m \in 0..(g - 1) /\ g * q \in Nat /\ v = g * q + m
      BY <2>3, <2>4, <2>5
    <2>7. QED
      BY <2>1, <2>2, <2>4, <2>6
  <1>7. datachunks' \in Nat \ {0} /\ datachunks' = datachunks + q
    <2>1. datachunks' = datachunks + q
      BY <1>4, <1>5, Zenon
    <2>2. datachunks + q \in Nat \ {0}
      BY <1>1, <1>6
    <2>3. QED
      BY <2>1, <2>2
  <1>8. Len(data) = (datachunks - 1) * Granularity + wptr /\ rptr \in 0..Len(data)
    BY <1>1, <1>4 DEF Extents
  <1>9. PICK x \in Seq(0..MaxBytes) : x = Block(n, len, sent) /\ Len(x) = n
    <2>1. len \in 0..n
      BY <1>1, <1>3
    <2>2. Block(n, len, sent) \in Seq(0..MaxBytes)
      BY <1>1, <1>3, <1>4, <2>1, BlockProperties
    <2>3. Len(Block(n, len, sent)) = n
      BY <1>1, <1>3, <1>4, <2>1, BlockProperties
    <2>4. QED
      BY <2>2, <2>3
  <1>10. data' \in Seq(0..MaxBytes) /\ Len(data') = Len(data) + n
    BY <1>1, <1>4, <1>9, ConcatProperties
  <1>11. Extents'
    <2>1. (datachunks' - 1) * Granularity = (datachunks - 1) * Granularity + Granularity * q
      <3>1. /\ (datachunks - 1) * Granularity = Granularity * (datachunks - 1)
            /\ Granularity * ((datachunks - 1) + q) = Granularity * (datachunks - 1) + Granularity * q
            /\ ((datachunks - 1) + q) * Granularity = Granularity * ((datachunks - 1) + q)
        <4>1. datachunks - 1 \in Int /\ (datachunks - 1) + q \in Int /\ q \in Int
          BY <1>1, <1>6
        <4>2. QED
          BY <1>1, <4>1, Products
      <3>2. datachunks' - 1 = (datachunks - 1) + q
        BY <1>1, <1>6, <1>7
      <3>3. QED
        BY <3>1, <3>2
    <2>2. PICK e \in Int : e = (datachunks - 1) * Granularity
      BY <1>1, Products
    <2>3. Len(data') = (datachunks' - 1) * Granularity + wptr'
      <3>1. PICK g \in Nat, m \in Int : g = Granularity * q /\ m = wptr'
        BY <1>1, <1>6
      <3>2. wptr + n = g + m /\ Len(data) = e + wptr /\ Len(data') = Len(data) + n
        BY <1>6, <1>8, <1>10, <2>2, <3>1
      <3>3. Len(data') = (e + g) + m
        <4>1. wptr \in Int /\ n \in Int /\ g \in Int /\ m \in Int /\ e \in Int
          BY <1>1, <1>3, <3>1
        <4>2. (e + wptr) + n = (e + g) + m
          BY <4>1, <3>2, Regrouped
        <4>3. Len(data') = (e + wptr) + n
          BY <3>2, Zenon
        <4>4. QED
          BY <4>2, <4>3, Zenon
      <3>4. QED
        BY <2>1, <2>2, <3>1, <3>3
    <2>4. rptr' <= Len(data')
      BY <1>1, <1>3, <1>4, <1>8, <1>10
    <2>5. QED
      BY <1>4, <2>3, <2>4 DEF Extents
  <1>12. Unread \in Seq(0..MaxBytes)
    BY <1>1, <1>8, DropProperties DEF Unread
  <1>13. Unread' = Unread \o Block(n, len, sent)
    <2>1. Drop(data \o x, rptr) = Drop(data, rptr) \o x
      BY <1>1, <1>8, <1>9, DropConcat
    <2>2. Unread' = Drop(data \o x, rptr)
      BY <1>4, <1>9 DEF Unread
    <2>3. QED
      BY <1>9, <2>1, <2>2 DEF Unread
  <1>14. n \in len..(len + (Granularity - 1)) /\ (Fits(len, wptr, Granularity) => n = len)
    BY <1>1, <1>2, <1>3, CopiedExactly
  <1>15. QED
    BY <1>3, <1>4, <1>6, <1>7, <1>10, <1>11, <1>12, <1>13, <1>14

\* A write adds the next numbers.
LEMMA StepWrite ==
  ASSUME Base, NEW w \in Writers, NEW len \in 1..MaxLen, Write(w, len)
  PROVE  Base'
  <1>1. TypeOK /\ Extents /\ BytesAgree /\ FlushesAgree /\ ReadersAgree
    BY DEF Base
  <1>2. PICK n \in Nat :
           /\ n \in len..(len + (Granularity - 1)) /\ sent + len <= MaxBytes
           /\ Fits(len, wptr, Granularity) => n = len
           /\ data' = data \o Block(n, len, sent) /\ data' \in Seq(0..MaxBytes)
           /\ wptr' \in 0..(Granularity - 1) /\ datachunks' \in Nat \ {0}
           /\ Extents' /\ Unread \in Seq(0..MaxBytes)
           /\ Unread' = Unread \o Block(n, len, sent)
    BY <1>1, WriteMoves
  <1>3. /\ clients = 2 /\ at[w] = "idle" /\ sent' = sent + len /\ empty' = FALSE
        /\ UNCHANGED <<rptr, newdatawaiters, clients, raw, want, waiting, got, mark, broken>>
        /\ p' = IF raw THEN w ELSE Null
    BY DEF Write, ends
  <1>4. /\ got \in Nat /\ sent \in Nat /\ got <= sent /\ MaxBytes \in Nat /\ len \in Nat \ {0}
        /\ Granularity \in Nat \ {0} /\ Numbers(Unread, got, sent)
    BY <1>1, <1>3, QLocalPipeAssumption DEF TypeOK, BytesAgree
  <1>5. BytesAgree'
    <2>1. len \in 0..n
      BY <1>2, <1>4
    <2>2. Numbers(Unread', got, sent + len)
      BY <1>2, <1>4, <2>1, NumbersWritten
    <2>3. got <= sent + len
      BY <1>4
    <2>4. QED
      BY <1>3, <2>2, <2>3 DEF BytesAgree
  <1>6. /\ \A t \in Writers : at'[t] = at[t] \/ (t = w /\ at'[t] = "rawflush")
        /\ \A t \in Readers : at'[t] = at[t] \/ (at[t] \in {"asleep", "polled"} /\ at'[t] = "woken")
        /\ at' \in [Writers \cup Readers -> {"idle", "rawflush", "flushtest",
             "flushgap", "flushasleep", "flushed", "unlocked", "gap", "asleep", "woken", "polled"}]
    <2>1. PICK polls \in SUBSET ReadersAt({"polled"}) :
            at' = [t \in DOMAIN at |->
                IF Wanted /\ t \in ReadersAt({"asleep"}) \cup polls THEN "woken"
                ELSE IF t = w /\ raw THEN "rawflush" ELSE at[t]]
      BY DEF Write
    <2>2. DOMAIN at = Writers \cup Readers /\ Writers \cap Readers = {}
      BY <1>1, QLocalPipeAssumption DEF TypeOK
    <2>3. \A t \in ReadersAt({"asleep"}) \cup polls : t \in Readers /\ at[t] \in {"asleep", "polled"}
      BY <2>1 DEF ReadersAt
    <2>4. \A t \in Writers : at'[t] = at[t] \/ (t = w /\ at'[t] = "rawflush")
      BY <2>1, <2>2, <2>3
    <2>5. \A t \in Readers : at'[t] = at[t] \/ (at[t] \in {"asleep", "polled"} /\ at'[t] = "woken")
      BY <2>1, <2>2, <2>3
    <2>6. at' \in [Writers \cup Readers -> {"idle", "rawflush", "flushtest",
             "flushgap", "flushasleep", "flushed", "unlocked", "gap", "asleep", "woken", "polled"}]
      BY <1>1, <2>1, <2>2 DEF TypeOK
    <2>7. QED
      BY <2>4, <2>5, <2>6
  <1>7. FlushesAgree'
    <2> SUFFICES ASSUME NEW t \in Writers
                 PROVE  /\ at'[t] \in WriterLabels
                        /\ at'[t] \in {"idle", "rawflush"} => mark[t] = -1
                        /\ at'[t] \in {"flushtest", "flushgap", "flushasleep"} => mark[t] \in 0..(sent + len)
                        /\ at'[t] = "flushed" => mark[t] \in 0..got
      BY <1>3 DEF FlushesAgree
    <2>1. CASE at'[t] = at[t]
      <3>1. mark[t] \in 0..sent => mark[t] \in 0..(sent + len)
        BY <1>4
      <3>2. QED
        BY <1>1, <2>1, <3>1 DEF FlushesAgree
    <2>2. CASE t = w /\ at'[t] = "rawflush"
      BY <1>1, <1>3, <2>2 DEF FlushesAgree, WriterLabels
    <2>3. QED
      BY <1>6, <2>1, <2>2
  <1>8. ReadersAgree'
    <2>1. InCall' = InCall
      BY <1>6 DEF InCall
    <2>2. QED
      BY <1>1, <1>3, <1>6, <2>1 DEF ReadersAgree, ReaderLabels
  <1>9. TypeOK'
    <2>1. newdata' \in BOOLEAN
      <3>1. CASE WakeReaders
        <4>1. newdata' \in {newdata} \/ newdata' \in {newdata, TRUE} \/ newdata' \in {TRUE}
          BY <3>1, Zenon DEF WakeReaders
        <4>2. newdata \in BOOLEAN
          BY <1>1 DEF TypeOK
        <4>3. QED
          BY <4>1, <4>2, Zenon
      <3>2. CASE newdata' = newdata
        BY <1>1, <3>2 DEF TypeOK
      <3>3. QED
        BY <3>1, <3>2 DEF Write
    <2>2. missed' \in BOOLEAN
      <3>1. CASE WakeReaders
        <4>1. missed' = (missed \/ ReadersAt({"gap"}) # {})
          BY <3>1 DEF WakeReaders
        <4>2. QED
          BY <4>1, Zenon
      <3>2. CASE missed' = missed
        BY <1>1, <3>2 DEF TypeOK
      <3>3. QED
        BY <3>1, <3>2 DEF Write
    <2>3. sent' \in 0..MaxBytes /\ p' \in Writers \cup {Null}
      BY <1>2, <1>3, <1>4
    <2>4. empty' \in BOOLEAN
      BY <1>3
    <2>5. rough' \in BOOLEAN
      <3>1. rough' = (rough \/ ~Fits(len, wptr, Granularity))
        BY DEF Write
      <3>2. QED
        BY <3>1, Zenon
    <2>6. QED
      BY <1>1, <1>2, <1>3, <1>6, <2>1, <2>2, <2>3, <2>4, <2>5 DEF TypeOK
  <1>10. QED
    BY <1>2, <1>5, <1>7, <1>8, <1>9 DEF Base
-----------------------------------------------------------------------------
\* A writer that goes on from one label of its own to another changes nothing that
\* the readers keep.
LEMMA WriterGoes ==
  ASSUME Base, NEW w \in Writers, NEW l \in WriterLabels, at' = [at EXCEPT ![w] = l],
         UNCHANGED <<want, waiting, newdatawaiters, broken>>
  PROVE  /\ ReadersAgree'
         /\ at'[w] = l /\ \A t \in Writers : t # w => at'[t] = at[t]
         /\ at' \in [Writers \cup Readers -> {"idle", "rawflush", "flushtest",
               "flushgap", "flushasleep", "flushed", "unlocked", "gap", "asleep", "woken", "polled"}]
  <1>1. TypeOK /\ ReadersAgree /\ Writers \cap Readers = {}
    BY QLocalPipeAssumption DEF Base
  <1>2. at'[w] = l /\ \A t \in Writers \cup Readers : t # w => at'[t] = at[t]
    BY <1>1 DEF TypeOK
  <1>3. at' \in [Writers \cup Readers -> {"idle", "rawflush", "flushtest",
               "flushgap", "flushasleep", "flushed", "unlocked", "gap", "asleep", "woken", "polled"}]
    BY <1>1 DEF TypeOK, WriterLabels
  <1>4. \A r \in Readers : at'[r] = at[r]
    BY <1>1, <1>2
  <1>5. InCall' = InCall
    BY <1>4 DEF InCall
  <1>6. ReadersAgree'
    BY <1>1, <1>4, <1>5 DEF ReadersAgree
  <1>7. QED
    BY <1>2, <1>3, <1>6

\* flush() begins.
LEMMA StepFlush ==
  ASSUME Base, NEW w \in Writers, Flush(w)
  PROVE  Base' /\ Pipe!Next
  <1>1. TypeOK /\ Extents /\ BytesAgree /\ FlushesAgree /\ ReadersAgree
    BY DEF Base
  <1>2. /\ at[w] \in {"idle", "rawflush"} /\ mark' = [mark EXCEPT ![w] = sent]
        /\ at' = [at EXCEPT ![w] = "flushtest"]
        /\ UNCHANGED <<data, rptr, wptr, datachunks, newdatawaiters, newdata, empty,
                       clients, raw, p, want, waiting, sent, got, missed, broken, rough>>
    BY DEF Flush, Goto, buffer, events, ends
  <1>3. /\ ReadersAgree'
        /\ at'[w] = "flushtest" /\ \A t \in Writers : t # w => at'[t] = at[t]
        /\ at' \in [Writers \cup Readers -> {"idle", "rawflush", "flushtest",
             "flushgap", "flushasleep", "flushed", "unlocked", "gap", "asleep", "woken", "polled"}]
    BY <1>2, WriterGoes DEF WriterLabels
  <1>4. /\ mark[w] = -1 /\ mark' \in [Writers -> -1..MaxBytes] /\ mark'[w] = sent
        /\ \A t \in Writers : t # w => mark'[t] = mark[t]
        /\ sent \in 0..sent
    BY <1>1, <1>2, QLocalPipeAssumption DEF TypeOK, FlushesAgree
  <1>5. TypeOK'
    BY <1>1, <1>2, <1>3, <1>4 DEF TypeOK
  <1>6. Extents' /\ BytesAgree'
    BY <1>1, <1>2 DEF Extents, BytesAgree, Unread
  <1>7. FlushesAgree'
    BY <1>1, <1>2, <1>3, <1>4 DEF FlushesAgree, WriterLabels
  <1>8. Pipe!FlushBegin(w)
    BY <1>2, <1>4 DEF Pipe!FlushBegin, Unread
  <1>9. QED
    BY <1>3, <1>5, <1>6, <1>7, <1>8 DEF Base, Pipe!Next

\* A flush tests the event, and goes to sleep.
LEMMA StepFlushWait ==
  ASSUME Base, NEW w \in Writers, FlushTest(w) \/ FlushSleep(w)
  PROVE  Base' /\ UNCHANGED Pipe!vars
  <1>1. TypeOK /\ Extents /\ BytesAgree /\ FlushesAgree /\ ReadersAgree
    BY DEF Base
  <1>2. PICK l \in WriterLabels :
          /\ at' = [at EXCEPT ![w] = l] /\ at[w] \in {"flushtest", "flushgap"}
          /\ l \in {"flushgap", "flushasleep"} \/ (l = "flushed" /\ empty)
    <2>1. CASE FlushTest(w)
      <3>1. CASE empty
        BY <2>1, <3>1 DEF FlushTest, Goto, WriterLabels
      <3>2. CASE ~empty
        BY <2>1, <3>2 DEF FlushTest, Goto, WriterLabels
      <3>3. QED
        BY <3>1, <3>2
    <2>2. CASE FlushSleep(w)
      BY <2>2 DEF FlushSleep, Goto, WriterLabels
    <2>3. QED
      BY <2>1, <2>2
  <1>3. UNCHANGED <<data, rptr, wptr, datachunks, newdatawaiters, newdata, empty,
                    clients, raw, p, want, waiting, sent, got, mark, missed, broken, rough>>
    BY DEF FlushTest, FlushSleep, buffer, events, ends, counts
  <1>4. /\ ReadersAgree'
        /\ at'[w] = l /\ \A t \in Writers : t # w => at'[t] = at[t]
        /\ at' \in [Writers \cup Readers -> {"idle", "rawflush", "flushtest",
             "flushgap", "flushasleep", "flushed", "unlocked", "gap", "asleep", "woken", "polled"}]
    BY <1>2, <1>3, WriterGoes
  <1>5. TypeOK'
    BY <1>1, <1>3, <1>4 DEF TypeOK
  <1>6. Extents' /\ BytesAgree'
    BY <1>1, <1>3 DEF Extents, BytesAgree, Unread
  <1>7. mark[w] \in 0..sent /\ (l = "flushed" => mark[w] \in 0..got)
    BY <1>1, <1>2 DEF FlushesAgree, BytesAgree
  <1>8. FlushesAgree'
    BY <1>1, <1>2, <1>3, <1>4, <1>7 DEF FlushesAgree
  <1>9. UNCHANGED Pipe!vars
    BY <1>3 DEF Pipe!vars, Unread
  <1>10. QED
    BY <1>4, <1>5, <1>6, <1>8, <1>9 DEF Base

\* A flush ends, when what it waited for has been read.
LEMMA StepFlushEnd ==
  ASSUME Base, NEW w \in Writers, FlushEnd(w)
  PROVE  Base' /\ Pipe!Next
  <1>1. TypeOK /\ Extents /\ BytesAgree /\ FlushesAgree /\ ReadersAgree
    BY DEF Base
  <1>2. /\ at[w] = "flushed" /\ mark' = [mark EXCEPT ![w] = -1]
        /\ at' = [at EXCEPT ![w] = "idle"] /\ p' = IF p = w THEN Null ELSE p
        /\ UNCHANGED <<data, rptr, wptr, datachunks, newdatawaiters, newdata, empty,
                       clients, raw, want, waiting, sent, got, missed, broken, rough>>
    BY DEF FlushEnd, Goto, buffer, events, ends
  <1>3. /\ ReadersAgree'
        /\ at'[w] = "idle" /\ \A t \in Writers : t # w => at'[t] = at[t]
        /\ at' \in [Writers \cup Readers -> {"idle", "rawflush", "flushtest",
             "flushgap", "flushasleep", "flushed", "unlocked", "gap", "asleep", "woken", "polled"}]
    BY <1>2, WriterGoes DEF WriterLabels
  <1>4. /\ mark[w] \in 0..got /\ mark' \in [Writers -> -1..MaxBytes] /\ mark'[w] = -1
        /\ \A t \in Writers : t # w => mark'[t] = mark[t]
        /\ got \in Nat
    BY <1>1, <1>2, QLocalPipeAssumption DEF TypeOK, FlushesAgree
  <1>5. p' \in Writers \cup {Null}
    BY <1>1, <1>2 DEF TypeOK
  <1>6. TypeOK'
    BY <1>1, <1>2, <1>3, <1>4, <1>5 DEF TypeOK
  <1>7. Extents' /\ BytesAgree'
    BY <1>1, <1>2 DEF Extents, BytesAgree, Unread
  <1>8. FlushesAgree'
    BY <1>1, <1>2, <1>3, <1>4 DEF FlushesAgree, WriterLabels
  <1>9. Pipe!FlushEnd(w)
    <2>1. mark[w] # -1 /\ mark[w] <= got
      BY <1>4
    <2>2. QED
      BY <1>2, <2>1 DEF Pipe!FlushEnd, Unread
  <1>10. QED
    BY <1>3, <1>6, <1>7, <1>8, <1>9 DEF Base, Pipe!Next

\* The writing end is closed, and what has not been read is lost.
LEMMA StepClose ==
  ASSUME Base, NEW w \in Writers, Close(w)
  PROVE  Base' /\ Pipe!Next
  <1>1. TypeOK /\ Extents /\ BytesAgree /\ FlushesAgree /\ ReadersAgree
    BY DEF Base
  <1>2. /\ clients' = 1 /\ data' = <<>> /\ rptr' = 0 /\ wptr' = 0
        /\ UNCHANGED <<datachunks, newdatawaiters, newdata, empty, raw, p, at, want,
                       waiting, sent, got, mark, missed, broken>>
        /\ rough' = (rough \/ InCall # {})
    BY DEF Close, events, counts
  <1>3. TypeOK'
    <2>1. data' \in Seq(0..MaxBytes) /\ rptr' \in 0..(Granularity - 1) /\ wptr' \in 0..(Granularity - 1)
      BY <1>2, QLocalPipeAssumption, EmptySeq
    <2>2. rough' \in BOOLEAN
      BY <1>2, Zenon
    <2>3. QED
      BY <1>1, <1>2, <2>1, <2>2 DEF TypeOK
  <1>4. Extents' /\ BytesAgree'
    BY <1>1, <1>2 DEF Extents, BytesAgree
  <1>5. FlushesAgree' /\ ReadersAgree'
    BY <1>1, <1>2 DEF FlushesAgree, ReadersAgree, InCall
  <1>6. Pipe!Close
    <2>1. Unread' = <<>>
      <3>1. Len(data') = 0
        BY <1>2, EmptySeq
      <3>2. QED
        BY <1>2, <3>1, EmptySeq DEF Unread, Drop
    <2>2. (clients' < 2) = TRUE
      BY <1>2
    <2>3. QED
      BY <1>2, <2>1, <2>2 DEF Pipe!Close, Unread, Drop
  <1>7. QED
    BY <1>3, <1>4, <1>5, <1>6 DEF Base, Pipe!Next
-----------------------------------------------------------------------------
\* What is there is never less than nothing, even of a pipe that is closed.
LEMMA ThereIsNat ==
  ASSUME TypeOK, Extents
  PROVE  There \in Nat
  <1>1. /\ Granularity \in Nat \ {0} /\ datachunks - 1 \in Nat /\ rptr \in Nat /\ wptr \in Nat
        /\ Len(data) \in Nat /\ clients \in {1, 2}
    BY QLocalPipeAssumption, LenProperties DEF TypeOK
  <1> DEFINE e == (datachunks - 1) * Granularity
  <1>2. e \in Nat
    <2>1. PICK k \in Nat, g \in Nat : k = datachunks - 1 /\ g = Granularity
      BY <1>1
    <2>2. k * g \in Nat
      OBVIOUS
    <2>3. QED
      BY <2>1, <2>2
  <1>3. There = e + wptr - rptr
    BY DEF There
  <1>4. clients = 2 => Len(data) = e + wptr /\ rptr <= Len(data)
    BY DEF Extents
  <1>5. clients = 1 => wptr = 0 /\ rptr = 0
    BY DEF Extents
  <1> HIDE DEF e
  <1>6. QED
    BY <1>1, <1>2, <1>3, <1>4, <1>5

\* A reader goes on to a label inside its call.
LEMMA ReaderGoes ==
  ASSUME Base, NEW r \in Readers, NEW l \in ReaderLabels \ {"idle"}, at' = [at EXCEPT ![r] = l],
         UNCHANGED <<mark, sent, got>>
  PROVE  /\ FlushesAgree' /\ InCall' = InCall \cup {r}
         /\ at'[r] = l /\ \A t \in Readers : t # r => at'[t] = at[t]
         /\ at' \in [Writers \cup Readers -> {"idle", "rawflush", "flushtest",
               "flushgap", "flushasleep", "flushed", "unlocked", "gap", "asleep", "woken", "polled"}]
  <1>1. TypeOK /\ FlushesAgree /\ Writers \cap Readers = {}
    BY QLocalPipeAssumption DEF Base
  <1>2. at'[r] = l /\ \A t \in Writers \cup Readers : t # r => at'[t] = at[t]
    BY <1>1 DEF TypeOK
  <1>3. at' \in [Writers \cup Readers -> {"idle", "rawflush", "flushtest",
               "flushgap", "flushasleep", "flushed", "unlocked", "gap", "asleep", "woken", "polled"}]
    BY <1>1 DEF TypeOK, ReaderLabels
  <1>4. \A w \in Writers : at'[w] = at[w]
    BY <1>1, <1>2
  <1>5. FlushesAgree'
    BY <1>1, <1>4 DEF FlushesAgree
  <1>6. InCall' = InCall \cup {r}
    BY <1>2 DEF InCall
  <1>7. QED
    BY <1>2, <1>3, <1>5, <1>6

\* A round of readBlock() waits or takes.
LEMMA StepRound ==
  ASSUME Base, ~broken, NEW r \in Readers, NEW len \in 1..MaxLen,
         NEW counted, counted = Cardinality(InCall \cup {r}), Round(r, len, counted),
         UNCHANGED <<clients, raw, p, sent, mark>>, rough' \in BOOLEAN
  PROVE  Base'
  <1>1. TypeOK /\ Extents /\ BytesAgree /\ FlushesAgree /\ ReadersAgree
    BY DEF Base
  <1>2. CASE Take(r, len) /\ newdatawaiters' = counted - 1 /\ newdata' = newdata
    <2>1. newdata' \in BOOLEAN
      BY <1>1, <1>2 DEF TypeOK
    <2>2. QED
      BY <1>2, <2>1, StepTake
  <1>3. CASE /\ There < len /\ newdata' = FALSE /\ newdatawaiters' = counted
             /\ want' = [want EXCEPT ![r] = len] /\ waiting' = [waiting EXCEPT ![r] = There]
             /\ at' = [at EXCEPT ![r] = "unlocked"]
             /\ UNCHANGED <<data, rptr, wptr, datachunks, empty, got, missed, broken>>
    <2>1. There \in 0..MaxLen /\ len \in 0..MaxLen /\ len > 0
      <3>1. There \in Nat
        BY <1>1, ThereIsNat
      <3>2. PICK h \in Nat : h = There
        BY <3>1
      <3>3. h < len /\ MaxLen \in Nat
        BY <1>3, <3>2, QLocalPipeAssumption
      <3>4. h \in 0..MaxLen /\ len \in 0..MaxLen /\ len > 0
        BY <3>3
      <3>5. QED
        BY <3>2, <3>4
    <2>2. /\ FlushesAgree' /\ InCall' = InCall \cup {r}
          /\ at'[r] = "unlocked" /\ \A t \in Readers : t # r => at'[t] = at[t]
          /\ at' \in [Writers \cup Readers -> {"idle", "rawflush", "flushtest",
               "flushgap", "flushasleep", "flushed", "unlocked", "gap", "asleep", "woken", "polled"}]
      BY <1>3, ReaderGoes DEF ReaderLabels
    <2>3. /\ want' \in [Readers -> 0..MaxLen] /\ waiting' \in [Readers -> 0..MaxLen]
          /\ want'[r] = len
          /\ \A t \in Readers : t # r => want'[t] = want[t] /\ waiting'[t] = waiting[t]
      BY <1>1, <1>3, <2>1 DEF TypeOK
    <2>4. counted \in 0..Cardinality(Readers)
      <3>1. InCall \subseteq Readers
        BY DEF InCall
      <3>2. counted \in 1..Cardinality(Readers) /\ Cardinality(Readers) \in Nat
        BY <3>1, CallCounts
      <3>3. QED
        BY <3>2
    <2>5. TypeOK'
      BY <1>1, <1>3, <2>2, <2>3, <2>4 DEF TypeOK
    <2>6. Extents' /\ BytesAgree'
      BY <1>1, <1>3 DEF Extents, BytesAgree, Unread
    <2>7. ReadersAgree'
      BY <1>1, <1>3, <2>1, <2>2, <2>3 DEF ReadersAgree, ReaderLabels
    <2>8. QED
      BY <2>2, <2>5, <2>6, <2>7 DEF Base
  <1>4. QED
    <2>1. ASSUME There < len PROVE ~(There >= len)
      <3>1. There \in Nat
        BY <1>1, ThereIsNat
      <3>2. PICK h \in Nat : h = There
        BY <3>1
      <3>3. QED
        BY <2>1, <3>2
    <2>2. QED
      BY <1>2, <1>3, Zenon DEF Round, Goto, buffer

\* readBlock() begins, or goes on.
LEMMA StepRead ==
  ASSUME Base, ~broken, NEW r \in Readers, NEW len \in 1..MaxLen, Read(r, len)
  PROVE  Base'
  <1>1. /\ at[r] = "idle" /\ Round(r, len, newdatawaiters + 1)
        /\ UNCHANGED <<clients, raw, p, sent, mark>> /\ rough' = (rough \/ InCall # {})
    BY DEF Read, Counted, ends
  <1>2. newdatawaiters + 1 = Cardinality(InCall \cup {r})
    <2>1. r \notin InCall /\ InCall \subseteq Readers /\ newdatawaiters = Cardinality(InCall)
      BY <1>1 DEF InCall, Base, ReadersAgree
    <2>2. QED
      BY <2>1, CallCounts
  <1>3. rough' \in BOOLEAN
    BY <1>1, Zenon
  <1>4. QED
    BY <1>1, <1>2, <1>3, StepRound

\* readBlock() goes on after a wake.
LEMMA StepReadAgain ==
  ASSUME Base, ~broken, NEW r \in Readers, ReadAgain(r)
  PROVE  Base'
  <1>1. /\ at[r] = "woken" /\ Round(r, want[r], newdatawaiters)
        /\ UNCHANGED <<clients, raw, p, sent, mark, rough>>
    BY DEF ReadAgain, ends
  <1>2. newdatawaiters = Cardinality(InCall \cup {r})
    <2>1. r \in InCall /\ InCall \subseteq Readers /\ newdatawaiters = Cardinality(InCall)
      BY <1>1 DEF InCall, Base, ReadersAgree
    <2>2. QED
      BY <2>1, CallCounts
  <1>3. want[r] \in 1..MaxLen
    <2>1. want[r] \in 0..MaxLen /\ want[r] > 0
      BY <1>1 DEF Base, TypeOK, ReadersAgree
    <2>2. QED
      BY <2>1, QLocalPipeAssumption
  <1>4. rough' \in BOOLEAN
    BY <1>1 DEF Base, TypeOK
  <1>5. QED
    BY <1>1, <1>2, <1>3, <1>4, StepRound

\* The poll is over, and what was there is taken.
LEMMA StepReadPolled ==
  ASSUME Base, ~broken, NEW r \in Readers, ReadPolled(r)
  PROVE  Base'
  <1>1. /\ at[r] = "polled" /\ newdatawaiters' = newdatawaiters - 1 /\ Take(r, waiting[r])
        /\ UNCHANGED <<newdata, clients, raw, p, sent, mark, rough>>
    BY DEF ReadPolled, ends
  <1>2. newdatawaiters = Cardinality(InCall \cup {r})
    <2>1. r \in InCall /\ InCall \subseteq Readers /\ newdatawaiters = Cardinality(InCall)
      BY <1>1 DEF InCall, Base, ReadersAgree
    <2>2. QED
      BY <2>1, CallCounts
  <1>3. waiting[r] \in 1..MaxLen
    <2>1. waiting[r] \in 0..MaxLen /\ waiting[r] > 0
      BY <1>1 DEF Base, TypeOK, ReadersAgree
    <2>2. QED
      BY <2>1, QLocalPipeAssumption
  <1>4. newdata' \in BOOLEAN /\ rough' \in BOOLEAN
    BY <1>1 DEF Base, TypeOK
  <1>5. newdatawaiters' = Cardinality(InCall \cup {r}) - 1
    BY <1>1, <1>2
  <1>6. QED
    BY <1>1, <1>3, <1>4, <1>5, StepTake

\* A reader tests newdata, and goes to sleep or polls.
LEMMA StepWait ==
  ASSUME Base, ~broken, NEW r \in Readers, WaitTest(r) \/ WaitSleep(r)
  PROVE  Base' /\ UNCHANGED Pipe!vars
  <1>1. TypeOK /\ Extents /\ BytesAgree /\ FlushesAgree /\ ReadersAgree
    BY DEF Base
  <1>2. PICK l \in ReaderLabels \ {"idle"} :
          /\ at' = [at EXCEPT ![r] = l] /\ at[r] # "idle"
          /\ l = "polled" => waiting[r] # 0
    <2>1. /\ "woken" \in ReaderLabels \ {"idle"} /\ "gap" \in ReaderLabels \ {"idle"}
          /\ "polled" \in ReaderLabels \ {"idle"} /\ "asleep" \in ReaderLabels \ {"idle"}
      BY DEF ReaderLabels
    <2>2. at[r] # "idle"
      BY DEF WaitTest, WaitSleep
    <2>3. CASE WaitTest(r)
      <3>1. at' = [at EXCEPT ![r] = IF newdata THEN "woken"
                                    ELSE IF waiting[r] = 0 THEN "gap" ELSE "polled"]
        BY <2>3 DEF WaitTest, Goto
      <3>2. CASE newdata
        <4>1. at' = [at EXCEPT ![r] = "woken"]
          BY <3>1, <3>2
        <4>2. QED
          BY <2>1, <2>2, <4>1, Zenon
      <3>3. CASE ~newdata /\ waiting[r] = 0
        <4>1. at' = [at EXCEPT ![r] = "gap"]
          BY <3>1, <3>3
        <4>2. QED
          BY <2>1, <2>2, <4>1, Zenon
      <3>4. CASE ~newdata /\ waiting[r] # 0
        <4>1. at' = [at EXCEPT ![r] = "polled"]
          BY <3>1, <3>4
        <4>2. QED
          BY <2>1, <2>2, <3>4, <4>1
      <3>5. QED
        BY <3>2, <3>3, <3>4
    <2>4. CASE WaitSleep(r)
      <3>1. at' = [at EXCEPT ![r] = "asleep"]
        BY <2>4 DEF WaitSleep, Goto
      <3>2. QED
        BY <2>1, <2>2, <3>1, Zenon
    <2>5. QED
      BY <2>3, <2>4
  <1>3. /\ UNCHANGED <<data, rptr, wptr, datachunks, newdatawaiters, empty,
                       clients, raw, p, want, waiting, sent, got, mark, missed, broken, rough>>
        /\ newdata' \in BOOLEAN
    <2>1. CASE WaitTest(r)
      BY <2>1 DEF WaitTest, buffer, ends, counts
    <2>2. CASE WaitSleep(r)
      BY <1>1, <2>2 DEF WaitSleep, buffer, events, ends, counts, TypeOK
    <2>3. QED
      BY <2>1, <2>2
  <1>4. /\ FlushesAgree' /\ InCall' = InCall \cup {r}
        /\ at'[r] = l /\ \A t \in Readers : t # r => at'[t] = at[t]
        /\ at' \in [Writers \cup Readers -> {"idle", "rawflush", "flushtest",
             "flushgap", "flushasleep", "flushed", "unlocked", "gap", "asleep", "woken", "polled"}]
    BY <1>2, <1>3, ReaderGoes
  <1>5. InCall' = InCall
    BY <1>2, <1>4 DEF InCall
  <1>6. TypeOK'
    BY <1>1, <1>3, <1>4 DEF TypeOK
  <1>7. Extents' /\ BytesAgree'
    BY <1>1, <1>3 DEF Extents, BytesAgree, Unread
  <1>8. l = "polled" => waiting[r] > 0
    BY <1>1, <1>2, QLocalPipeAssumption DEF TypeOK
  <1>9. ReadersAgree'
    BY <1>1, <1>2, <1>3, <1>4, <1>5, <1>8 DEF ReadersAgree
  <1>10. UNCHANGED Pipe!vars
    BY <1>3 DEF Pipe!vars, Unread
  <1>11. QED
    BY <1>4, <1>6, <1>7, <1>9, <1>10 DEF Base
-----------------------------------------------------------------------------
\* The lengths of what is unread, of a pipe whose writing end is open.
LEMMA UnreadLength ==
  ASSUME TypeOK, Extents, clients = 2
  PROVE  /\ Unread \in Seq(0..MaxBytes) /\ Len(Unread) \in Nat
         /\ Len(Unread) = Len(data) - rptr /\ Len(data) \in Nat /\ rptr \in Nat
         /\ There = Len(Unread)
  <1>1. /\ data \in Seq(0..MaxBytes) /\ rptr \in Nat /\ wptr \in Nat /\ Len(data) \in Nat
        /\ datachunks - 1 \in Int /\ Granularity \in Nat \ {0}
    BY QLocalPipeAssumption, LenProperties DEF TypeOK
  <1>2. Len(data) = (datachunks - 1) * Granularity + wptr /\ rptr \in 0..Len(data)
    BY <1>1 DEF Extents
  <1>3. Unread \in Seq(0..MaxBytes) /\ Len(Unread) = Len(data) - rptr
    BY <1>1, <1>2, DropProperties DEF Unread
  <1>4. PICK e \in Int : e = (datachunks - 1) * Granularity
    BY <1>1, Products
  <1>5. There = Len(Unread)
    BY <1>1, <1>2, <1>3, <1>4 DEF There
  <1>6. QED
    BY <1>1, <1>2, <1>3, <1>5

\* What readers keep, if none enters, leaves or counts anew and nothing is taken.
LEMMA PlainStays ==
  ASSUME Plain, \A r \in Readers : at'[r] = "idle" <=> at[r] = "idle",
         UNCHANGED <<data, rptr, clients, waiting, sent, got, broken>>
  PROVE  Plain'
  <1>1. Unread' = Unread
    BY DEF Unread
  <1>2. QED
    BY <1>1 DEF Plain

\* A block that fits is a write of the abstract pipe.
LEMMA PlainWrite ==
  ASSUME Base, Plain, NEW w \in Writers, NEW len \in 1..MaxLen, Write(w, len),
         Fits(len, wptr, Granularity)
  PROVE  Plain' /\ Pipe!Next
  <1>1. /\ TypeOK /\ Extents /\ clients = 2 /\ clients' = 2 /\ sent' = sent + len
        /\ UNCHANGED <<clients, got, mark, waiting, broken>>
    BY DEF Base, Write, ends
  <1>2. /\ sent \in Nat /\ got \in Nat /\ MaxBytes \in Nat /\ len \in Nat \ {0}
        /\ waiting \in [Readers -> 0..MaxLen] /\ MaxLen \in Nat
    BY <1>1, QLocalPipeAssumption DEF TypeOK
  <1>3. /\ sent + len <= MaxBytes /\ Unread \in Seq(0..MaxBytes)
        /\ Unread' = Unread \o Block(len, len, sent)
    BY <1>1, WriteMoves
  <1>4. PICK q \in Seq(0..MaxBytes), x \in Seq(0..MaxBytes) :
          q = Unread /\ x = Block(len, len, sent)
    BY <1>2, <1>3, BlockProperties
  <1>5. /\ Len(x) = len /\ Len(q) \in Nat
        /\ \A i \in 1..len : x[i] = sent + i
    <2>1. Len(x) = len
      BY <1>2, <1>3, <1>4, BlockProperties
    <2>2. QED
      BY <1>4, <2>1, LenProperties DEF Block
  <1>6. /\ Len(q \o x) = Len(q) + len
        /\ \A i \in 1..(Len(q) + len) : (q \o x)[i] = IF i <= Len(q) THEN q[i] ELSE x[i - Len(q)]
    <2>1. Len(q \o x) = Len(q) + Len(x)
      BY ConcatProperties
    <2>2. \A i \in 1..(Len(q) + Len(x)) : (q \o x)[i] = IF i <= Len(q) THEN q[i] ELSE x[i - Len(q)]
      BY ConcatProperties
    <2>3. QED
      BY <1>5, <2>1, <2>2
  <1>7. Len(q) = sent - got /\ \A i \in 1..Len(q) : q[i] = got + i
    BY <1>1, <1>4 DEF Plain
  <1>8. Len(Unread') = sent' - got /\ \A i \in 1..Len(Unread') : Unread'[i] = got + i
    <2>1. Unread' = q \o x
      BY <1>3, <1>4
    <2>2. Len(q \o x) = (sent + len) - got
      BY <1>2, <1>5, <1>6, <1>7
    <2>3. ASSUME NEW i \in 1..Len(q \o x) PROVE (q \o x)[i] = got + i
      <3>1. CASE i <= Len(q)
        <4>1. i \in 1..Len(q) /\ i \in 1..(Len(q) + len)
          BY <1>2, <1>5, <1>6, <2>3, <3>1
        <4>2. QED
          BY <1>6, <1>7, <3>1, <4>1
      <3>2. CASE i > Len(q)
        <4>1. i - Len(q) \in 1..len /\ ~(i <= Len(q)) /\ i \in 1..(Len(q) + len)
          BY <1>2, <1>5, <1>6, <2>3, <3>2
        <4>2. (q \o x)[i] = sent + (i - Len(q))
          BY <1>5, <1>6, <4>1
        <4>3. QED
          BY <1>2, <1>5, <1>7, <4>1, <4>2
      <3>3. QED
        BY <1>5, <3>1, <3>2
    <2>4. QED
      BY <1>1, <2>1, <2>2, <2>3
  <1>9. \A r \in Readers : at'[r] = "idle" <=> at[r] = "idle"
    <2>1. PICK polls \in SUBSET ReadersAt({"polled"}) :
            at' = [t \in DOMAIN at |->
                IF Wanted /\ t \in ReadersAt({"asleep"}) \cup polls THEN "woken"
                ELSE IF t = w /\ raw THEN "rawflush" ELSE at[t]]
      BY DEF Write
    <2>2. DOMAIN at = Writers \cup Readers /\ Writers \cap Readers = {}
      BY <1>1, QLocalPipeAssumption DEF TypeOK
    <2>3. \A t \in ReadersAt({"asleep"}) \cup polls : at[t] \in {"asleep", "polled"}
      BY <2>1 DEF ReadersAt
    <2>4. QED
      BY <2>1, <2>2, <2>3
  <1>10. Plain'
    <2>1. ASSUME NEW r \in Readers, at'[r] # "idle" PROVE waiting'[r] <= Len(Unread')
      <3>1. waiting[r] <= Len(Unread) /\ waiting[r] \in Nat
        <4>1. at[r] # "idle"
          BY <1>9, <2>1
        <4>2. waiting[r] \in Nat
          BY <1>2
        <4>3. QED
          BY <4>1, <4>2 DEF Plain
      <3>2. PICK n \in Nat, m \in Nat : n = Len(Unread) /\ m = Len(Unread') /\ n <= m
        <4>1. Len(Unread) \in Nat /\ Len(Unread') = Len(Unread) + len
          BY <1>3, <1>4, <1>5, <1>6
        <4>2. QED
          BY <1>2, <4>1
      <3>3. QED
        BY <1>1, <3>1, <3>2
    <2>2. QED
      BY <1>1, <1>8, <1>9, <2>1 DEF Plain
  <1>11. Pipe!Write(len)
    <2>1. Block(len, len, sent) = [i \in 1..len |-> sent + i]
      BY DEF Block
    <2>2. /\ ~(clients < 2) /\ (clients' < 2) = (clients < 2)
      BY <1>1
    <2>3. QED
      BY <1>1, <1>3, <2>1, <2>2 DEF Pipe!Write
  <1>12. QED
    BY <1>10, <1>11 DEF Pipe!Next

\* What the only reader takes, if it is there, is read of the abstract pipe.
LEMMA PlainTake ==
  ASSUME Base, Plain, NEW r \in Readers, NEW len \in 1..MaxLen, Take(r, len),
         clients = 2, len <= Len(Unread), \A q \in Readers : at[q] # "idle" => q = r,
         UNCHANGED <<clients, sent, mark>>
  PROVE  Plain' /\ Pipe!Next
  <1>1. /\ TypeOK /\ Extents /\ sent \in Nat /\ got \in Nat /\ len \in Nat \ {0}
        /\ Writers \cap Readers = {}
    BY QLocalPipeAssumption DEF Base, TypeOK
  <1>2. rptr + len <= Len(data)
    BY <1>1, UnreadLength
  <1>3. /\ Unread \in Seq(0..MaxBytes) /\ len \in 1..Len(Unread) /\ Unread' = Drop(Unread, len)
        /\ \A i \in 1..len : Unread[i] = data[rptr + i]
    BY <1>1, <1>2, TakeMoves
  <1>4. PICK q \in Seq(0..MaxBytes) : q = Unread
    BY <1>3
  <1>5. /\ Len(q) = sent - got /\ \A i \in 1..Len(q) : q[i] = got + i
        /\ Len(q) \in Nat /\ len \in 1..Len(q)
    BY <1>3, <1>4, LenProperties DEF Plain
  <1>6. got' = got + len
    <2>1. PICK g : g = got' /\ LastTaken(q, len, got, g)
      BY <1>1, <1>2, <1>3, <1>4, TakeLast
    <2>2. len \in 1..len /\ \A i \in 1..len : i \in 1..Len(q) /\ q[i] = got + i /\ q[i] # 0
      BY <1>1, <1>5
    <2>3. PICK k \in 1..len : g = q[k] /\ \A i \in 1..len : i <= k
      BY <2>1, <2>2 DEF LastTaken
    <2>4. k = len
      BY <1>1, <2>2, <2>3
    <2>5. QED
      BY <2>1, <2>2, <2>3, <2>4
  <1>7. /\ Len(Drop(q, len)) = Len(q) - len
        /\ \A i \in 1..(Len(q) - len) : Drop(q, len)[i] = q[len + i]
    <2>1. len \in 0..Len(q)
      BY <1>1, <1>5
    <2>2. QED
      BY <2>1, DropProperties
  <1>8. /\ Len(Unread') = sent - got' /\ \A i \in 1..Len(Unread') : Unread'[i] = got' + i
    <2>1. PICK d : d = Drop(q, len) /\ d = Unread'
      BY <1>3, <1>4
    <2>2. Len(d) = sent - (got + len) /\ Len(d) = Len(q) - len
      BY <1>1, <1>5, <1>7, <2>1
    <2>3. ASSUME NEW i \in 1..Len(d) PROVE d[i] = (got + len) + i
      <3>1. i \in 1..(Len(q) - len) /\ len + i \in 1..Len(q)
        BY <1>1, <1>5, <2>2, <2>3
      <3>2. d[i] = got + (len + i)
        BY <1>5, <1>7, <2>1, <3>1
      <3>3. QED
        BY <1>1, <2>2, <2>3, <3>2
    <2>4. QED
      BY <1>6, <2>1, <2>2, <2>3
  <1>9. broken' = broken /\ \A t \in Readers : at'[t] = "idle"
    <2>1. /\ broken' = broken
          /\ at' = [t \in DOMAIN at |->
                      IF t = r THEN "idle"
                      ELSE IF Drained(len) /\ ~empty /\ at[t] = "flushasleep" THEN "flushed"
                      ELSE at[t]]
      <3>1. ~(rptr + len > Len(data))
        <4>1. rptr \in Int /\ len \in Int /\ Len(data) \in Int
          BY <1>1, UnreadLength
        <4>2. QED
          BY <1>2, <4>1
      <3>2. QED
        BY <3>1, Zenon DEF Take
    <2>2. DOMAIN at = Writers \cup Readers
      BY <1>1 DEF TypeOK
    <2>3. \A t \in Readers : t = r \/ at[t] = "idle"
      OBVIOUS
    <2>4. QED
      BY <2>1, <2>2, <2>3
  <1>10. Plain'
    BY <1>8, <1>9 DEF Plain
  <1>11. Pipe!Read(len)
    <2>1. \A i \in 1..len : Unread[i] = got + i
      BY <1>1, <1>4, <1>5
    <2>2. Unread' = SubSeq(Unread, len + 1, Len(Unread))
      BY <1>3 DEF Drop
    <2>3. (clients' < 2) = (clients < 2)
      OBVIOUS
    <2>4. QED
      BY <1>6, <2>1, <2>2, <2>3 DEF Pipe!Read
  <1>12. QED
    BY <1>3, <1>11, <1>10 DEF Pipe!Next

\* A round of the only reader takes what is there, or counts it and waits.
LEMMA PlainRound ==
  ASSUME Base, Plain, NEW r \in Readers, NEW len \in 1..MaxLen, NEW counted,
         Round(r, len, counted), clients = 2, \A q \in Readers : at[q] # "idle" => q = r,
         UNCHANGED <<clients, sent, mark>>
  PROVE  Plain' /\ (Pipe!Next \/ UNCHANGED Pipe!vars)
  <1>1. TypeOK /\ Extents /\ Readers \subseteq DOMAIN at /\ DOMAIN waiting = Readers
    BY DEF Base, TypeOK
  <1>2. There = Len(Unread) /\ Len(Unread) \in Nat
    BY <1>1, UnreadLength
  <1>3. CASE There >= len /\ Take(r, len)
    <2>1. PICK n \in Nat : n = Len(Unread) /\ n >= len
      BY <1>2, <1>3
    <2>2. len <= Len(Unread)
      BY <2>1
    <2>3. QED
      BY <1>3, <2>2, PlainTake
  <1>4. CASE /\ waiting' = [waiting EXCEPT ![r] = There] /\ at' = [at EXCEPT ![r] = "unlocked"]
             /\ UNCHANGED <<data, rptr, wptr, datachunks, empty, got, missed, broken>>
    <2>1. Unread' = Unread /\ UNCHANGED Pipe!vars
      BY <1>4 DEF Unread, Pipe!vars
    <2>2. /\ waiting'[r] = Len(Unread) /\ at'[r] = "unlocked"
          /\ \A q \in Readers : q # r => at'[q] = at[q]
      BY <1>1, <1>2, <1>4
    <2>3. waiting'[r] <= Len(Unread')
      BY <1>2, <2>1, <2>2
    <2>4. Plain'
      BY <1>4, <2>1, <2>2, <2>3 DEF Plain
    <2>5. QED
      BY <2>1, <2>4
  <1>5. QED
    BY <1>3, <1>4, Zenon DEF Round, Goto, buffer

\* The steps of the only reader.
LEMMA PlainRead ==
  ASSUME Base, Plain, NEW r \in Readers,
         \/ \E len \in 1..MaxLen : Read(r, len) /\ InCall = {}
         \/ ReadAgain(r)
         \/ ReadPolled(r)
  PROVE  Plain' /\ (Pipe!Next \/ UNCHANGED Pipe!vars)
  <1>1. CASE \E len \in 1..MaxLen : Read(r, len) /\ InCall = {}
    <2>1. PICK len \in 1..MaxLen : Read(r, len) /\ InCall = {}
      BY <1>1
    <2>2. \A q \in Readers : at[q] # "idle" => q = r
      BY <2>1 DEF InCall
    <2>3. clients = 2 /\ Round(r, len, Counted) /\ UNCHANGED <<clients, sent, mark>>
      BY <2>1 DEF Read, ends
    <2>4. QED
      BY <2>2, <2>3, PlainRound
  <1>2. CASE ReadAgain(r)
    <2>1. /\ at[r] = "woken" /\ Round(r, want[r], newdatawaiters)
          /\ UNCHANGED <<clients, sent, mark>>
      BY <1>2 DEF ReadAgain, ends
    <2>2. clients = 2 /\ \A q \in Readers : at[q] # "idle" => q = r
      BY <2>1 DEF Plain
    <2>3. want[r] \in 1..MaxLen
      <3>1. want[r] \in 0..MaxLen /\ want[r] > 0
        BY <2>1 DEF Base, TypeOK, ReadersAgree
      <3>2. QED
        BY <3>1, QLocalPipeAssumption
    <2>4. QED
      BY <2>1, <2>2, <2>3, PlainRound
  <1>3. CASE ReadPolled(r)
    <2>1. /\ at[r] = "polled" /\ Take(r, waiting[r]) /\ UNCHANGED <<clients, sent, mark>>
      BY <1>3 DEF ReadPolled, ends
    <2>2. /\ clients = 2 /\ waiting[r] <= Len(Unread)
          /\ \A q \in Readers : at[q] # "idle" => q = r
      BY <2>1 DEF Plain
    <2>3. waiting[r] \in 1..MaxLen
      <3>1. waiting[r] \in 0..MaxLen /\ waiting[r] > 0
        BY <2>1 DEF Base, TypeOK, ReadersAgree
      <3>2. QED
        BY <3>1, QLocalPipeAssumption
    <2>4. QED
      BY <2>1, <2>2, <2>3, PlainTake
  <1>4. QED
    BY <1>1, <1>2, <1>3

\* The steps that take and add nothing.
LEMMA PlainWaits ==
  ASSUME Base, Plain,
         \/ \E r \in Readers : WaitTest(r) \/ WaitSleep(r)
         \/ \E w \in Writers : Flush(w) \/ FlushTest(w) \/ FlushSleep(w) \/ FlushEnd(w)
  PROVE  Plain'
  <1>1. DOMAIN at = Writers \cup Readers /\ Writers \cap Readers = {}
    BY QLocalPipeAssumption DEF Base, TypeOK
  <1>2. UNCHANGED <<data, rptr, clients, waiting, sent, got, broken>>
    BY DEF WaitTest, WaitSleep, Flush, FlushTest, FlushSleep, FlushEnd, buffer, ends, counts
  <1>3. CASE \E r \in Readers : WaitTest(r) \/ WaitSleep(r)
    <2>1. PICK r \in Readers : WaitTest(r) \/ WaitSleep(r)
      BY <1>3
    <2>2. PICK l : at' = [at EXCEPT ![r] = l] /\ l # "idle" /\ at[r] # "idle"
      <3>1. CASE WaitTest(r)
        <4>1. PICK k : k = IF newdata THEN "woken" ELSE IF waiting[r] = 0 THEN "gap" ELSE "polled"
          OBVIOUS
        <4>2. k # "idle"
          BY <4>1
        <4>3. at' = [at EXCEPT ![r] = k] /\ at[r] # "idle"
          BY <3>1, <4>1 DEF WaitTest, Goto
        <4>4. QED
          BY <4>2, <4>3
      <3>2. CASE WaitSleep(r)
        BY <3>2 DEF WaitSleep, Goto
      <3>3. QED
        BY <2>1, <3>1, <3>2
    <2>3. \A q \in Readers : at'[q] = "idle" <=> at[q] = "idle"
      BY <1>1, <2>2
    <2>4. QED
      BY <1>2, <2>3, PlainStays
  <1>4. CASE \E w \in Writers : Flush(w) \/ FlushTest(w) \/ FlushSleep(w) \/ FlushEnd(w)
    <2>1. \E w \in Writers : \E l : at' = [at EXCEPT ![w] = l]
      BY <1>4 DEF Flush, FlushTest, FlushSleep, FlushEnd, Goto
    <2>2. \A q \in Readers : at'[q] = "idle" <=> at[q] = "idle"
      BY <1>1, <2>1
    <2>3. QED
      BY <1>2, <2>2, PlainStays
  <1>5. QED
    BY <1>3, <1>4

\* The end is closed and nobody reads: nobody will.
LEMMA PlainClose ==
  ASSUME Base, Plain, NEW w \in Writers, Close(w), InCall = {}
  PROVE  Plain'
  <1>1. /\ clients' = 1 /\ UNCHANGED <<at, broken>>
    BY DEF Close
  <1>2. \A r \in Readers : at'[r] = "idle"
    BY <1>1 DEF InCall
  <1>3. QED
    BY <1>1, <1>2 DEF Plain
-----------------------------------------------------------------------------
\* A pipe that has just been opened is empty, and so is the abstract one.
LEMMA InitIInv ==
  ASSUME Init
  PROVE  IInv /\ Pipe!Init
  <1>1. /\ Granularity \in Nat \ {0} /\ MaxLen \in Nat /\ MaxBytes \in Nat
        /\ Writers \cap Readers = {} /\ IsFiniteSet(Readers)
    BY QLocalPipeAssumption
  <1>2. data = <<>> /\ Len(data) = 0 /\ data \in Seq(0..MaxBytes)
    BY EmptySeq DEF Init
  <1>3. InCall = {} /\ Cardinality(InCall) = 0 /\ Cardinality(Readers) \in Nat
    BY <1>1, FS_EmptySet, FS_CardinalityType DEF Init, InCall
  <1>4. TypeOK
    <2>1. /\ at \in [Writers \cup Readers -> {"idle", "rawflush", "flushtest",
               "flushgap", "flushasleep", "flushed", "unlocked", "gap", "asleep", "woken", "polled"}]
          /\ want \in [Readers -> 0..MaxLen] /\ waiting \in [Readers -> 0..MaxLen]
          /\ mark \in [Writers -> -1..MaxBytes]
      BY <1>1 DEF Init
    <2>2. /\ rptr \in 0..(Granularity - 1) /\ wptr \in 0..(Granularity - 1)
          /\ datachunks \in Nat \ {0} /\ newdatawaiters \in 0..Cardinality(Readers)
          /\ sent \in 0..MaxBytes /\ got \in 0..MaxBytes
      BY <1>1, <1>3 DEF Init
    <2>3. /\ newdata \in BOOLEAN /\ empty \in BOOLEAN /\ raw \in BOOLEAN
          /\ missed \in BOOLEAN /\ broken \in BOOLEAN /\ rough \in BOOLEAN
          /\ clients \in {1, 2} /\ p \in Writers \cup {Null}
      BY DEF Init
    <2>4. QED
      BY <1>2, <2>1, <2>2, <2>3 DEF TypeOK
  <1>5. Unread = <<>> /\ Len(Unread) = 0
    BY <1>2, EmptySeq DEF Init, Unread, Drop
  <1>6. Extents /\ BytesAgree
    <2>1. PICK q : q = Unread
      OBVIOUS
    <2>2. Len(q) = 0
      BY <1>5, <2>1
    <2>3. Numbers(q, 0, 0)
      BY <2>2 DEF Numbers
    <2>4. got = 0 /\ sent = 0 /\ empty = FALSE /\ clients = 2
      BY DEF Init
    <2>5. BytesAgree
      BY <2>1, <2>3, <2>4 DEF BytesAgree
    <2>6. Extents
      <3>1. rptr = 0 /\ wptr = 0 /\ datachunks = 1
        BY DEF Init
      <3>2. (datachunks - 1) * Granularity = 0
        BY <1>1, <3>1
      <3>3. QED
        BY <1>2, <2>4, <3>1, <3>2 DEF Extents
    <2>7. QED
      BY <2>5, <2>6
  <1>7. FlushesAgree /\ ReadersAgree
    BY <1>1, <1>3 DEF Init, FlushesAgree, WriterLabels, ReadersAgree, ReaderLabels
  <1>8. Pipe!Init
    BY <1>5 DEF Init, Pipe!Init, Unread, Drop
  <1>9. Plain
    BY <1>5 DEF Init, Plain
  <1>10. QED
    BY <1>4, <1>6, <1>7, <1>8, <1>9 DEF IInv, Base

\* Every step keeps what holds in any case.
LEMMA NextBase ==
  ASSUME Base, [Next]_vars
  PROVE  Base'
  <1>1. CASE UNCHANGED vars
    <2>1. UNCHANGED <<data, rptr, wptr, datachunks, newdatawaiters, newdata, empty, clients,
                      raw, p, at, want, waiting, sent, got, mark, missed, broken, rough>>
      BY <1>1 DEF vars, buffer, events, ends, counts
    <2>2. TypeOK' /\ Extents' /\ BytesAgree' /\ FlushesAgree' /\ ReadersAgree'
      BY <2>1 DEF Base, TypeOK, Extents, BytesAgree, FlushesAgree, ReadersAgree, Unread, InCall
    <2>3. QED
      BY <2>2 DEF Base
  <1>2. CASE Next
    <2>1. ~broken
      BY <1>2 DEF Next
    <2>2. ASSUME NEW w \in Writers, NEW len \in 1..MaxLen, Write(w, len)
          PROVE  Base'
      BY <2>2, StepWrite
    <2>3. ASSUME NEW w \in Writers, Flush(w) \/ Flushing(w) \/ Close(w)
          PROVE  Base'
      BY <2>3, StepFlush, StepFlushWait, StepFlushEnd, StepClose DEF Flushing
    <2>4. ASSUME NEW r \in Readers, NEW len \in 1..MaxLen, Read(r, len)
          PROVE  Base'
      BY <2>1, <2>4, StepRead
    <2>5. ASSUME NEW r \in Readers, Reading(r)
          PROVE  Base'
      BY <2>1, <2>5, StepWait, StepReadAgain, StepReadPolled DEF Reading
    <2>6. QED
      BY <1>2, <2>2, <2>3, <2>4, <2>5 DEF Next
  <1>3. QED
    BY <1>1, <1>2

\* As long as the pipe is used as the code bears it, every step is a step of the
\* abstract pipe or none.
LEMMA NextPlain ==
  ASSUME Base, Plain, [Next]_vars, ~rough'
  PROVE  Plain' /\ (Pipe!Next \/ UNCHANGED Pipe!vars)
  <1>1. CASE UNCHANGED vars
    <2>1. UNCHANGED <<data, rptr, wptr, datachunks, newdatawaiters, newdata, empty, clients,
                      raw, p, at, want, waiting, sent, got, mark, missed, broken, rough>>
      BY <1>1 DEF vars, buffer, events, ends, counts
    <2>2. QED
      BY <2>1, PlainStays DEF Unread, Pipe!vars
  <1>2. ASSUME NEW w \in Writers, NEW len \in 1..MaxLen, Write(w, len)
        PROVE  Plain' /\ Pipe!Next
    <2>1. Fits(len, wptr, Granularity)
      BY <1>2 DEF Write
    <2>2. QED
      BY <1>2, <2>1, PlainWrite
  <1>3. ASSUME NEW w \in Writers, Flush(w) \/ Flushing(w)
        PROVE  Plain' /\ (Pipe!Next \/ UNCHANGED Pipe!vars)
    BY <1>3, PlainWaits, StepFlush, StepFlushWait, StepFlushEnd DEF Flushing
  <1>4. ASSUME NEW w \in Writers, Close(w)
        PROVE  Plain' /\ Pipe!Next
    <2>1. InCall = {}
      BY <1>4 DEF Close
    <2>2. QED
      BY <1>4, <2>1, PlainClose, StepClose
  <1>5. ASSUME NEW r \in Readers, NEW len \in 1..MaxLen, Read(r, len)
        PROVE  Plain' /\ (Pipe!Next \/ UNCHANGED Pipe!vars)
    <2>1. InCall = {}
      BY <1>5 DEF Read
    <2>2. QED
      BY <1>5, <2>1, PlainRead
  <1>6. ASSUME NEW r \in Readers, Reading(r)
        PROVE  Plain' /\ (Pipe!Next \/ UNCHANGED Pipe!vars)
    <2>1. ~broken
      BY DEF Plain
    <2>2. QED
      BY <1>6, <2>1, PlainRead, PlainWaits, StepWait DEF Reading
  <1>7. QED
    BY <1>1, <1>2, <1>3, <1>4, <1>5, <1>6 DEF Next

\* An unfit use stays one.
LEMMA RoughStays ==
  ASSUME Base, [Next]_vars, ~rough'
  PROVE  ~rough
  BY DEF Next, vars, Write, Flush, Flushing, FlushTest, FlushSleep, FlushEnd, Close, Read,
         Reading, WaitTest, WaitSleep, ReadAgain, ReadPolled

LEMMA NextIInv ==
  ASSUME IInv, [Next]_vars
  PROVE  IInv' /\ (~rough' => ~broken' /\ [Pipe!Next]_(Pipe!vars))
  <1>1. Base /\ Base' /\ (~rough => Plain)
    BY NextBase DEF IInv
  <1>2. ASSUME ~rough' PROVE Plain' /\ (Pipe!Next \/ UNCHANGED Pipe!vars)
    BY <1>1, <1>2, RoughStays, NextPlain
  <1>3. Plain' => ~broken'
    BY DEF Plain
  <1>4. QED
    BY <1>1, <1>2, <1>3 DEF IInv

\* The chunks, the pointers and the counts always agree with the bytes that have been
\* written and not been read, with the flushes and with the readers; used as the code
\* bears it, nothing else is in the pipe.
THEOREM Invariance == Spec => []IInv
  <1>1. Init => IInv
    BY InitIInv
  <1>2. IInv /\ [Next]_vars => IInv'
    BY NextIInv
  <1>3. QED
    BY <1>1, <1>2, PTL DEF Spec

\* Every variable stays in its domain: the pointers stay in a chunk, and readers are
\* counted once each.
THEOREM TypeCorrect == Spec => []TypeOK
  <1>1. IInv => TypeOK
    BY DEF IInv, Base
  <1>2. QED
    BY <1>1, Invariance, PTL

\* Whatever the blocks, the readers and the close, what has been sent and nobody got is
\* in the pipe, once and in order, and a flush ends when all before it has been read.
THEOREM BytesKept == Spec => []BytesInOrder
  <1>1. IInv => BytesInOrder
    BY DEF IInv, Base, BytesAgree, FlushesAgree, BytesInOrder
  <1>2. QED
    BY <1>1, Invariance, PTL

\* As long as blocks fit, one thread at a time reads and none while the end is closed,
\* no memory but the pipe's is read, bytes are read once each and in the order they were
\* written, with nothing else, a flush ends when what had been written before it has
\* been read, and a close loses what has not been.
THEOREM Refinement == Spec => ImplementsPipe
  <1>1. Init => Pipe!Init
    BY InitIInv
  <1>2. IInv /\ [Next]_vars => [~rough' => ~broken' /\ [Pipe!Next]_(Pipe!vars)]_vars
    BY NextIInv
  <1>3. QED
    BY <1>1, <1>2, Invariance, PTL DEF Spec, ImplementsPipe
=============================================================================
