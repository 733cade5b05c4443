------------------------ MODULE TCPConnectionProofs ------------------------
(***************************************************************************)
(* Proofs about the buffers of a connection, for all lengths of commands   *)
(* and lines, every capacity, every cut of the client's text and every     *)
(* result of write.                                                        *)
(*                                                                         *)
(* QueueAll and Newlines are functions defined by recursion, one step for  *)
(* a line or a character.  What is known of their results is proved with   *)
(* the least-number principle: such a function exists (Recursion), and     *)
(* what its first value has and every step hands on holds of the last      *)
(* (HandedOn).                                                             *)
(***************************************************************************)
EXTENDS TCPConnection, SequenceTheorems, WellFoundedInduction, TLAPS

\* Every set of numbers that is not empty has a least element.
LEMMA Least ==
  ASSUME NEW T \in SUBSET Nat, T # {}
  PROVE  \E n \in T : \A m \in T : n <= m
<1> DEFINE R == OpToRel(<, Nat)
<1>1. IsWellFoundedOn(R, Nat)
  BY NatLessThanWellFounded, Zenon
<1>2. \A m \in Nat, k \in Nat : m < k => <<m, k>> \in R
  BY Zenon DEF OpToRel
<1> HIDE DEF R
<1>3. PICK n \in T : \A m \in T : ~(<<m, n>> \in R)
  BY <1>1, WFMin
<1>4. \A m \in T : ~(m < n)
  BY <1>2, <1>3
<1> QED BY <1>4

\* What holds of the first value of a function and is handed on holds of all.
LEMMA HandedOn ==
  ASSUME NEW S, NEW n \in Nat, NEW f, f[0] \in S,
         \A i \in 1..n : f[i - 1] \in S => f[i] \in S
  PROVE  \A i \in 0..n : f[i] \in S
<1> DEFINE T == {i \in 0..n : f[i] \notin S}
<1>1. SUFFICES ASSUME T # {} PROVE FALSE
  OBVIOUS
<1>2. T \in SUBSET Nat
  OBVIOUS
<1>3. PICK m \in T : \A k \in T : m <= k
  <2> HIDE DEF T
  <2> QED BY <1>1, <1>2, Least
<1>4. m \in 1..n
  OBVIOUS
<1>5. m - 1 \in 0..n /\ m - 1 \notin T
  BY <1>3, <1>4
<1> QED BY <1>4, <1>5

\* f begins with base, and its next value is what step makes of the one before.
Iterates(f, n, base, step) ==
  f[0] = base /\ \A i \in 1..n : f[i] = step[i][f[i - 1]]

\* A function defined by recursion over an interval exists.
LEMMA Recursion ==
  ASSUME NEW S, NEW n \in Nat, NEW base \in S, NEW step \in [1..n -> [S -> S]]
  PROVE  \E f \in [0..n -> S] : Iterates(f, n, base, step)
<1> DEFINE Starts(f, m) == f[0] = base /\ \A i \in 1..m : f[i] = step[i][f[i - 1]]
           T == {m \in 0..n : ~ \E f \in [0..m -> S] : Starts(f, m)}
<1>1. SUFFICES ASSUME T # {} PROVE FALSE
  <2>1. n \notin T
    BY <1>1
  <2> QED BY <2>1 DEF Iterates
<1>2. T \in SUBSET Nat
  OBVIOUS
<1>3. PICK m \in T : \A k \in T : m <= k
  <2> HIDE DEF T
  <2> QED BY <1>1, <1>2, Least
<1>4. m # 0
  <2> SUFFICES ASSUME m = 0 PROVE FALSE
    OBVIOUS
  <2> DEFINE g == [i \in 0..m |-> base]
  <2>1. g \in [0..m -> S] /\ Starts(g, m)
    OBVIOUS
  <2> QED BY <2>1
<1>5. m \in 1..n /\ m - 1 \in 0..n /\ m - 1 \notin T
  BY <1>3, <1>4
<1>6. PICK f \in [0..(m - 1) -> S] : Starts(f, m - 1)
  BY <1>5
<1> DEFINE g == [i \in 0..m |-> IF i = m THEN step[m][f[m - 1]] ELSE f[i]]
<1>7. g \in [0..m -> S]
  <2>1. f[m - 1] \in S
    BY <1>5
  <2>2. step[m][f[m - 1]] \in S
    BY <1>5, <2>1
  <2>3. \A i \in 0..m : i # m => f[i] \in S
    BY <1>5
  <2> QED BY <2>2, <2>3
<1>8. g[0] = base
  BY <1>5, <1>6
<1>9. ASSUME NEW i \in 1..m PROVE g[i] = step[i][g[i - 1]]
  <2>1. i - 1 \in 0..m /\ i - 1 # m /\ g[i - 1] = f[i - 1]
    BY <1>5
  <2>2. CASE i = m
    BY <2>1, <2>2
  <2>3. CASE i # m
    <3>1. i \in 1..(m - 1) /\ g[i] = f[i]
      BY <2>3, <1>5
    <3> QED BY <3>1, <2>1, <1>6
  <2> QED BY <2>2, <2>3
<1> QED BY <1>7, <1>8, <1>9

-----------------------------------------------------------------------------
\* The numbers of the characters of a piece of text.
LEMMA SpanIs ==
  ASSUME NEW a \in Nat, NEW n \in Nat
  PROVE  /\ Span(a + 1, a + n) \in Seq(Nat) /\ Len(Span(a + 1, a + n)) = n
         /\ \A i \in 1..n : Span(a + 1, a + n)[i] = a + i
<1> DEFINE t == Span(a + 1, a + n)
<1>1. t = [i \in 1..n |-> a + i]
  <2>1. (a + n) - (a + 1) + 1 = n /\ \A i \in 1..n : a + 1 + i - 1 = a + i
    OBVIOUS
  <2> QED BY <2>1 DEF Span
<1> QED BY <1>1

\* r and b, one after the other, are increasing numbers of 1..m.
Ordered(r, b, m) ==
  /\ \A i, j \in 1..Len(r) : i < j => r[i] < r[j]
  /\ \A i, j \in 1..Len(b) : i < j => b[i] < b[j]
  /\ \A i \in 1..Len(r), j \in 1..Len(b) : r[i] < b[j]
  /\ \A i \in 1..Len(r) : r[i] \in 1..m
  /\ \A j \in 1..Len(b) : b[j] \in 1..m

(***************************************************************************)
(* The output o follows what the client has got, r: in order, complete     *)
(* unless some has been dropped, and with the last line, if it is one that *)
(* fits into the buffer.                                                   *)
(***************************************************************************)
Kept(o, r) ==
  /\ Len(o.outputBuffer) <= OutCapacity
  /\ Ordered(r, o.outputBuffer, o.made)
  /\ ~o.dropped => r \o o.outputBuffer = Span(1, o.made)
  /\ o.lines # <<>> =>
       LET line == o.lines[Len(o.lines)] IN
       /\ line[2] = o.made
       /\ line[2] - line[1] < OutCapacity =>
            line[1]..line[2] \subseteq Elements(r) \cup Elements(o.outputBuffer)

Outs == [outputBuffer : Seq(Nat), pollout : BOOLEAN, made : Nat,
         lines : Seq(Nat \X Nat), dropped : BOOLEAN]

\* Text that is new comes after all there is.
LEMMA Grown ==
  ASSUME NEW r \in Seq(Nat), NEW b \in Seq(Nat), NEW m \in Nat, NEW n \in Nat,
         Ordered(r, b, m)
  PROVE  Ordered(r, b \o Span(m + 1, m + n), m + n)
<1> DEFINE t == Span(m + 1, m + n)
           d == b \o t
<1>1. t \in Seq(Nat) /\ Len(t) = n /\ \A i \in 1..n : t[i] = m + i
  BY SpanIs
<1> HIDE DEF t
<1>2. /\ d \in Seq(Nat) /\ Len(d) = Len(b) + n
      /\ \A i \in 1..(Len(b) + n) : d[i] = IF i <= Len(b) THEN b[i] ELSE t[i - Len(b)]
  BY <1>1, ConcatProperties
<1>3. \A i \in 1..Len(b) : d[i] = b[i]
  BY <1>2
<1>4. \A i \in 1..Len(d) : i > Len(b) => d[i] = m + i - Len(b) /\ i - Len(b) \in 1..n
  BY <1>1, <1>2
<1> HIDE DEF d
<1>5. \A i \in 1..Len(b) : b[i] \in 1..m
  BY DEF Ordered
<1>a. \A x \in 1..m : x \in 1..(m + n)
  OBVIOUS
<1>b. \A i \in 1..Len(d) : i <= Len(b) => i \in 1..Len(b)
  OBVIOUS
<1>c. \A i \in 1..Len(d) : i <= Len(b) => d[i] = b[i] /\ d[i] \in 1..m
  BY <1>3, <1>5, <1>b
<1>d. \A x \in 1..n, y \in Int : y = m + x => y \in 1..(m + n) /\ y > m
  OBVIOUS
<1>e. \A i \in 1..Len(d) : i > Len(b) => m + i - Len(b) = m + (i - Len(b)) /\ m + i - Len(b) \in Int
  BY <1>2
<1>f. \A i \in 1..Len(d) : i > Len(b) => d[i] \in 1..(m + n) /\ d[i] > m
  BY <1>4, <1>d, <1>e
<1>g. \A i \in 1..Len(d) : i <= Len(b) \/ i > Len(b)
  OBVIOUS
<1>6. \A i \in 1..Len(d) : d[i] \in 1..(m + n)
  BY <1>a, <1>c, <1>f, <1>g
<1>7. ASSUME NEW i \in 1..Len(d), NEW j \in 1..Len(d), i < j PROVE d[i] < d[j]
  <2>1. CASE j <= Len(b)
    <3>1. i \in 1..Len(b) /\ j \in 1..Len(b)
      BY <1>2, <1>7, <2>1
    <3>2. b[i] < b[j]
      BY <1>7, <3>1 DEF Ordered
    <3> QED BY <1>3, <3>1, <3>2
  <2>2. CASE i <= Len(b) /\ j > Len(b)
    <3>1. d[i] \in 1..m /\ d[j] > m /\ d[j] \in 1..(m + n)
      BY <1>c, <1>f, <2>2
    <3> QED BY <3>1
  <2>3. CASE i > Len(b) /\ j > Len(b)
    <3>1. d[i] = m + i - Len(b) /\ d[j] = m + j - Len(b)
      BY <1>4, <2>3
    <3> QED BY <3>1, <1>7
  <2>4. i > Len(b) => j > Len(b)
    BY <1>7
  <2> QED BY <2>1, <2>2, <2>3, <2>4, <1>g
<1>8. ASSUME NEW i \in 1..Len(r), NEW j \in 1..Len(d) PROVE r[i] < d[j]
  <2>1. r[i] \in 1..m
    BY DEF Ordered
  <2>2. CASE j <= Len(b)
    <3>1. r[i] < b[j]
      BY <1>2, <2>2 DEF Ordered
    <3> QED BY <1>2, <1>3, <2>2, <3>1
  <2>3. CASE j > Len(b)
    <3>1. d[j] = m + j - Len(b) /\ j - Len(b) \in 1..n
      BY <1>4, <2>3
    <3> QED BY <2>1, <3>1, <1>2
  <2> QED BY <2>2, <2>3, <1>2
<1>9. \A i \in 1..Len(r) : r[i] \in 1..(m + n)
  <2>1. \A i \in 1..Len(r) : r[i] \in 1..m
    BY DEF Ordered
  <2> QED BY <2>1
<1>10. \A i, j \in 1..Len(r) : i < j => r[i] < r[j]
  BY DEF Ordered
<1>11. Ordered(r, d, m + n)
  <2>1. \A i, j \in 1..Len(d) : i < j => d[i] < d[j]
    BY <1>7
  <2>2. \A i \in 1..Len(r), j \in 1..Len(d) : r[i] < d[j]
    BY <1>8
  <2>3. \A j \in 1..Len(d) : d[j] \in 1..(m + n)
    BY <1>6
  <2> QED BY <2>1, <2>2, <2>3, <1>9, <1>10 DEF Ordered
<1> QED BY <1>11 DEF d, t

\* The order survives if the oldest characters in the buffer are dropped.
LEMMA Shortened ==
  ASSUME NEW r \in Seq(Nat), NEW d \in Seq(Nat), NEW m \in Nat, NEW c \in Seq(Nat),
         NEW k \in Nat, Len(c) = Len(d) - k, \A i \in 1..Len(c) : c[i] = d[i + k],
         Ordered(r, d, m)
  PROVE  Ordered(r, c, m)
<1>1. \A i \in 1..Len(c) : i + k \in 1..Len(d)
  OBVIOUS
<1>2. \A i, j \in 1..Len(c) : i < j => c[i] < c[j]
  <2> TAKE i, j \in 1..Len(c)
  <2>1. i < j => i + k < j + k
    OBVIOUS
  <2> QED BY <1>1, <2>1 DEF Ordered
<1>3. \A i \in 1..Len(r), j \in 1..Len(c) : r[i] < c[j]
  BY <1>1 DEF Ordered
<1>4. \A j \in 1..Len(c) : c[j] \in 1..m
  BY <1>1 DEF Ordered
<1> QED BY <1>2, <1>3, <1>4 DEF Ordered

\* Inserted drops the k oldest characters, as few as possible.
LEMMA InsertedIs ==
  ASSUME NEW d \in Seq(Nat)
  PROVE  \E k \in 0..Len(d) :
           /\ k = IF Len(d) > OutCapacity THEN Len(d) - OutCapacity ELSE 0
           /\ Inserted(d) \in Seq(Nat) /\ Len(Inserted(d)) = Len(d) - k
           /\ \A i \in 1..Len(Inserted(d)) : Inserted(d)[i] = d[i + k]
<1>1. OutCapacity \in Nat
  BY TCPConnectionAssumption
<1> DEFINE k == IF Len(d) > OutCapacity THEN Len(d) - OutCapacity ELSE 0
<1>2. k \in 0..Len(d)
  BY <1>1
<1>3. Inserted(d) = SubSeq(d, k + 1, Len(d))
  BY <1>1 DEF Inserted
<1>4. \A i \in (k + 1)..Len(d) : d[i] \in Nat
  BY <1>2
<1>a. k = IF Len(d) > OutCapacity THEN Len(d) - OutCapacity ELSE 0
  OBVIOUS
<1> HIDE DEF k
<1>5. /\ Inserted(d) \in Seq(Nat)
      /\ Len(Inserted(d)) = IF k + 1 <= Len(d) THEN Len(d) - (k + 1) + 1 ELSE 0
      /\ \A i \in 1..(Len(d) - (k + 1) + 1) : Inserted(d)[i] = d[k + 1 + i - 1]
  <2>1. k + 1 \in Int /\ Len(d) \in Int
    BY <1>2
  <2> QED BY <1>3, <1>4, <2>1, SubSeqProperties
<1>6. Len(Inserted(d)) = Len(d) - k
  BY <1>2, <1>5
<1>7. ASSUME NEW i \in 1..Len(Inserted(d)) PROVE Inserted(d)[i] = d[i + k]
  <2>1. i \in 1..(Len(d) - (k + 1) + 1) /\ k + 1 + i - 1 = i + k
    BY <1>2, <1>6
  <2> QED BY <1>5, <2>1
<1> QED BY <1>a, <1>2, <1>5, <1>6, <1>7

\* What is queued is in the buffer afterwards, if it fits in.
LEMMA NewestIn ==
  ASSUME NEW b \in Seq(Nat), NEW m \in Nat, NEW n \in Nat, n <= OutCapacity
  PROVE  (m + 1)..(m + n) \subseteq Elements(Inserted(b \o Span(m + 1, m + n)))
<1> DEFINE t == Span(m + 1, m + n)
           d == b \o t
           c == Inserted(d)
<1>1. t \in Seq(Nat) /\ Len(t) = n /\ \A i \in 1..n : t[i] = m + i
  BY SpanIs
<1> HIDE DEF t
<1>2. /\ d \in Seq(Nat) /\ Len(d) = Len(b) + n
      /\ \A i \in 1..(Len(b) + n) : d[i] = IF i <= Len(b) THEN b[i] ELSE t[i - Len(b)]
  BY <1>1, ConcatProperties
<1> HIDE DEF d
<1>3. PICK k \in 0..Len(d) :
        /\ k = IF Len(d) > OutCapacity THEN Len(d) - OutCapacity ELSE 0
        /\ c \in Seq(Nat) /\ Len(c) = Len(d) - k
        /\ \A i \in 1..Len(c) : c[i] = d[i + k]
  BY <1>2, InsertedIs
<1> HIDE DEF c
<1>4. OutCapacity \in Nat /\ k <= Len(b) /\ k \in Nat
  BY <1>2, <1>3, TCPConnectionAssumption
<1>5. ASSUME NEW x \in (m + 1)..(m + n) PROVE x \in Elements(c)
  <2> DEFINE i == x - m
             j == Len(b) + i - k
  <2>1. i \in 1..n /\ x = m + i
    OBVIOUS
  <2> HIDE DEF i
  <2>2. j \in 1..Len(c) /\ j + k = Len(b) + i
    BY <1>2, <1>3, <1>4, <2>1
  <2>3. Len(b) + i \in 1..(Len(b) + n) /\ ~(Len(b) + i <= Len(b)) /\ (Len(b) + i) - Len(b) = i
    BY <2>1
  <2> HIDE DEF j
  <2>4. c[j] = d[Len(b) + i]
    BY <1>3, <2>2
  <2>5. d[Len(b) + i] = t[i]
    BY <1>2, <2>3
  <2>6. c[j] = x
    BY <1>1, <2>1, <2>4, <2>5
  <2>7. j \in DOMAIN c
    BY <1>3, <2>2
  <2> QED BY <2>6, <2>7 DEF Elements
<1> QED BY <1>5 DEF c, d, t

\* What was complete is, with the new text.
LEMMA SpanGrows ==
  ASSUME NEW m \in Nat, NEW n \in Nat
  PROVE  Span(1, m) \o Span(m + 1, m + n) = Span(1, m + n)
<1> DEFINE s == Span(1, m)
           t == Span(m + 1, m + n)
           u == Span(1, m + n)
<1>1. \A k \in Nat : Span(1, k) \in Seq(Nat) /\ Len(Span(1, k)) = k
                     /\ \A i \in 1..k : Span(1, k)[i] = i
  <2> TAKE k \in Nat
  <2>1. Span(1, k) = [i \in 1..k |-> i]
    BY DEF Span
  <2> QED BY <2>1
<1>2. s \in Seq(Nat) /\ Len(s) = m /\ \A i \in 1..m : s[i] = i
  BY <1>1
<1>3. u \in Seq(Nat) /\ Len(u) = m + n /\ \A i \in 1..(m + n) : u[i] = i
  <2>1. m + n \in Nat
    OBVIOUS
  <2> QED BY <1>1, <2>1
<1>4. t \in Seq(Nat) /\ Len(t) = n /\ \A i \in 1..n : t[i] = m + i
  BY SpanIs
<1> HIDE DEF s, t, u
<1>5. /\ s \o t \in Seq(Nat) /\ Len(s \o t) = m + n
      /\ \A i \in 1..(m + n) : (s \o t)[i] = IF i <= m THEN s[i] ELSE t[i - m]
  BY <1>2, <1>4, ConcatProperties
<1>6. ASSUME NEW i \in 1..Len(s \o t) PROVE (s \o t)[i] = u[i]
  <2>0. i \in 1..(m + n)
    BY <1>5
  <2>1. CASE i <= m
    <3>1. i \in 1..m
      BY <2>0, <2>1
    <3> QED BY <1>2, <1>3, <1>5, <2>0, <2>1, <3>1
  <2>2. CASE ~(i <= m)
    <3>1. i - m \in 1..n /\ m + (i - m) = i
      BY <2>0, <2>2
    <3> QED BY <1>3, <1>4, <1>5, <2>0, <2>2, <3>1
  <2> QED BY <2>1, <2>2
<1>7. s \o t = u
  BY <1>3, <1>5, <1>6, SeqEqual
<1> QED BY <1>7 DEF s, t, u

\* Concatenation is associative.
LEMMA Associative == \A u, v, w \in Seq(Nat) : (u \o v) \o w = u \o (v \o w)
BY ConcatAssociative

\* A line that is queued, whatever its length, keeps the output as it should be.
LEMMA Queued ==
  ASSUME NEW r \in Seq(Nat), NEW o \in Outs, Kept(o, r), NEW len \in Nat
  PROVE  QueueOutput(o, len) \in Outs /\ Kept(QueueOutput(o, len), r)
<1> DEFINE b == o.outputBuffer
           m == o.made
           line == <<m + 1, m + len>>
           t == Span(m + 1, m + len)
           d == b \o t
           k == IF Len(d) > OutCapacity THEN Len(d) - OutCapacity ELSE 0
           new == [o EXCEPT !.made = @ + len, !.lines = Append(@, line)]
           q == QueueOutput(o, len)
<1>1. b \in Seq(Nat) /\ m \in Nat /\ OutCapacity \in Nat
  BY TCPConnectionAssumption DEF Outs
<1>2. line \in Nat \X Nat /\ m + len \in Nat
  BY <1>1
<1>3. Append(o.lines, line) \in Seq(Nat \X Nat) /\ Append(o.lines, line) # <<>>
      /\ Append(o.lines, line)[Len(Append(o.lines, line))] = line
  <2>1. o.lines \in Seq(Nat \X Nat)
    BY DEF Outs
  <2> HIDE DEF line
  <2> QED BY <1>2, <2>1, AppendProperties
<1>4. new \in Outs /\ new.made = m + len /\ new.lines = Append(o.lines, line)
      /\ new.outputBuffer = b /\ new.dropped = o.dropped
  BY <1>2, <1>3 DEF Outs
<1>5. t \in Seq(Nat) /\ Len(t) = len
  BY <1>1, SpanIs
<1>6. d \in Seq(Nat) /\ Len(d) = Len(b) + len
  <2> HIDE DEF t, b
  <2> QED BY <1>1, <1>5, ConcatProperties
<1>7. Ordered(r, d, m + len)
  <2>1. Ordered(r, b, m)
    BY DEF Kept
  <2> QED BY <1>1, <2>1, Grown
<1> HIDE DEF new
<1>8. CASE len > OutCapacity
  <2>1. q = [new EXCEPT !.dropped = TRUE]
    BY <1>8 DEF QueueOutput, new
  <2>2. q \in Outs /\ q.made = m + len /\ q.lines = Append(o.lines, line)
        /\ q.outputBuffer = b /\ q.dropped = TRUE
    BY <1>4, <2>1 DEF Outs
  <2> HIDE DEF q, b, m, line
  <2>3. Len(b) <= OutCapacity
    BY DEF Kept, b
  <2>4. Ordered(r, b, m + len)
    <3>1. Ordered(r, b, m)
      BY DEF Kept, b, m
    <3>2. \A x \in 1..m : x \in 1..(m + len)
      BY <1>1
    <3> QED BY <3>1, <3>2 DEF Ordered
  <2>5. ~(line[2] - line[1] < OutCapacity) /\ line[2] = m + len
    BY <1>1, <1>8 DEF line
  <2>6. Kept(q, r)
    BY <1>3, <2>2, <2>3, <2>4, <2>5 DEF Kept
  <2> QED BY <2>2, <2>6 DEF q
<1>9. CASE ~(len > OutCapacity)
  <2> DEFINE c == Inserted(d)
  <2>1. q = [new EXCEPT !.outputBuffer = c, !.pollout = TRUE,
                        !.dropped = @ \/ Len(d) > OutCapacity]
    BY <1>9 DEF QueueOutput, new
  <2>2. (m + 1)..(m + len) \subseteq Elements(c)
    <3> HIDE DEF b, m
    <3>1. len <= OutCapacity
      BY <1>1, <1>9
    <3> QED BY <1>1, <3>1, NewestIn
  <2>3. r \o b = Span(1, m) => r \o d = Span(1, m + len)
    <3> HIDE DEF b, m
    <3>1. Span(1, m) \o t = Span(1, m + len)
      BY <1>1, SpanGrows
    <3> HIDE DEF t
    <3>2. r \in Seq(Nat) /\ b \in Seq(Nat) /\ t \in Seq(Nat)
      BY <1>1, <1>5
    <3>3. (r \o b) \o t = r \o (b \o t)
      BY <3>2, Associative
    <3> QED BY <3>1, <3>3
  <2>a. ~o.dropped => r \o b = Span(1, m)
    BY DEF Kept
  <2> HIDE DEF d
  <2>4. /\ c \in Seq(Nat) /\ Len(c) = Len(d) - k /\ k \in 0..Len(d)
        /\ \A i \in 1..Len(c) : c[i] = d[i + k]
    BY <1>6, InsertedIs
  <2> HIDE DEF c
  <2>5. /\ q \in Outs /\ q.made = m + len /\ q.lines = Append(o.lines, line)
        /\ q.outputBuffer = c
        /\ q.dropped <=> o.dropped \/ Len(d) > OutCapacity
    <3> HIDE DEF q
    <3>1. (Len(d) > OutCapacity) \in BOOLEAN /\ o.dropped \in BOOLEAN
      BY <1>4 DEF Outs
    <3> QED BY <1>4, <2>1, <2>4, <3>1 DEF Outs
  <2> HIDE DEF q, b, m, line
  <2>6. ~q.dropped => r \o c = Span(1, m + len)
    <3> SUFFICES ASSUME ~q.dropped PROVE r \o c = Span(1, m + len)
      OBVIOUS
    <3>1. ~o.dropped /\ ~(Len(d) > OutCapacity)
      BY <2>5
    <3>2. k = 0
      BY <3>1
    <3> HIDE DEF k
    <3>3. \A i \in 1..Len(c) : i + 0 = i
      BY <2>4
    <3>4. Len(c) = Len(d) /\ \A i \in 1..Len(c) : c[i] = d[i]
      BY <1>6, <2>4, <3>2, <3>3
    <3>5. c = d
      BY <1>6, <2>4, <3>4, SeqEqual
    <3> QED BY <3>1, <3>5, <2>3, <2>a
  <2>7. Len(c) <= OutCapacity
    BY <1>1, <1>6, <2>4
  <2>8. Ordered(r, c, m + len)
    <3> HIDE DEF k
    <3>1. k \in Nat
      BY <1>6, <2>4
    <3> QED BY <1>2, <1>6, <1>7, <2>4, <3>1, Shortened
  <2>9. line[2] = m + len /\ line[1] = m + 1
    BY DEF line
  <2>10. Kept(q, r)
    <3>1. q.lines # <<>> /\ q.lines[Len(q.lines)] = line
      BY <1>3, <2>5
    <3> QED BY <2>2, <2>5, <2>6, <2>7, <2>8, <2>9, <3>1 DEF Kept
  <2> QED BY <2>5, <2>10 DEF q
<1> QED BY <1>8, <1>9

\* So do any number of lines, one after the other.
LEMMA QueuedAll ==
  ASSUME NEW r \in Seq(Nat), Out \in Outs, Kept(Out, r),
         NEW n \in Nat, NEW lens \in [1..n -> LineLengths]
  PROVE  QueueAll(lens) \in Outs /\ Kept(QueueAll(lens), r)
<1> DEFINE S == {o \in Outs : Kept(o, r)}
           step == [i \in 1..n |-> [o \in S |-> QueueOutput(o, lens[i])]]
           Is(f) == f = [i \in 0..n |-> IF i = 0 THEN Out
                                        ELSE QueueOutput(f[i - 1], lens[i])]
           after == CHOOSE f : Is(f)
<1>1. \A o \in S, i \in 1..n : QueueOutput(o, lens[i]) \in S
  <2> TAKE o \in S, i \in 1..n
  <2>1. lens[i] \in Nat
    BY TCPConnectionAssumption
  <2> QED BY <2>1, Queued
<1>2. Out \in S
  OBVIOUS
<1>3. n = Len(lens)
  OBVIOUS
<1> HIDE DEF S
<1>4. step \in [1..n -> [S -> S]]
  BY <1>1
<1>5. \A o \in S, i \in 1..n : step[i][o] = QueueOutput(o, lens[i])
  OBVIOUS
<1> HIDE DEF step
<1>a. PICK f \in [0..n -> S] : Iterates(f, n, Out, step)
  BY <1>2, <1>4, Recursion
<1>6. f[0] = Out /\ \A i \in 1..n : f[i] = step[i][f[i - 1]]
  BY <1>a DEF Iterates
<1>7. ASSUME NEW i \in 0..n
      PROVE  f[i] = IF i = 0 THEN Out ELSE QueueOutput(f[i - 1], lens[i])
  <2>1. CASE i = 0
    BY <1>6, <2>1
  <2>2. CASE i # 0
    <3>1. i \in 1..n /\ i - 1 \in 0..n
      BY <2>2
    <3>2. f[i - 1] \in S
      BY <3>1
    <3> QED BY <1>5, <1>6, <2>2, <3>1, <3>2
  <2> QED BY <2>1, <2>2
<1>8. Is(f)
  <2> HIDE DEF Out, QueueOutput
  <2>1. f = [i \in 0..n |-> f[i]]
    OBVIOUS
  <2>2. [i \in 0..n |-> f[i]] = [i \in 0..n |-> IF i = 0 THEN Out ELSE QueueOutput(f[i - 1],
     lens[i])]
    BY <1>7, Zenon
  <2> QED BY <2>1, <2>2
<1>9. Is(after)
  <2> HIDE DEF Is
  <2> QED BY <1>8
<1>10. \A i \in 0..n : after[i] = IF i = 0 THEN Out ELSE QueueOutput(after[i - 1], lens[i])
  <2> HIDE DEF after
  <2> QED BY <1>9
<1>11. QueueAll(lens) = after[n]
  BY <1>3, Zenon DEF QueueAll
<1> HIDE DEF after, Is
<1>12. after[0] \in S
  BY <1>2, <1>10
<1>13. ASSUME NEW i \in 1..n, after[i - 1] \in S PROVE after[i] \in S
  <2>1. i \in 0..n /\ i # 0
    OBVIOUS
  <2>2. after[i] = QueueOutput(after[i - 1], lens[i])
    BY <1>10, <2>1
  <2> QED BY <1>1, <1>13, <2>2
<1>14. \A i \in 0..n : after[i] \in S
  BY <1>12, <1>13, HandedOn
<1> QED BY <1>11, <1>14 DEF S

\* What is written goes from the buffer to the client: together they are as before.
LEMMA Written ==
  ASSUME NEW r \in Seq(Nat), NEW o \in Outs, NEW q \in Outs, Kept(o, r),
         NEW nb \in 1..Len(o.outputBuffer),
         q.outputBuffer = SubSeq(o.outputBuffer, nb + 1, Len(o.outputBuffer)),
         q.made = o.made, q.lines = o.lines, q.dropped = o.dropped
  PROVE  LET s == r \o SubSeq(o.outputBuffer, 1, nb) IN s \in Seq(Nat) /\ Kept(q, s)
<1> DEFINE b == o.outputBuffer
           u == SubSeq(b, 1, nb)
           v == SubSeq(b, nb + 1, Len(b))
           s == r \o u
           m == o.made
<1>1. b \in Seq(Nat) /\ m \in Nat /\ nb \in 1..Len(b) /\ q.outputBuffer = v
  BY DEF Outs
<1>2. Ordered(r, b, m) /\ Len(b) <= OutCapacity
  BY DEF Kept
<1> HIDE DEF b, m
<1>3. u \in Seq(Nat) /\ Len(u) = nb /\ \A i \in 1..nb : u[i] = b[i]
  <2>1. \A i \in 1..nb : b[i] \in Nat /\ 1 + i - 1 = i
    BY <1>1
  <2>2. nb \in Int /\ 1 \in Int /\ nb - 1 + 1 = nb /\ 1 <= nb
    BY <1>1
  <2> QED BY <2>1, <2>2, SubSeqProperties
<1>4. v \in Seq(Nat) /\ Len(v) = Len(b) - nb /\ \A i \in 1..(Len(b) - nb) : v[i] = b[i + nb]
  <2>1. \A i \in (nb + 1)..Len(b) : b[i] \in Nat
    BY <1>1
  <2>2. nb + 1 \in Int /\ Len(b) \in Int
    BY <1>1
  <2>3. /\ v \in Seq(Nat)
        /\ Len(v) = IF nb + 1 <= Len(b) THEN Len(b) - (nb + 1) + 1 ELSE 0
        /\ \A i \in 1..(Len(b) - (nb + 1) + 1) : v[i] = b[nb + 1 + i - 1]
    BY <2>1, <2>2, SubSeqProperties
  <2>4. Len(b) - (nb + 1) + 1 = Len(b) - nb /\ \A i \in 1..(Len(b) - nb) : nb + 1 + i - 1 = i + nb
    BY <1>1
  <2>5. ~(nb + 1 <= Len(b)) => Len(b) - nb = 0
    BY <1>1
  <2>6. Len(v) = Len(b) - nb
    <3> HIDE DEF v
    <3>1. CASE nb + 1 <= Len(b)
      BY <2>3, <2>4, <3>1
    <3>2. CASE ~(nb + 1 <= Len(b))
      BY <2>3, <2>5, <3>2
    <3> QED BY <3>1, <3>2
  <2>7. \A i \in 1..(Len(b) - nb) : v[i] = b[i + nb]
    <3> HIDE DEF v
    <3> QED BY <2>3, <2>4
  <2> QED BY <2>3, <2>6, <2>7
<1>5. u \o v = b
  <2>1. 1 \in 1..(Len(b) + 1) /\ nb \in (1 - 1)..Len(b) /\ Len(b) \in nb..Len(b)
    BY <1>1
  <2>2. u \o v = SubSeq(b, 1, Len(b))
    BY <1>1, <2>1, ConcatAdjacentSubSeq
  <2> QED BY <1>1, <2>2, SubSeqFull
<1> HIDE DEF u, v
<1>6. /\ s \in Seq(Nat) /\ Len(s) = Len(r) + nb
      /\ \A i \in 1..(Len(r) + nb) : s[i] = IF i <= Len(r) THEN r[i] ELSE u[i - Len(r)]
  BY <1>3, ConcatProperties
<1>7. s \o v = r \o b
  <2>1. (r \o u) \o v = r \o (u \o v)
    BY <1>3, <1>4, Associative
  <2> QED BY <1>5, <2>1
<1> HIDE DEF s
<1>8. \A i \in 1..Len(s) : \/ i \in 1..Len(r) /\ s[i] = r[i]
                           \/ i - Len(r) \in 1..nb /\ s[i] = b[i - Len(r)]
  <2> TAKE i \in 1..Len(s)
  <2>1. CASE i <= Len(r)
    BY <1>6, <2>1
  <2>2. CASE ~(i <= Len(r))
    <3>1. i - Len(r) \in 1..nb
      BY <1>6, <2>2
    <3> QED BY <1>3, <1>6, <2>2, <3>1
  <2> QED BY <2>1, <2>2
<1>9. \A i \in 1..nb : i \in 1..Len(b)
  BY <1>1
<1>10. \A j \in 1..Len(v) : nb < j + nb /\ j + nb \in 1..Len(b) /\ v[j] = b[j + nb]
  <2> TAKE j \in 1..Len(v)
  <2>1. j \in 1..(Len(b) - nb)
    BY <1>4
  <2>2. nb < j + nb /\ j + nb \in 1..Len(b)
    BY <1>1, <2>1
  <2> QED BY <1>4, <2>1, <2>2
<1>11. \A i \in 1..nb, j \in 1..Len(v) : b[i] < v[j]
  <2> TAKE i \in 1..nb, j \in 1..Len(v)
  <2>1. i < j + nb
    BY <1>1, <1>4
  <2>2. b[i] < b[j + nb]
    BY <1>2, <1>9, <1>10, <2>1 DEF Ordered
  <2> QED BY <1>10, <2>2
<1>12. Ordered(s, v, m)
  <2>1. ASSUME NEW i \in 1..Len(s), NEW j \in 1..Len(s), i < j PROVE s[i] < s[j]
    <3>1. CASE i \in 1..Len(r) /\ s[i] = r[i] /\ j \in 1..Len(r) /\ s[j] = r[j]
      BY <1>2, <2>1, <3>1 DEF Ordered
    <3>2. CASE /\ i \in 1..Len(r) /\ s[i] = r[i]
               /\ j - Len(r) \in 1..nb /\ s[j] = b[j - Len(r)]
      BY <1>2, <1>9, <3>2 DEF Ordered
    <3>3. CASE /\ i - Len(r) \in 1..nb /\ s[i] = b[i - Len(r)]
               /\ j - Len(r) \in 1..nb /\ s[j] = b[j - Len(r)]
      <4>1. i - Len(r) < j - Len(r)
        BY <2>1
      <4> QED BY <1>2, <1>9, <3>3, <4>1 DEF Ordered
    <3>4. ~(i - Len(r) \in 1..nb /\ j \in 1..Len(r))
      BY <2>1
    <3> QED BY <1>8, <3>1, <3>2, <3>3, <3>4
  <2>2. \A i, j \in 1..Len(v) : i < j => v[i] < v[j]
    <3> TAKE i, j \in 1..Len(v)
    <3>1. i < j => i + nb < j + nb
      BY <1>1
    <3> QED BY <1>2, <1>10, <3>1 DEF Ordered
  <2>3. \A i \in 1..Len(s), j \in 1..Len(v) : s[i] < v[j]
    <3> TAKE i \in 1..Len(s), j \in 1..Len(v)
    <3>1. CASE i \in 1..Len(r) /\ s[i] = r[i]
      BY <1>2, <1>10, <3>1 DEF Ordered
    <3>2. CASE i - Len(r) \in 1..nb /\ s[i] = b[i - Len(r)]
      BY <1>11, <3>2
    <3> QED BY <1>8, <3>1, <3>2
  <2>4. \A i \in 1..Len(s) : s[i] \in 1..m
    BY <1>2, <1>8, <1>9 DEF Ordered
  <2>5. \A j \in 1..Len(v) : v[j] \in 1..m
    BY <1>2, <1>10 DEF Ordered
  <2> QED BY <2>1, <2>2, <2>3, <2>4, <2>5 DEF Ordered
<1>13. Elements(r) \cup Elements(b) \subseteq Elements(s) \cup Elements(v)
  <2>1. ASSUME NEW i \in 1..Len(r) PROVE r[i] \in Elements(s)
    <3>1. i \in 1..(Len(r) + nb) /\ i <= Len(r) /\ i \in 1..Len(s)
      BY <1>1, <1>6
    <3>2. s[i] = r[i] /\ i \in DOMAIN s
      BY <1>6, <3>1
    <3> QED BY <3>2 DEF Elements
  <2>2. ASSUME NEW i \in 1..Len(b) PROVE b[i] \in Elements(s) \cup Elements(v)
    <3>1. CASE i <= nb
      <4> DEFINE j == Len(r) + i
      <4>1. j \in 1..(Len(r) + nb) /\ ~(j <= Len(r)) /\ j - Len(r) = i /\ i \in 1..nb
        BY <1>1, <3>1
      <4> HIDE DEF j
      <4>2. s[j] = u[i] /\ u[i] = b[i]
        BY <1>3, <1>6, <4>1
      <4>3. j \in DOMAIN s
        BY <1>6, <4>1
      <4> QED BY <4>2, <4>3 DEF Elements
    <3>2. CASE i > nb
      <4> DEFINE j == i - nb
      <4>1. j \in 1..(Len(b) - nb) /\ j + nb = i
        BY <1>1, <3>2
      <4> HIDE DEF j
      <4>2. v[j] = b[i]
        BY <1>4, <4>1
      <4>3. j \in DOMAIN v
        BY <1>4, <4>1
      <4> QED BY <4>2, <4>3 DEF Elements
    <3> QED BY <1>1, <3>1, <3>2
  <2>3. DOMAIN r = 1..Len(r) /\ DOMAIN b = 1..Len(b)
    BY <1>1
  <2> QED BY <2>1, <2>2, <2>3 DEF Elements
<1>14. Len(v) <= OutCapacity
  BY <1>1, <1>2, <1>4, TCPConnectionAssumption
<1>15. ~q.dropped => s \o v = Span(1, q.made)
  <2>1. ~o.dropped => r \o b = Span(1, o.made)
    BY DEF Kept, b
  <2> QED BY <1>7, <2>1
<1>16. Kept(q, s)
  <2>1. o.lines # <<>> =>
         LET line == o.lines[Len(o.lines)] IN
         /\ line[2] = o.made
         /\ line[2] - line[1] < OutCapacity =>
              line[1]..line[2] \subseteq Elements(r) \cup Elements(b)
    BY DEF Kept, b
  <2>2. Ordered(s, v, q.made)
    BY <1>12 DEF m
  <2> QED BY <1>1, <1>13, <1>14, <1>15, <2>1, <2>2 DEF Kept
<1> QED BY <1>6, <1>16 DEF s, u, b

-----------------------------------------------------------------------------
\* u gathers the newlines of text, one character after the other.
Gathers(u, text) ==
  /\ u[0] = <<>>
  /\ \A i \in 1..Len(text) :
       u[i] = IF Newline(text[i]) THEN Append(u[i - 1], text[i]) ELSE u[i - 1]

\* Newlines is the last value of such a function.
LEMMA NewlinesGathered ==
  ASSUME NEW text \in Seq(Nat)
  PROVE  \E u \in [0..Len(text) -> Seq(Nat)] :
           Gathers(u, text) /\ Newlines(text) = u[Len(text)]
<1> DEFINE S == Seq(Nat)
           n == Len(text)
           One(s, i) == IF Newline(text[i]) THEN Append(s, text[i]) ELSE s
           step == [i \in 1..n |-> [s \in S |-> One(s, i)]]
           Is(f) == f = [i \in 0..n |-> IF i = 0 THEN <<>>
                                        ELSE IF Newline(text[i]) THEN Append(f[i - 1],
                                           text[i]) ELSE f[i - 1]]
           upto == CHOOSE f : Is(f)
<1>1. \A s \in S, i \in 1..n : One(s, i) \in S
  <2> TAKE s \in S, i \in 1..n
  <2>1. text[i] \in Nat
    OBVIOUS
  <2>2. Append(s, text[i]) \in S
    BY <2>1, AppendProperties
  <2> QED BY <2>2
<1>2. <<>> \in S /\ n \in Nat
  OBVIOUS
<1>3. \A f, i : One(f[i - 1], i) = IF Newline(text[i]) THEN Append(f[i - 1],
   text[i]) ELSE f[i - 1]
  OBVIOUS
<1>4. Newlines(text) = upto[n]
  BY Zenon DEF Newlines
<1> HIDE DEF S, One, n
<1>5. step \in [1..n -> [S -> S]]
  BY <1>1
<1>6. \A s \in S, i \in 1..n : step[i][s] = One(s, i)
  OBVIOUS
<1> HIDE DEF step
<1>7. PICK f \in [0..n -> S] : Iterates(f, n, <<>>, step)
  BY <1>2, <1>5, Recursion
<1>8. f[0] = <<>> /\ \A i \in 1..n : f[i] = step[i][f[i - 1]]
  BY <1>7 DEF Iterates
<1>9. ASSUME NEW i \in 0..n
      PROVE  f[i] = IF i = 0 THEN <<>>
                    ELSE IF Newline(text[i]) THEN Append(f[i - 1], text[i]) ELSE f[i - 1]
  <2>1. CASE i = 0
    BY <1>8, <2>1
  <2>2. CASE i # 0
    <3>1. i \in 1..n /\ i - 1 \in 0..n
      BY <1>2, <2>2
    <3>2. f[i - 1] \in S
      BY <3>1
    <3>3. f[i] = One(f[i - 1], i)
      BY <1>6, <1>8, <3>1, <3>2
    <3> QED BY <1>3, <2>2, <3>3
  <2> QED BY <2>1, <2>2
<1>10. Is(f)
  <2>1. f = [i \in 0..n |-> f[i]]
    OBVIOUS
  <2>2. [i \in 0..n |-> f[i]]
        = [i \in 0..n |-> IF i = 0 THEN <<>>
                          ELSE IF Newline(text[i]) THEN Append(f[i - 1], text[i]) ELSE f[i - 1]]
    BY <1>9, Zenon
  <2> QED BY <2>1, <2>2
<1>11. Is(upto)
  <2> HIDE DEF Is
  <2> QED BY <1>10
<1>12. \A i \in 0..n : upto[i] = IF i = 0 THEN <<>>
                                 ELSE IF Newline(text[i]) THEN Append(upto[i - 1],
                                    text[i]) ELSE upto[i - 1]
  <2> HIDE DEF upto
  <2> QED BY <1>11
<1> HIDE DEF upto, Is
<1>13. upto[0] \in S
  BY <1>2, <1>12
<1>14. ASSUME NEW i \in 1..n, upto[i - 1] \in S PROVE upto[i] \in S
  <2>1. i \in 0..n /\ i # 0
    BY <1>2
  <2>2. upto[i] = One(upto[i - 1], i)
    BY <1>3, <1>12, <2>1
  <2> QED BY <1>1, <1>14, <2>2
<1>15. \A i \in 0..n : upto[i] \in S
  BY <1>2, <1>13, <1>14, HandedOn
<1>16. upto = [i \in 0..n |-> upto[i]]
  <2> HIDE DEF upto
  <2>1. upto = [i \in 0..n |-> IF i = 0 THEN <<>>
                               ELSE IF Newline(text[i]) THEN Append(upto[i - 1],
                                  text[i]) ELSE upto[i - 1]]
    BY <1>11 DEF Is
  <2> QED BY <2>1
<1>17. upto \in [0..n -> S]
  BY <1>15, <1>16
<1>18. Gathers(upto, text)
  <2>1. \A i \in 1..n : i \in 0..n /\ i # 0
    BY <1>2
  <2>2. 0 \in 0..n
    BY <1>2
  <2> QED BY <1>12, <2>1, <2>2 DEF Gathers, n
<1> QED BY <1>4, <1>17, <1>18 DEF S, n

\* The newlines in a text are a sequence, which has a length.
LEMMA NewlinesIs ==
  ASSUME NEW text \in Seq(Nat)
  PROVE  Newlines(text) \in Seq(Nat)
<1>1. PICK u \in [0..Len(text) -> Seq(Nat)] :
        Gathers(u, text) /\ Newlines(text) = u[Len(text)]
  BY NewlinesGathered
<1>2. Len(text) \in 0..Len(text)
  OBVIOUS
<1> QED BY <1>1, <1>2

\* What is left of the text is no longer than the text.
LEMMA RestIs ==
  ASSUME NEW text \in Seq(Nat)
  PROVE  Rest(text) \in Seq(Nat) /\ Len(Rest(text)) <= Len(text)
<1> DEFINE n == Len(text)
           ends == {i \in 1..n : Newline(text[i])}
           Last(i) == i \in ends \cup {0} /\ \A j \in ends : j <= i
           last == CHOOSE i \in ends \cup {0} : \A j \in ends : j <= i
           T == {m \in 0..n : \A j \in ends : j <= m}
<1>1. n \in Nat /\ T \in SUBSET Nat /\ n \in T /\ ends \subseteq 1..n
  OBVIOUS
<1>2. PICK m \in T : \A k \in T : m <= k
  <2> HIDE DEF T
  <2> QED BY <1>1, Least
<1>3. m \in 0..n /\ \A j \in ends : j <= m
  OBVIOUS
<1>4. m \in ends \cup {0}
  <2> SUFFICES ASSUME m # 0, m \notin ends PROVE FALSE
    OBVIOUS
  <2>1. m - 1 \in 0..n
    BY <1>1, <1>3
  <2>2. \A j \in ends : j <= m - 1
    BY <1>1, <1>3
  <2>3. m - 1 \in T
    BY <2>1, <2>2
  <2>4. m <= m - 1
    <3> HIDE DEF T
    <3> QED BY <1>2, <2>3
  <2> QED BY <1>1, <1>3, <2>4
<1>5. last \in ends \cup {0}
  <2> HIDE DEF ends
  <2> QED BY <1>3, <1>4
<1>6. last \in 0..n
  <2> HIDE DEF last
  <2> QED BY <1>1, <1>5
<1>7. Rest(text) = SubSeq(text, last + 1, n)
  BY Zenon DEF Rest
<1> HIDE DEF last
<1>8. \A i \in (last + 1)..n : text[i] \in Nat
  BY <1>6
<1>9. last + 1 \in Int /\ n \in Int
  BY <1>6
<1>10. /\ Rest(text) \in Seq(Nat)
       /\ Len(Rest(text)) = IF last + 1 <= n THEN n - (last + 1) + 1 ELSE 0
  BY <1>7, <1>8, <1>9, SubSeqProperties
<1> QED BY <1>1, <1>6, <1>10

-----------------------------------------------------------------------------
\* Domains; and inputBuff is empty between two calls of handleEvents.
PlainOK ==
  /\ sent \in 0..(MaxCmds * CmdLength) /\ taken \in 0..sent
  /\ inputBuff = <<>>
  /\ {registered, failing} \subseteq BOOLEAN

\* The output in the buffer follows what the client has got.
OutputInv == received \in Seq(Nat) /\ Out \in Outs /\ Kept(Out, received)

IInv == PlainOK /\ OutputInv

\* The fields of Out.
LEMMA OutIs ==
  /\ Out.outputBuffer = outputBuffer /\ Out.pollout = pollout /\ Out.made = made
  /\ Out.lines = lines /\ Out.dropped = dropped
BY DEF Out

\* The invariant holds at first.
LEMMA InvInit == Init => IInv
<1> SUFFICES ASSUME Init PROVE IInv
  OBVIOUS
<1>1. PlainOK
  <2>1. CmdLength \in Nat /\ MaxCmds \in Nat /\ 0 * CmdLength = 0
    BY TCPConnectionAssumption
  <2>2. MaxCmds * CmdLength \in Nat
    BY <2>1
  <2>3. 0 \in 0..(MaxCmds * CmdLength) /\ 0 \in 0..0
    BY <2>2
  <2> QED BY <2>3 DEF Init, PlainOK
<1>2. received = <<>> /\ outputBuffer = <<>> /\ lines = <<>> /\ made = 0 /\ dropped = FALSE
      /\ pollout = FALSE
  BY DEF Init
<1>3. <<>> \in Seq(Nat) /\ Len(<<>>) = 0
  OBVIOUS
<1>4. Out \in Outs
  <2>1. <<>> \in Seq(Nat \X Nat)
    OBVIOUS
  <2> QED BY <1>2, <1>3, <2>1 DEF Out, Outs
<1>5. <<>> \o <<>> = Span(1, 0)
  <2>1. Span(0 + 1, 0 + 0) \in Seq(Nat) /\ Len(Span(0 + 1, 0 + 0)) = 0
    BY SpanIs
  <2>2. 0 + 1 = 1 /\ 0 + 0 = 0
    OBVIOUS
  <2>3. Span(1, 0) = <<>>
    BY <2>1, <2>2, EmptySeq
  <2>4. <<>> \o <<>> = <<>>
    BY <1>3, ConcatEmptySeq
  <2> QED BY <2>3, <2>4
<1>6. Ordered(<<>>, <<>>, 0)
  BY <1>3 DEF Ordered
<1>7. Kept(Out, received)
  BY <1>2, <1>3, <1>5, <1>6, OutIs, TCPConnectionAssumption DEF Kept
<1> QED BY <1>1, <1>2, <1>3, <1>4, <1>7 DEF IInv, OutputInv

\* The output in the next state.
LEMMA OutputNext ==
  ASSUME received' \in Seq(Nat), Out' \in Outs, Kept(Out', received')
  PROVE  OutputInv'
BY DEF OutputInv, Outs, Kept, Ordered, Elements, Span

\* Lines are queued.
LEMMA QueueInv ==
  ASSUME OutputInv, NEW n \in Nat, NEW lens \in [1..n -> LineLengths], Queue(lens),
         received' = received
  PROVE  OutputInv'
<1>1. QueueAll(lens) \in Outs /\ Kept(QueueAll(lens), received)
  BY QueuedAll DEF OutputInv
<1> DEFINE o == QueueAll(lens)
<1>2. Out' = o
  <2>1. /\ outputBuffer' = o.outputBuffer /\ pollout' = o.pollout
        /\ made' = o.made /\ lines' = o.lines /\ dropped' = o.dropped
    BY DEF Queue
  <2>2. o \in Outs
    BY <1>1
  <2> HIDE DEF o
  <2>3. o = [outputBuffer |-> o.outputBuffer, pollout |-> o.pollout, made |-> o.made,
             lines |-> o.lines, dropped |-> o.dropped]
    BY <2>2 DEF Outs
  <2> QED BY <2>1, <2>3 DEF Out
<1>3. Out' \in Outs /\ Kept(Out', received')
  BY <1>1, <1>2
<1>4. received' \in Seq(Nat)
  BY DEF OutputInv
<1> QED BY <1>3, <1>4, OutputNext

\* A step that leaves the output alone.
LEMMA StillOutput ==
  ASSUME OutputInv, UNCHANGED <<output, received>>
  PROVE  OutputInv'
<1>1. Out' = Out /\ received' = received
  BY DEF Out, output
<1>2. Out' \in Outs /\ Kept(Out', received') /\ received' \in Seq(Nat)
  BY <1>1 DEF OutputInv
<1> QED BY <1>2, OutputNext

\* What is read, and put behind the empty buffer, leaves it empty: erase takes all.
LEMMA InputIs ==
  ASSUME PlainOK, sent > taken
  PROVE  LET n    == Lesser(MaxCmd, sent - taken)
             text == inputBuff \o Span(taken + 1, taken + n)
         IN  /\ n \in 1..(sent - taken) /\ n <= MaxCmd
             /\ text = Span(taken + 1, taken + n)
             /\ text \in Seq(Nat) /\ Len(text) = n
             /\ Trimmed(text, Rest(text)) = <<>>
<1> DEFINE n == Lesser(MaxCmd, sent - taken)
           text == inputBuff \o Span(taken + 1, taken + n)
<1>1. /\ CmdLength \in Nat \ {0} /\ MaxCmd \in Nat /\ MaxCmd >= CmdLength
      /\ Npos \in Nat /\ Npos > 4 * MaxCmd /\ MaxCmds \in Nat
  BY TCPConnectionAssumption
<1>2. sent \in Nat /\ taken \in Nat /\ inputBuff = <<>>
  <2>1. sent \in Nat
    BY DEF PlainOK
  <2> QED BY <2>1 DEF PlainOK
<1>3. n \in 1..(sent - taken) /\ n <= MaxCmd /\ n \in Nat
  BY <1>1, <1>2 DEF Lesser
<1> HIDE DEF n
<1>4. Span(taken + 1, taken + n) \in Seq(Nat) /\ Len(Span(taken + 1, taken + n)) = n
  BY <1>2, <1>3, SpanIs
<1>5. text = Span(taken + 1, taken + n)
  BY <1>2, <1>4, ConcatEmptySeq
<1>6. text \in Seq(Nat) /\ Len(text) = n
  BY <1>4, <1>5
<1> HIDE DEF text
<1>7. Rest(text) \in Seq(Nat) /\ Len(Rest(text)) <= Len(text)
  BY <1>6, RestIs
<1>8. Trimmed(text, Rest(text)) = <<>>
  <2> DEFINE rest == Rest(text)
  <2>1. Len(rest) \in Nat /\ Len(rest) <= MaxCmd
    BY <1>1, <1>3, <1>6, <1>7
  <2> HIDE DEF rest
  <2>2. Npos - MaxCmd + 1 \in Int /\ Len(rest) \in Int /\ Len(rest) < Npos - MaxCmd + 1
    BY <1>1, <2>1
  <2>3. SubSeq(rest, Npos - MaxCmd + 1, Len(rest)) = <<>>
    BY <2>2, SubSeqEmpty
  <2> QED BY <2>3 DEF Trimmed, rest
<1> QED BY <1>3, <1>5, <1>6, <1>8 DEF n, text

\* The invariant holds in every state.
LEMMA Invariance == Spec => []IInv
<1>1. Init => IInv
  BY InvInit
<1>2. IInv /\ [Next]_vars => IInv'
  <2> SUFFICES ASSUME IInv, [Next]_vars PROVE IInv'
    OBVIOUS
  <2>p. PlainOK /\ OutputInv
    BY DEF IInv
  <2>n. sent \in Nat /\ taken \in Nat /\ MaxCmds * CmdLength \in Nat
    <3>1. MaxCmds \in Nat /\ CmdLength \in Nat
      BY TCPConnectionAssumption
    <3>2. MaxCmds * CmdLength \in Nat
      BY <3>1
    <3>3. sent \in Nat
      BY <2>p, <3>2 DEF PlainOK
    <3> QED BY <2>p, <3>2, <3>3 DEF PlainOK
  <2>1. ASSUME NEW n \in 1..(MaxCmds * CmdLength), Send(n) PROVE IInv'
    <3>1. PlainOK'
      <4>1. sent' = sent + n /\ sent + n <= MaxCmds * CmdLength /\ taken' = taken
        BY <2>1 DEF Send
      <4>2. sent' \in 0..(MaxCmds * CmdLength) /\ taken' \in 0..sent'
        BY <2>n, <2>p, <4>1 DEF PlainOK
      <4> QED BY <2>1, <2>p, <4>2 DEF Send, PlainOK
    <3>2. OutputInv'
      BY <2>1, <2>p, StillOutput DEF Send
    <3> QED BY <3>1, <3>2 DEF IInv
  <2>2. ASSUME NEW len \in LineLengths, PluginOutput(len) PROVE IInv'
    <3>1. PlainOK'
      BY <2>2, <2>p DEF PluginOutput, PlainOK, input
    <3>2. OutputInv'
      <4>1. <<len>> \in [1..1 -> LineLengths]
        OBVIOUS
      <4> QED BY <2>2, <2>p, <4>1, QueueInv DEF PluginOutput
    <3> QED BY <3>1, <3>2 DEF IInv
  <2>3. CASE HandleInput
    <3> DEFINE n    == Lesser(MaxCmd, sent - taken)
               text == inputBuff \o Span(taken + 1, taken + n)
               cmds == CommandsIn(text)
    <3>1. sent > taken
      BY <2>3 DEF HandleInput
    <3>2. /\ n \in 1..(sent - taken) /\ text \in Seq(Nat)
          /\ Trimmed(text, Rest(text)) = <<>>
      BY <2>p, <3>1, InputIs
    <3>3. /\ taken' = taken + n /\ inputBuff' = Trimmed(text, Rest(text))
          /\ UNCHANGED <<sent, registered, received, failing>>
      BY <2>3 DEF HandleInput
    <3>4. PICK lens \in [1..Len(cmds) -> LineLengths] : Queue(lens)
      BY <2>3 DEF HandleInput
    <3> HIDE DEF n, text
    <3>5. Len(cmds) \in Nat
      <4> DEFINE m == Len(Newlines(text))
      <4>1. m \in Nat
        BY <3>2, NewlinesIs
      <4> HIDE DEF m
      <4>2. \A f : f = [k \in 1..m |-> f[k]] => Len(f) = m
        BY <4>1
      <4>3. cmds = [k \in 1..m |-> cmds[k]]
        BY DEF CommandsIn, m
      <4> QED BY <4>1, <4>2, <4>3
    <3> HIDE DEF cmds
    <3>6. OutputInv'
      BY <2>p, <3>3, <3>4, <3>5, QueueInv
    <3>7. PlainOK'
      <4>1. taken' \in 0..sent'
        BY <2>n, <2>p, <3>2, <3>3 DEF PlainOK
      <4> QED BY <2>p, <3>2, <3>3, <4>1 DEF PlainOK
    <3> QED BY <3>6, <3>7 DEF IInv
  <2>4. CASE HandleOutput
    <3>1. PlainOK'
      BY <2>4, <2>p DEF HandleOutput, PlainOK, input
    <3>2. UNCHANGED <<made, lines, dropped>>
      BY <2>4 DEF HandleOutput
    <3>3. pollout' \in BOOLEAN
      BY <2>4 DEF HandleOutput, StillWants
    <3>a. /\ outputBuffer \in Seq(Nat) /\ made \in Nat /\ lines \in Seq(Nat \X Nat)
          /\ dropped \in BOOLEAN /\ received \in Seq(Nat)
      BY <2>p, OutIs DEF OutputInv, Outs
    <3>4. ASSUME UNCHANGED <<outputBuffer, received>> PROVE OutputInv'
      <4>1. Out' \in Outs
        BY <3>2, <3>3, <3>4, <3>a DEF Out, Outs
      <4>2. Kept(Out', received')
        <5>1. /\ (Out').outputBuffer = outputBuffer /\ (Out').made = made
              /\ (Out').lines = lines /\ (Out').dropped = dropped
          BY <3>2, <3>4 DEF Out
        <5> QED BY <2>p, <3>4, <5>1, OutIs DEF OutputInv, Kept
      <4>3. received' \in Seq(Nat)
        BY <3>4, <3>a
      <4> QED BY <4>1, <4>2, <4>3, OutputNext
    <3>5. ASSUME NEW nb \in 1..Len(outputBuffer),
                 received' = received \o SubSeq(outputBuffer, 1, nb),
                 outputBuffer' = SubSeq(outputBuffer, nb + 1, Len(outputBuffer))
          PROVE  OutputInv'
      <4>1. outputBuffer' \in Seq(Nat)
        <5>1. \A i \in (nb + 1)..Len(outputBuffer) : outputBuffer[i] \in Nat
          BY <3>a
        <5>2. nb + 1 \in Int /\ Len(outputBuffer) \in Int
          BY <3>a
        <5> QED BY <3>5, <5>1, <5>2, SubSeqProperties
      <4>2. Out' \in Outs
        BY <3>2, <3>3, <3>a, <4>1 DEF Out, Outs
      <4>3. /\ (Out').outputBuffer = outputBuffer' /\ (Out').made = made
            /\ (Out').lines = lines /\ (Out').dropped = dropped
        BY <3>2 DEF Out
      <4>4. received' \in Seq(Nat) /\ Kept(Out', received')
        <5>1. Out \in Outs /\ Kept(Out, received)
          BY <2>p DEF OutputInv
        <5> QED BY <3>5, <3>a, <4>2, <4>3, <5>1, OutIs, Written
      <4> QED BY <4>2, <4>4, OutputNext
    <3>6. \/ UNCHANGED <<outputBuffer, received>>
          \/ \E nb \in 1..Len(outputBuffer) :
               /\ received' = received \o SubSeq(outputBuffer, 1, nb)
               /\ outputBuffer' = SubSeq(outputBuffer, nb + 1, Len(outputBuffer))
      BY <2>4 DEF HandleOutput
    <3>7. OutputInv'
      <4>1. CASE UNCHANGED <<outputBuffer, received>>
        BY <3>4, <4>1
      <4>2. CASE ~ UNCHANGED <<outputBuffer, received>>
        <5> HIDE DEF OutputInv
        <5>1. PICK nb \in 1..Len(outputBuffer) :
                /\ received' = received \o SubSeq(outputBuffer, 1, nb)
                /\ outputBuffer' = SubSeq(outputBuffer, nb + 1, Len(outputBuffer))
          BY <3>6, <4>2
        <5> QED BY <3>5, <5>1
      <4> QED BY <4>1, <4>2
    <3> QED BY <3>1, <3>7 DEF IInv
  <2>5. CASE HangUp
    <3>1. PlainOK'
      BY <2>5, <2>p DEF HangUp, PlainOK, input
    <3>2. OutputInv'
      BY <2>5, <2>p, StillOutput DEF HangUp
    <3> QED BY <3>1, <3>2 DEF IInv
  <2>6. CASE UNCHANGED vars
    <3>1. PlainOK'
      BY <2>6, <2>p DEF vars, PlainOK, input
    <3>2. OutputInv'
      BY <2>6, <2>p, StillOutput DEF vars
    <3> QED BY <3>1, <3>2 DEF IInv
  <2> QED BY <2>1, <2>2, <2>3, <2>4, <2>5, <2>6 DEF Next
<1> QED BY <1>1, <1>2, PTL DEF Spec

-----------------------------------------------------------------------------
(***************************************************************************)
(* The variables stay in their domains: inputBuff, which is emptied after  *)
(* every read, stays within MAX_CMD_STRING_LENGTH, and outputBuffer within *)
(* its capacity.                                                           *)
(***************************************************************************)
THEOREM TypeCorrect == Spec => []TypeOK
<1>1. IInv => TypeOK
  <2> SUFFICES ASSUME IInv PROVE TypeOK
    OBVIOUS
  <2>1. PlainOK /\ OutputInv
    BY DEF IInv
  <2>2. Len(inputBuff) <= MaxCmd /\ Elements(inputBuff) \subseteq 1..taken
    BY <2>1, TCPConnectionAssumption DEF PlainOK, Elements
  <2>3. /\ outputBuffer \in Seq(Nat) /\ dropped \in BOOLEAN /\ pollout \in BOOLEAN
        /\ Len(outputBuffer) <= OutCapacity
        /\ \A i \in 1..Len(outputBuffer) : outputBuffer[i] \in 1..made
    BY <2>1, OutIs DEF OutputInv, Outs, Kept, Ordered
  <2>4. Elements(outputBuffer) \subseteq 1..made
    BY <2>3 DEF Elements
  <2> QED BY <2>1, <2>2, <2>3, <2>4 DEF PlainOK, TypeOK
<1> QED BY <1>1, Invariance, PTL

(***************************************************************************)
(* What queueOutput and writeSomeOutput do between them: the client gets   *)
(* its output in order and without repetition, complete as long as the     *)
(* circular buffer has not been too small, and the newest line that fits   *)
(* into the buffer is never the one that is lost.                          *)
(***************************************************************************)
THEOREM OutputIsKept == Spec => []OutputKept
<1>1. IInv => OutputKept
  <2> SUFFICES ASSUME IInv PROVE OutputKept
    OBVIOUS
  <2> DEFINE r == received
             b == outputBuffer
             all == r \o b
  <2>1. /\ r \in Seq(Nat) /\ b \in Seq(Nat) /\ lines \in Seq(Nat \X Nat)
    BY OutIs DEF IInv, OutputInv, Outs
  <2>2. Kept(Out, r)
    BY DEF IInv, OutputInv
  <2>3. Ordered(r, b, made)
    BY <2>2, OutIs DEF Kept
  <2>4. ~dropped => all = Span(1, made)
    BY <2>2, OutIs DEF Kept
  <2>5. lines # <<>> =>
          (lines[Len(lines)][2] - lines[Len(lines)][1] < OutCapacity =>
             lines[Len(lines)][1]..lines[Len(lines)][2] \subseteq Elements(r) \cup Elements(b))
    BY <2>2, OutIs DEF Kept
  <2> HIDE DEF r, b
  <2>6. /\ all \in Seq(Nat) /\ Len(all) = Len(r) + Len(b)
        /\ \A i \in 1..(Len(r) + Len(b)) : all[i] = IF i <= Len(r) THEN r[i] ELSE b[i - Len(r)]
    BY <2>1, ConcatProperties
  <2> HIDE DEF all
  <2>7. \A i \in 1..Len(all) : \/ i \in 1..Len(r) /\ all[i] = r[i]
                               \/ i - Len(r) \in 1..Len(b) /\ all[i] = b[i - Len(r)]
    <3> TAKE i \in 1..Len(all)
    <3>1. CASE i <= Len(r)
      BY <2>6, <3>1
    <3>2. CASE ~(i <= Len(r))
      <4>1. i - Len(r) \in 1..Len(b)
        BY <2>1, <2>6, <3>2
      <4> QED BY <2>6, <3>2, <4>1
    <3> QED BY <3>1, <3>2
  <2>8. Rising(all)
    <3>1. ASSUME NEW i \in 1..Len(all), NEW j \in 1..Len(all), i < j PROVE all[i] < all[j]
      <4>1. CASE i \in 1..Len(r) /\ all[i] = r[i] /\ j \in 1..Len(r) /\ all[j] = r[j]
        BY <2>3, <3>1, <4>1 DEF Ordered
      <4>2. CASE /\ i \in 1..Len(r) /\ all[i] = r[i]
                 /\ j - Len(r) \in 1..Len(b) /\ all[j] = b[j - Len(r)]
        BY <2>3, <4>2 DEF Ordered
      <4>3. CASE /\ i - Len(r) \in 1..Len(b) /\ all[i] = b[i - Len(r)]
                 /\ j - Len(r) \in 1..Len(b) /\ all[j] = b[j - Len(r)]
        <5>1. i - Len(r) < j - Len(r)
          BY <2>1, <3>1
        <5> QED BY <2>3, <4>3, <5>1 DEF Ordered
      <4>4. ~(i - Len(r) \in 1..Len(b) /\ j \in 1..Len(r))
        BY <2>1, <3>1
      <4> QED BY <2>7, <4>1, <4>2, <4>3, <4>4
    <3>2. DOMAIN all = 1..Len(all)
      BY <2>6
    <3> QED BY <3>1, <3>2 DEF Rising
  <2>9. Elements(r) \cup Elements(b) \subseteq Elements(all)
    <3>1. ASSUME NEW i \in 1..Len(r) PROVE r[i] \in Elements(all)
      <4>1. i \in 1..(Len(r) + Len(b)) /\ i <= Len(r)
        BY <2>1
      <4>2. all[i] = r[i]
        BY <2>6, <4>1
      <4>3. i \in DOMAIN all
        BY <2>6, <4>1
      <4> QED BY <4>2, <4>3 DEF Elements
    <3>2. ASSUME NEW i \in 1..Len(b) PROVE b[i] \in Elements(all)
      <4> DEFINE j == Len(r) + i
      <4>1. j \in 1..(Len(r) + Len(b)) /\ ~(j <= Len(r)) /\ j - Len(r) = i
        BY <2>1
      <4> HIDE DEF j
      <4>2. all[j] = b[i]
        BY <2>6, <4>1
      <4>3. j \in DOMAIN all
        BY <2>6, <4>1
      <4> QED BY <4>2, <4>3 DEF Elements
    <3>3. DOMAIN r = 1..Len(r) /\ DOMAIN b = 1..Len(b)
      BY <2>1
    <3> QED BY <3>1, <3>2, <3>3 DEF Elements
  <2>10. ASSUME NEW k \in DOMAIN lines, k = Len(lines), lines[k][2] - lines[k][1] < OutCapacity
         PROVE  lines[k][1]..lines[k][2] \subseteq Elements(all)
    <3>1. lines # <<>>
      BY <2>1, <2>10
    <3> QED BY <2>5, <2>9, <2>10, <3>1
  <2> QED BY <2>4, <2>8, <2>10 DEF OutputKept, all, r, b
<1> QED BY <1>1, Invariance, PTL

-----------------------------------------------------------------------------
\* Multiples of n: the next one is n or more away.
LEMMA Multiples ==
  ASSUME NEW n \in Nat \ {0}, NEW x \in Nat, NEW y \in Nat, x < y
  PROVE  x * n + n <= y * n
<1> DEFINE z == y - x - 1
<1>1. y = (x + 1) + z /\ x + 1 \in Nat /\ z \in Nat
  OBVIOUS
<1> HIDE DEF z
<1>2. \A p, q, r \in Nat : (p + q) * r = p * r + q * r /\ p * r \in Nat
  OBVIOUS
<1>3. y * n = (x + 1) * n + z * n /\ z * n \in Nat
  BY <1>1, <1>2
<1>4. (x + 1) * n = x * n + n /\ x * n \in Nat
  OBVIOUS
<1> QED BY <1>3, <1>4

\* The remainder of a number between two multiples.
LEMMA Remainder ==
  ASSUME NEW n \in Nat \ {0}, NEW x \in Nat, NEW r \in 0..(n - 1)
  PROVE  (x * n + r) % n = r
<1> DEFINE w == x * n + r
           d == w \div n
           e == w % n
<1>0. x * n \in Nat
  OBVIOUS
<1>1. w \in Nat
  BY <1>0
<1> HIDE DEF w
<1>2. d \in Nat /\ e \in 0..(n - 1) /\ w = n * d + e
  BY <1>1
<1> HIDE DEF d, e
<1>3. w = d * n + e /\ d * n \in Nat
  BY <1>2
<1>4. ~(x < d)
  <2>1. x < d => x * n + n <= d * n
    BY <1>2, Multiples
  <2> QED BY <1>0, <1>2, <1>3, <2>1 DEF w
<1>5. ~(d < x)
  <2>1. d < x => d * n + n <= x * n
    BY <1>2, Multiples
  <2> QED BY <1>0, <1>2, <1>3, <2>1 DEF w
<1>6. d = x
  BY <1>2, <1>4, <1>5
<1>7. e = r
  BY <1>0, <1>2, <1>3, <1>6 DEF w
<1> QED BY <1>7 DEF e, w

\* Whole commands, from the a-th on: their newlines are the multiples of CmdLength.
LEMMA NewlinesOf ==
  ASSUME NEW a \in Nat, NEW m \in Nat
  PROVE  LET text == Span(a * CmdLength + 1, a * CmdLength + m * CmdLength) IN
         /\ Newlines(text) \in Seq(Nat) /\ Len(Newlines(text)) = m
         /\ \A k \in 1..m : Newlines(text)[k] = (a + k) * CmdLength
<1> DEFINE n == CmdLength
           text == Span(a * n + 1, a * n + m * n)
           \* q multiples among the first i characters
           First(q, i) == q * n <= i /\ i < q * n + n
           S == {x \in (0..(m * n)) \X Seq(Nat) :
                   /\ First(Len(x[2]), x[1])
                   /\ \A k \in 1..Len(x[2]) : x[2][k] = (a + k) * n}
<1>1. n \in Nat \ {0}
  BY TCPConnectionAssumption
<1>2. \A x \in Nat : x * n \in Nat
  BY <1>1
<1>3. a * n \in Nat /\ m * n \in Nat
  BY <1>2
<1>4. /\ text \in Seq(Nat) /\ Len(text) = m * n
      /\ \A i \in 1..(m * n) : text[i] = a * n + i
  BY <1>3, SpanIs
<1> HIDE DEF text, n
<1>5. PICK u \in [0..Len(text) -> Seq(Nat)] :
        Gathers(u, text) /\ Newlines(text) = u[Len(text)]
  BY <1>4, NewlinesGathered
<1>6. /\ u[0] = <<>>
      /\ \A i \in 1..(m * n) :
           u[i] = IF Newline(text[i]) THEN Append(u[i - 1], text[i]) ELSE u[i - 1]
  BY <1>4, <1>5 DEF Gathers
<1>7. \A i \in 0..(m * n) : u[i] \in Seq(Nat)
  BY <1>4, <1>5
<1> DEFINE f == [i \in 0..(m * n) |-> <<i, u[i]>>]
<1>8. f[0] \in S
  <2>1. First(0, 0)
    BY <1>1
  <2>2. Len(<<>>) = 0 /\ <<>> \in Seq(Nat) /\ 0 \in 0..(m * n)
    BY <1>3
  <2> HIDE DEF First
  <2>3. f[0] = <<0, <<>> >>
    BY <1>6, <2>2
  <2> QED BY <2>1, <2>2, <2>3
<1>9. ASSUME NEW i \in 1..(m * n), f[i - 1] \in S PROVE f[i] \in S
  <2> DEFINE s == u[i - 1]
             q == Len(s)
             mark == (a + (q + 1)) * n
  <2>1. i - 1 \in 0..(m * n) /\ i \in 0..(m * n)
    BY <1>3
  <2>2. f[i - 1] = <<i - 1, s>> /\ f[i] = <<i, u[i]>>
    BY <2>1
  <2>3. s \in Seq(Nat) /\ First(q, i - 1) /\ \A k \in 1..q : s[k] = (a + k) * n
    <3> HIDE DEF First, f
    <3> QED BY <1>9, <2>2
  <2> HIDE DEF f, s
  <2>4. q \in Nat /\ q * n \in Nat /\ a * n \in Nat
    <3>1. q \in Nat
      <4> HIDE DEF First
      <4> QED BY <2>3
    <3> HIDE DEF q
    <3> QED BY <1>2, <1>3, <3>1
  <2> HIDE DEF q
  <2>5. (a + q) * n = a * n + q * n /\ mark = a * n + q * n + n
    <3>1. \A x, y,
       z \in Nat : (x + y) * z = x * z + y * z /\ (x + (y + 1)) * z = x * z + y * z + z
      OBVIOUS
    <3> QED BY <1>1, <2>4, <3>1
  <2>6. (q + 1) * n = q * n + n
    BY <1>1, <2>4
  <2>7. CASE i = q * n + n
    <3>1. text[i] = mark /\ mark \in Nat
      BY <1>1, <1>4, <2>4, <2>5, <2>7
    <3>2. mark % n = 0
      <4>1. a + (q + 1) \in Nat /\ 0 \in 0..(n - 1)
        BY <1>1, <2>4
      <4>2. ((a + (q + 1)) * n + 0) % n = 0
        BY <1>1, <4>1, Remainder
      <4>3. mark + 0 = mark
        BY <3>1
      <4> QED BY <4>2, <4>3
    <3>3. Newline(text[i])
      BY <3>1, <3>2 DEF Newline, n
    <3> HIDE DEF mark
    <3>4. u[i] = Append(s, mark)
      BY <1>6, <3>1, <3>3 DEF s
    <3>5. /\ u[i] \in Seq(Nat) /\ Len(u[i]) = q + 1
          /\ \A k \in 1..q : u[i][k] = s[k]
          /\ u[i][q + 1] = mark
      BY <2>3, <3>1, <3>4, AppendProperties DEF q
    <3>6. First(q + 1, i)
      BY <1>1, <2>4, <2>6, <2>7
    <3>7. \A k \in 1..(q + 1) : u[i][k] = (a + k) * n
      <4>1. \A k \in 1..(q + 1) : k \in 1..q \/ k = q + 1
        BY <2>4
      <4> QED BY <2>3, <3>5, <4>1 DEF mark
    <3> HIDE DEF First
    <3> QED BY <2>1, <2>2, <3>5, <3>6, <3>7
  <2>8. CASE i # q * n + n
    <3> DEFINE r == i - q * n
    <3>1. r \in 1..(n - 1) /\ i = q * n + r
      BY <1>1, <2>3, <2>4, <2>8
    <3> HIDE DEF r
    <3>2. text[i] = (a + q) * n + r
      BY <1>1, <1>4, <2>4, <2>5, <3>1
    <3>3. ((a + q) * n + r) % n = r
      BY <1>1, <2>4, <3>1, Remainder
    <3>4. ~Newline(text[i])
      BY <3>1, <3>2, <3>3 DEF Newline, n
    <3>5. u[i] = s
      BY <1>6, <3>4 DEF s
    <3>6. First(q, i)
      BY <1>1, <2>4, <3>1
    <3> HIDE DEF First
    <3> QED BY <2>1, <2>2, <2>3, <3>5, <3>6 DEF q
  <2> QED BY <2>7, <2>8
<1>10. \A i \in 0..(m * n) : f[i] \in S
  <2> HIDE DEF f, S
  <2> QED BY <1>3, <1>8, <1>9, HandedOn
<1> DEFINE s == u[m * n]
           q == Len(s)
<1>11. m * n \in 0..(m * n)
  BY <1>3
<1>12. f[m * n] = <<m * n, s>>
  BY <1>11
<1>13. s \in Seq(Nat) /\ First(q, m * n) /\ \A k \in 1..q : s[k] = (a + k) * n
  <2>1. f[m * n] \in S
    <3> HIDE DEF f, S
    <3> QED BY <1>10, <1>11
  <2> HIDE DEF f, First
  <2> QED BY <1>12, <2>1
<1>14. s = Newlines(text)
  BY <1>4, <1>5
<1> HIDE DEF s, f, S
<1>15. q \in Nat /\ q * n \in Nat
  BY <1>2, <1>13
<1> HIDE DEF q
<1>16. q = m
  <2>1. q < m => q * n + n <= m * n
    BY <1>1, <1>15, Multiples
  <2>2. m < q => m * n + n <= q * n
    BY <1>1, <1>15, Multiples
  <2> QED BY <1>1, <1>3, <1>13, <1>15, <2>1, <2>2
<1> QED BY <1>13, <1>14, <1>16 DEF q, n, text

(***************************************************************************)
(* If whole commands arrive in a read, then at any time as many have been  *)
(* executed as have been taken, and the rest can be taken at once.         *)
(***************************************************************************)
WholeInv ==
  /\ executed \in Seq(Nat \X Nat)
  /\ taken = Len(executed) * CmdLength
  /\ \E q \in Nat : sent = q * CmdLength
  /\ sent - taken <= MaxCmd
  /\ \A k \in 1..Len(executed) :
       executed[k] = <<(k - 1) * CmdLength + 1, k * CmdLength - 1>>

\* A read of whole commands executes them.
LEMMA CommandsOf ==
  ASSUME NEW a \in Nat, NEW m \in Nat \ {0}
  PROVE  LET cmds == CommandsIn(Span(a * CmdLength + 1, a * CmdLength + m * CmdLength)) IN
         /\ cmds \in Seq(Nat \X Nat) /\ Len(cmds) = m
         /\ \A k \in 1..m : cmds[k] = <<((a + k) - 1) * CmdLength + 1, (a + k) * CmdLength - 1>>
<1> DEFINE n == CmdLength
           text == Span(a * n + 1, a * n + m * n)
           cmds == CommandsIn(text)
           nl == Newlines(text)
<1>1. n \in Nat \ {0}
  BY TCPConnectionAssumption
<1>2. \A x \in Nat : x * n \in Nat /\ (x # 0 => x * n >= n)
  <2> TAKE x \in Nat
  <2>1. x * n \in Nat
    BY <1>1
  <2>2. x # 0 => 0 * n + n <= x * n
    BY <1>1, Multiples
  <2> QED BY <1>1, <2>1, <2>2
<1>3. nl \in Seq(Nat) /\ Len(nl) = m /\ \A k \in 1..m : nl[k] = (a + k) * n
  BY NewlinesOf
<1>4. text[1] = a * n + 1
  <2>1. a * n \in Nat /\ m * n \in Nat /\ 1 \in 1..(m * n)
    BY <1>1, <1>2
  <2> QED BY <2>1, SpanIs
<1>5. cmds = [k \in 1..Len(nl) |-> <<IF k = 1 THEN text[1] ELSE nl[k - 1] + 1, nl[k] - 1>>]
  BY DEF CommandsIn
<1> HIDE DEF n, text, nl, cmds
<1>6. ASSUME NEW k \in 1..m
      PROVE  /\ (IF k = 1 THEN text[1] ELSE nl[k - 1] + 1) = ((a + k) - 1) * n + 1
             /\ nl[k] = (a + k) * n
             /\ ((a + k) - 1) * n \in Nat /\ (a + k) * n - 1 \in Nat
  <2>1. nl[k] = (a + k) * n
    BY <1>3
  <2>2. (a + k) - 1 \in Nat /\ a + k \in Nat /\ a + k # 0
    OBVIOUS
  <2>3. ((a + k) - 1) * n \in Nat /\ (a + k) * n - 1 \in Nat
    BY <1>1, <1>2, <2>2
  <2>4. CASE k = 1
    <3>1. (a + k) - 1 = a
      BY <2>4
    <3> QED BY <1>4, <2>1, <2>3, <2>4, <3>1
  <2>5. CASE k # 1
    <3>1. k - 1 \in 1..m /\ a + (k - 1) = (a + k) - 1
      BY <2>5
    <3>2. nl[k - 1] = ((a + k) - 1) * n
      BY <1>3, <3>1
    <3> QED BY <2>1, <2>3, <2>5, <3>2
  <2> QED BY <2>4, <2>5
<1>7. \A k \in 1..m : cmds[k] = <<((a + k) - 1) * n + 1, (a + k) * n - 1>>
  BY <1>3, <1>5, <1>6
<1>8. \A k \in 1..m : cmds[k] \in Nat \X Nat
  <2> TAKE k \in 1..m
  <2> DEFINE x == ((a + k) - 1) * n + 1
             y == (a + k) * n - 1
  <2>1. x \in Nat /\ y \in Nat
    BY <1>6
  <2>2. cmds[k] = <<x, y>>
    BY <1>7
  <2> HIDE DEF x, y
  <2> QED BY <2>1, <2>2
<1>9. cmds \in Seq(Nat \X Nat) /\ Len(cmds) = m
  <2>1. cmds = [k \in 1..m |-> cmds[k]]
    BY <1>3, <1>5
  <2> QED BY <1>8, <2>1
<1> QED BY <1>7, <1>9 DEF n, text, cmds

\* That holds in every state.
LEMMA WholeInvariance == ~Piecewise => (Spec => []WholeInv)
<1> SUFFICES ASSUME ~Piecewise PROVE Spec => []WholeInv
  OBVIOUS
<1> DEFINE n == CmdLength
<1>c. /\ n \in Nat \ {0} /\ MaxCmd \in Nat
      /\ \A x \in Nat : x * n \in Nat
  BY TCPConnectionAssumption
<1>1. Init => WholeInv
  <2> SUFFICES ASSUME Init PROVE WholeInv
    OBVIOUS
  <2>1. executed = <<>> /\ sent = 0 /\ taken = 0
    BY DEF Init
  <2>2. <<>> \in Seq(Nat \X Nat) /\ Len(<<>>) = 0
    OBVIOUS
  <2>3. 0 * n = 0 /\ 0 - 0 <= MaxCmd /\ 0 \in Nat
    BY <1>c
  <2> HIDE DEF n
  <2> QED BY <2>1, <2>2, <2>3 DEF WholeInv, n
<1>2. IInv /\ WholeInv /\ [Next]_vars => WholeInv'
  <2> SUFFICES ASSUME IInv, WholeInv, [Next]_vars PROVE WholeInv'
    OBVIOUS
  <2>1. ASSUME NEW j \in 1..(MaxCmds * CmdLength), Send(j) PROVE WholeInv'
    <3>1. /\ sent' = sent + j /\ j % n = 0 /\ sent + j - taken <= MaxCmd
          /\ UNCHANGED <<taken, executed>>
      BY <2>1 DEF Send, input
    <3>2. PICK q \in Nat : sent = q * n
      BY DEF WholeInv
    <3>3. j \in Nat
      <4>1. MaxCmds * CmdLength \in Nat
        BY <1>c, TCPConnectionAssumption
      <4> QED BY <4>1
    <3>4. PICK p \in Nat : j = p * n
      <4>1. j = n * (j \div n) + (j % n) /\ j \div n \in Nat
        BY <1>c, <3>3
      <4>2. j = (j \div n) * n
        BY <1>c, <3>1, <3>3, <4>1
      <4> QED BY <4>1, <4>2
    <3>5. sent' = (q + p) * n /\ q + p \in Nat
      <4>1. \A x, y, z \in Nat : (x + y) * z = x * z + y * z
        OBVIOUS
      <4> QED BY <1>c, <3>1, <3>2, <3>4, <4>1
    <3>6. sent' - taken' <= MaxCmd
      <4>1. sent' = sent + j /\ taken' = taken /\ sent + j - taken <= MaxCmd
        BY <3>1
      <4>2. sent \in Nat /\ taken \in Nat
        BY <1>c, <3>2 DEF WholeInv
      <4> QED BY <3>3, <4>1, <4>2
    <3> HIDE DEF n
    <3> QED BY <3>1, <3>5, <3>6 DEF WholeInv, n
  <2>2. CASE HandleInput
    <3> DEFINE nb   == Lesser(MaxCmd, sent - taken)
               text == inputBuff \o Span(taken + 1, taken + nb)
               cmds == CommandsIn(text)
               a    == Len(executed)
    <3>1. PlainOK /\ sent > taken
      BY <2>2 DEF HandleInput, IInv
    <3>2. /\ nb \in 1..(sent - taken) /\ text = Span(taken + 1, taken + nb)
      BY <3>1, InputIs
    <3>3. /\ taken' = taken + nb /\ executed' = executed \o cmds /\ sent' = sent
      BY <2>2 DEF HandleInput
    <3>4. PICK q \in Nat : sent = q * n
      BY DEF WholeInv
    <3>5. a \in Nat /\ taken = a * n /\ sent - taken <= MaxCmd /\ executed \in Seq(Nat \X Nat)
      BY DEF WholeInv
    <3>6. a * n \in Nat /\ q * n \in Nat
      BY <1>c, <3>4, <3>5
    <3>7. nb = sent - taken
      <4>1. sent \in Nat /\ taken \in Nat /\ sent - taken <= MaxCmd /\ MaxCmd \in Nat
        BY <1>c, <3>4, <3>5, <3>6
      <4> QED BY <4>1 DEF Lesser
    <3> DEFINE m == q - a
    <3> HIDE DEF nb, a, n
    <3>8. q > a
      <4>1. q < a => q * n + n <= a * n
        BY <1>c, <3>5, Multiples
      <4>2. q # a
        BY <3>1, <3>4, <3>5, <3>6
      <4> QED BY <1>c, <3>1, <3>4, <3>5, <3>6, <4>1, <4>2
    <3>9. m \in Nat \ {0} /\ q = a + m
      BY <3>5, <3>8
    <3> HIDE DEF m
    <3>10. q * n = a * n + m * n /\ m * n \in Nat
      <4>1. \A x, y, z \in Nat : (x + y) * z = x * z + y * z /\ x * z \in Nat
        OBVIOUS
      <4> QED BY <1>c, <3>5, <3>9, <4>1
    <3>11. nb = m * n
      BY <3>4, <3>5, <3>6, <3>7, <3>10
    <3>12. text = Span(a * n + 1, a * n + m * n)
      BY <3>2, <3>5, <3>11
    <3> HIDE DEF text
    <3>13. /\ cmds \in Seq(Nat \X Nat) /\ Len(cmds) = m
           /\ \A k \in 1..m : cmds[k] = <<((a + k) - 1) * n + 1, (a + k) * n - 1>>
      BY <3>5, <3>9, <3>12, CommandsOf DEF n
    <3> HIDE DEF cmds
    <3>14. /\ executed \o cmds \in Seq(Nat \X Nat) /\ Len(executed \o cmds) = a + m
           /\ \A k \in 1..(a + m) : (executed \o cmds)[k] = IF k <= a THEN executed[k] ELSE cmds[k - a]
      BY <3>5, <3>13, ConcatProperties DEF a
    <3>15. ASSUME NEW k \in 1..(a + m)
           PROVE  executed'[k] = <<(k - 1) * n + 1, k * n - 1>>
      <4>1. CASE k <= a
        <5>1. k \in 1..a
          BY <3>5, <3>9, <4>1
        <5>2. executed[k] = <<(k - 1) * n + 1, k * n - 1>>
          BY <5>1 DEF WholeInv, a, n
        <5> QED BY <3>3, <3>14, <4>1, <5>2
      <4>2. CASE ~(k <= a)
        <5>1. k - a \in 1..m /\ a + (k - a) = k
          BY <3>5, <3>9, <4>2
        <5>2. cmds[k - a] = <<(k - 1) * n + 1, k * n - 1>>
          BY <3>13, <5>1
        <5> QED BY <3>3, <3>14, <4>2, <5>2
      <4> QED BY <4>1, <4>2
    <3>16. taken' = (a + m) * n /\ sent' = q * n /\ sent' - taken' <= MaxCmd
      BY <1>c, <3>3, <3>4, <3>5, <3>6, <3>9, <3>10, <3>11
    <3>17. executed' \in Seq(Nat \X Nat) /\ Len(executed') = a + m
      BY <3>3, <3>14
    <3> QED BY <3>4, <3>15, <3>16, <3>17 DEF WholeInv, n
  <2>3. ASSUME UNCHANGED <<sent, taken, executed>> PROVE WholeInv'
    BY <2>3 DEF WholeInv
  <2>4. (\E len \in LineLengths : PluginOutput(len)) => UNCHANGED <<sent, taken, executed>>
    BY DEF PluginOutput, input
  <2>5. HandleOutput => UNCHANGED <<sent, taken, executed>>
    BY DEF HandleOutput, input
  <2>6. HangUp => UNCHANGED <<sent, taken, executed>>
    BY DEF HangUp, input
  <2>7. UNCHANGED vars => UNCHANGED <<sent, taken, executed>>
    BY DEF vars, input
  <2> QED BY <2>1, <2>2, <2>3, <2>4, <2>5, <2>6, <2>7 DEF Next
<1> QED BY <1>1, <1>2, Invariance, PTL DEF Spec

(***************************************************************************)
(* As long as the text arrives as the loop of handleEvents needs it, whole *)
(* commands in every read and no more than one read can take, the commands *)
(* executed are those that were sent, each once, whole and in order.       *)
(***************************************************************************)
THEOREM WholeReadsSuffice == ~Piecewise => (Spec => []CommandsWhole)
<1>1. WholeInv => CommandsWhole
  <2> SUFFICES ASSUME WholeInv PROVE CommandsWhole
    OBVIOUS
  <2>1. DOMAIN executed = 1..Len(executed)
    BY DEF WholeInv
  <2> QED BY <2>1 DEF WholeInv, CommandsWhole
<1> QED BY <1>1, WholeInvariance, PTL
=============================================================================
