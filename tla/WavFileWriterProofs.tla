------------------------ MODULE WavFileWriterProofs ------------------------
(***************************************************************************)
(* Proofs about WavFileWriter for every size of its buffer, of its files   *)
(* and of what a device delivers at once, and any conduct of clients and   *)
(* disk.                                                                   *)
(***************************************************************************)
EXTENDS WavFileWriter, SequenceTheorems, FiniteSetTheorems, TLAPS

LEMMA Sizes ==
  /\ Capacity \in Nat \ {0} /\ MaxChunk \in 1..Capacity
  /\ FramesToWrite \in Nat \ {0} /\ Rate \in Nat \ {0} /\ First \in Orders
BY WavFileWriterAssumption DEF FramesToWrite, Rate

USE Sizes

FileRecords ==
  [request : Nat, stamp : Int, open : BOOLEAN, header : Nat, data : Seq(Nat),
   reported : {"no", "rawFileDone", "rawFileError"}, told : Receivers \cup {Nobody}]

Plain ==
  /\ now \in Nat \ {0}
  /\ outputBuffer \in Seq(Nat) /\ Len(outputBuffer) <= Capacity
  /\ files \in Seq(FileRecords)
  /\ fd \in Nat /\ (fd # 0 => fd = Len(files))
  /\ slot \in [fd : Nat, out : BOOLEAN]
  /\ lost \in SUBSET Nat
  /\ pathTemplate \in Nat /\ filename \in Nat
  /\ asked \in Seq(Orders) /\ requests \in Nat
  /\ currFileTimestamp \in Int /\ timestampCaptured \in BOOLEAN
  /\ byteCountdown \in Int
  /\ regen \in BOOLEAN /\ orderly \in BOOLEAN /\ failing \in BOOLEAN

-----------------------------------------------------------------------------
(***************************************************************************)
(* FramesKept of given values: n for now, l for lost, b for the buffer and *)
(* fs for the files.                                                       *)
(***************************************************************************)
Recorded(fs) == UNION {Elements(fs[k].data) : k \in 1..Len(fs)}

Kept(n, l, b, fs) ==
  /\ 1..(n - 1) = l \cup Recorded(fs) \cup Elements(b)
  /\ l \cap (Recorded(fs) \cup Elements(b)) = {}
  /\ Rising(b)
  /\ \A k \in 1..Len(fs) : Rising(fs[k].data)
  /\ \A k, m \in 1..Len(fs) : k < m =>
       \A x \in Elements(fs[k].data), y \in Elements(fs[m].data) : x < y
  /\ \A x \in Recorded(fs), y \in Elements(b) : x < y

\* Two histories of files that differ in flags only.
Same(fs, gs) ==
  /\ Len(gs) = Len(fs)
  /\ \A k \in 1..Len(fs) : /\ gs[k].data = fs[k].data
                           /\ gs[k].request = fs[k].request
                           /\ gs[k].stamp = fs[k].stamp

LEMMA KeptSame ==
  ASSUME NEW n, NEW l, NEW b, NEW fs, NEW gs, Kept(n, l, b, fs), Same(fs, gs)
  PROVE  Kept(n, l, b, gs)
<1>1. Recorded(gs) = Recorded(fs)
  BY DEF Recorded, Same
<1> QED
  BY <1>1 DEF Kept, Same

LEMMA KeptAppend ==
  ASSUME NEW n, NEW l, NEW b, NEW fs \in Seq(FileRecords), NEW r \in FileRecords,
         r.data = <<>>, Kept(n, l, b, fs)
  PROVE  Kept(n, l, b, Append(fs, r))
<1> DEFINE gs == Append(fs, r)
<1>1. /\ Len(fs) \in Nat /\ Len(gs) = Len(fs) + 1
      /\ \A k \in 1..Len(fs) : gs[k] = fs[k]
      /\ gs[Len(fs) + 1] = r
  BY AppendProperties, LenProperties
<1> HIDE DEF gs
<1>2. Elements(r.data) = {} /\ Rising(r.data)
  BY DEF Elements, Rising
<1>3. 1..Len(gs) = 1..Len(fs) \cup {Len(fs) + 1}
  BY <1>1
<1>4. Recorded(gs) = Recorded(fs)
  BY <1>1, <1>2, <1>3 DEF Recorded
<1>5. \A k \in 1..Len(gs) : Rising(gs[k].data)
  BY <1>1, <1>2, <1>3 DEF Kept
<1>6. ASSUME NEW k \in 1..Len(gs), NEW m \in 1..Len(gs), k < m,
             NEW x \in Elements(gs[k].data), NEW y \in Elements(gs[m].data)
      PROVE  x < y
  <2>1. k \in 1..Len(fs) /\ m \in 1..Len(fs)
    BY <1>1, <1>2, <1>3, <1>6
  <2> QED
    BY <1>1, <1>6, <2>1 DEF Kept
<1>7. Kept(n, l, b, gs)
  BY <1>4, <1>5, <1>6 DEF Kept
<1> QED
  BY <1>7 DEF gs

\* What Elements and Rising say of a sequence of frames.
Shape(s) ==
  /\ Len(s) \in Nat
  /\ \A i \in 1..Len(s) : s[i] \in Nat
  /\ \A i \in 1..Len(s) : s[i] \in Elements(s)
  /\ \A x \in Elements(s) : \E i \in 1..Len(s) : x = s[i]
  /\ Rising(s) <=> \A i, j \in 1..Len(s) : i < j => s[i] < s[j]

LEMMA ElementsOf == ASSUME NEW s \in Seq(Nat) PROVE Shape(s)
BY LenProperties DEF Elements, Rising, Shape

LEMMA CatElements ==
  ASSUME NEW s \in Seq(Nat), NEW t \in Seq(Nat)
  PROVE  /\ s \o t \in Seq(Nat)
         /\ Elements(s \o t) = Elements(s) \cup Elements(t)
         /\ Rising(s) /\ Rising(t) /\ (\A x \in Elements(s), y \in Elements(t) : x < y) =>
              Rising(s \o t)
<1> DEFINE u == s \o t
<1>1. /\ u \in Seq(Nat)
      /\ Len(u) = Len(s) + Len(t)
      /\ \A i \in 1..(Len(s) + Len(t)) : u[i] = IF i <= Len(s) THEN s[i] ELSE t[i - Len(s)]
  BY ConcatProperties
<1> HIDE DEF u
<1>2. Shape(s) /\ Shape(t) /\ Shape(u)
  BY <1>1, ElementsOf
<1>3. \A i \in 1..Len(s) : i \in 1..Len(u) /\ u[i] = s[i]
  BY <1>1, <1>2 DEF Shape
<1>4. ASSUME NEW j \in 1..Len(t)
      PROVE  Len(s) + j \in 1..Len(u) /\ u[Len(s) + j] = t[j]
  <2>1. Len(s) \in Nat /\ Len(t) \in Nat
    BY <1>2 DEF Shape
  <2>2. /\ Len(s) + j \in 1..(Len(s) + Len(t))
        /\ ~(Len(s) + j <= Len(s)) /\ (Len(s) + j) - Len(s) = j
    BY <2>1
  <2> QED
    BY <1>1, <2>2
<1>5. \A i \in 1..Len(u) : i \in 1..Len(s) \/ \E j \in 1..Len(t) : i = Len(s) + j
  <2> SUFFICES ASSUME NEW i \in 1..Len(u), i \notin 1..Len(s)
               PROVE  \E j \in 1..Len(t) : i = Len(s) + j
    OBVIOUS
  <2>1. i - Len(s) \in 1..Len(t) /\ i = Len(s) + (i - Len(s))
    BY <1>1, <1>2 DEF Shape
  <2> QED
    BY <2>1
<1>6. Elements(u) = Elements(s) \cup Elements(t)
  <2>1. ASSUME NEW x \in Elements(u) PROVE x \in Elements(s) \cup Elements(t)
    <3>1. PICK i \in 1..Len(u) : x = u[i]
      BY <1>2 DEF Shape
    <3>2. CASE i \in 1..Len(s)
      BY <1>2, <1>3, <3>1, <3>2 DEF Shape
    <3>3. CASE \E j \in 1..Len(t) : i = Len(s) + j
      <4>1. PICK j \in 1..Len(t) : i = Len(s) + j
        BY <3>3
      <4>2. x = t[j]
        BY <1>4, <3>1, <4>1
      <4> QED
        BY <1>2, <4>2 DEF Shape
    <3> QED
      BY <1>5, <3>2, <3>3
  <2>2. ASSUME NEW x \in Elements(s) PROVE x \in Elements(u)
    <3>1. PICK i \in 1..Len(s) : x = s[i]
      BY <1>2 DEF Shape
    <3> QED
      BY <1>2, <1>3, <3>1 DEF Shape
  <2>3. ASSUME NEW x \in Elements(t) PROVE x \in Elements(u)
    <3>1. PICK j \in 1..Len(t) : x = t[j]
      BY <1>2 DEF Shape
    <3> QED
      BY <1>2, <1>4, <3>1 DEF Shape
  <2> QED
    BY <2>1, <2>2, <2>3
<1>7. ASSUME Rising(s), Rising(t), \A x \in Elements(s), y \in Elements(t) : x < y
      PROVE  Rising(u)
  <2>1. /\ \A i, j \in 1..Len(s) : i < j => s[i] < s[j]
        /\ \A i, j \in 1..Len(t) : i < j => t[i] < t[j]
        /\ \A i \in 1..Len(s), j \in 1..Len(t) : s[i] < t[j]
    BY <1>2, <1>7 DEF Shape
  <2> SUFFICES ASSUME NEW i \in 1..Len(u), NEW j \in 1..Len(u), i < j PROVE u[i] < u[j]
    BY <1>2 DEF Shape
  <2>2. Len(s) \in Nat
    BY <1>2 DEF Shape
  <2>3. CASE i \in 1..Len(s) /\ j \in 1..Len(s)
    BY <1>3, <2>1, <2>3
  <2>4. CASE i \in 1..Len(s) /\ j \notin 1..Len(s)
    BY <1>3, <1>4, <1>5, <2>1, <2>4
  <2>5. CASE i \notin 1..Len(s)
    <3>1. j \notin 1..Len(s)
      BY <1>1, <2>2, <2>5
    <3>2. PICK a \in 1..Len(t) : i = Len(s) + a
      BY <1>5, <2>5
    <3>3. PICK c \in 1..Len(t) : j = Len(s) + c
      BY <1>5, <3>1
    <3>4. a < c
      BY <2>2, <3>2, <3>3
    <3> QED
      BY <1>4, <2>1, <3>2, <3>3, <3>4
  <2> QED
    BY <2>3, <2>4, <2>5
<1> QED
  BY <1>1, <1>6, <1>7 DEF u

\* A sequence cut before place m.
LEMMA CutElements ==
  ASSUME NEW s \in Seq(Nat), NEW m \in 1..(Len(s) + 1)
  PROVE  LET a == SubSeq(s, 1, m - 1)  z == SubSeq(s, m, Len(s)) IN
         /\ a \in Seq(Nat) /\ z \in Seq(Nat)
         /\ Len(a) = m - 1 /\ Len(z) = Len(s) - m + 1
         /\ \A i \in 1..Len(a) : a[i] = s[i]
         /\ \A i \in 1..Len(z) : z[i] = s[m + i - 1]
         /\ Elements(s) = Elements(a) \cup Elements(z)
         /\ Rising(s) => /\ Rising(a) /\ Rising(z)
                         /\ \A x \in Elements(a), y \in Elements(z) : x < y
<1> DEFINE a == SubSeq(s, 1, m - 1)  z == SubSeq(s, m, Len(s))
<1>1. Len(s) \in Nat /\ \A i \in 1..Len(s) : s[i] \in Nat
  BY ElementsOf DEF Shape
<1>2. a \in Seq(Nat) /\ Len(a) = m - 1 /\ \A i \in 1..(m - 1) : a[i] = s[i]
  <2>1. \A i \in 1..(m - 1) : s[i] \in Nat
    BY <1>1
  <2>2. /\ a \in Seq(Nat) /\ Len(a) = IF 1 <= m - 1 THEN (m - 1) - 1 + 1 ELSE 0
        /\ \A i \in 1..((m - 1) - 1 + 1) : a[i] = s[1 + i - 1]
    BY <1>1, <2>1, SubSeqProperties
  <2> QED
    BY <1>1, <2>2
<1>3. /\ z \in Seq(Nat) /\ Len(z) = Len(s) - m + 1
      /\ \A i \in 1..(Len(s) - m + 1) : z[i] = s[m + i - 1]
  <2>1. \A i \in m..Len(s) : s[i] \in Nat
    BY <1>1
  <2>2. /\ z \in Seq(Nat) /\ Len(z) = IF m <= Len(s) THEN Len(s) - m + 1 ELSE 0
        /\ \A i \in 1..(Len(s) - m + 1) : z[i] = s[m + i - 1]
    BY <1>1, <2>1, SubSeqProperties
  <2> QED
    BY <1>1, <2>2
<1> HIDE DEF a, z
<1>4. Shape(s) /\ Shape(a) /\ Shape(z)
  BY <1>2, <1>3, ElementsOf
<1>5. \A i \in 1..Len(a) : i \in 1..Len(s) /\ a[i] = s[i] /\ i < m
  BY <1>1, <1>2
<1>6. \A i \in 1..Len(z) : m + i - 1 \in 1..Len(s) /\ z[i] = s[m + i - 1] /\ m + i - 1 >= m
  BY <1>1, <1>3
<1>7. ASSUME NEW i \in 1..Len(s) PROVE s[i] \in Elements(a) \cup Elements(z)
  <2>1. CASE i < m
    <3>1. i \in 1..Len(a)
      BY <1>2, <2>1
    <3> QED
      BY <1>4, <1>5, <3>1 DEF Shape
  <2>2. CASE i >= m
    <3>1. i - m + 1 \in 1..Len(z) /\ m + (i - m + 1) - 1 = i
      BY <1>1, <1>3, <2>2
    <3>2. z[i - m + 1] = s[i]
      BY <1>6, <3>1
    <3> QED
      BY <1>4, <3>1, <3>2 DEF Shape
  <2> QED
    BY <2>1, <2>2
<1>8. Elements(s) = Elements(a) \cup Elements(z)
  <2>1. ASSUME NEW x \in Elements(s) PROVE x \in Elements(a) \cup Elements(z)
    <3>1. PICK i \in 1..Len(s) : x = s[i]
      BY <1>4 DEF Shape
    <3> QED
      BY <1>7, <3>1
  <2>2. ASSUME NEW x \in Elements(a) PROVE x \in Elements(s)
    <3>1. PICK i \in 1..Len(a) : x = a[i]
      BY <1>4 DEF Shape
    <3> QED
      BY <1>4, <1>5, <3>1 DEF Shape
  <2>3. ASSUME NEW x \in Elements(z) PROVE x \in Elements(s)
    <3>1. PICK i \in 1..Len(z) : x = z[i]
      BY <1>4 DEF Shape
    <3> QED
      BY <1>4, <1>6, <3>1 DEF Shape
  <2> QED
    BY <2>1, <2>2, <2>3
<1>9. ASSUME Rising(s)
      PROVE  /\ Rising(a) /\ Rising(z)
             /\ \A x \in Elements(a), y \in Elements(z) : x < y
  <2>1. \A i, j \in 1..Len(s) : i < j => s[i] < s[j]
    BY <1>4, <1>9 DEF Shape
  <2>2. \A i, j \in 1..Len(a) : i < j => a[i] < a[j]
    BY <1>5, <2>1
  <2>3. ASSUME NEW i \in 1..Len(z), NEW j \in 1..Len(z), i < j PROVE z[i] < z[j]
    <3>1. m + i - 1 < m + j - 1
      BY <1>3, <2>3
    <3> QED
      BY <1>6, <2>1, <3>1
  <2>4. ASSUME NEW i \in 1..Len(a), NEW j \in 1..Len(z) PROVE a[i] < z[j]
    <3>1. i < m + j - 1
      BY <1>5, <1>6
    <3> QED
      BY <1>5, <1>6, <2>1, <3>1
  <2>5. ASSUME NEW x \in Elements(a), NEW y \in Elements(z) PROVE x < y
    <3>1. (\E i \in 1..Len(a) : x = a[i]) /\ (\E j \in 1..Len(z) : y = z[j])
      BY <1>4 DEF Shape
    <3> QED
      BY <2>4, <3>1
  <2> QED
    BY <1>4, <2>2, <2>3, <2>5 DEF Shape
<1> QED
  BY <1>2, <1>3, <1>8, <1>9 DEF a, z

LEMMA CutAfter ==
  ASSUME NEW s \in Seq(Nat), NEW n \in 0..Len(s)
  PROVE  LET a == SubSeq(s, 1, n)  z == SubSeq(s, n + 1, Len(s)) IN
         /\ a \in Seq(Nat) /\ z \in Seq(Nat)
         /\ Len(a) = n /\ Len(z) = Len(s) - n
         /\ \A i \in 1..n : a[i] = s[i]
         /\ \A i \in 1..(Len(s) - n) : z[i] = s[n + i]
         /\ Elements(s) = Elements(a) \cup Elements(z)
         /\ Rising(s) => /\ Rising(a) /\ Rising(z)
                         /\ \A x \in Elements(a), y \in Elements(z) : x < y
<1> DEFINE m == n + 1
<1>1. Len(s) \in Nat
  BY ElementsOf DEF Shape
<1>2. m \in 1..(Len(s) + 1) /\ m - 1 = n /\ Len(s) - m + 1 = Len(s) - n
      /\ \A i \in 1..(Len(s) - n) : m + i - 1 = n + i
  BY <1>1
<1> HIDE DEF m
<1> DEFINE a == SubSeq(s, 1, m - 1)  z == SubSeq(s, m, Len(s))
<1>3. /\ a \in Seq(Nat) /\ z \in Seq(Nat)
      /\ Len(a) = m - 1 /\ Len(z) = Len(s) - m + 1
      /\ \A i \in 1..Len(a) : a[i] = s[i]
      /\ \A i \in 1..Len(z) : z[i] = s[m + i - 1]
      /\ Elements(s) = Elements(a) \cup Elements(z)
      /\ Rising(s) => /\ Rising(a) /\ Rising(z)
                      /\ \A x \in Elements(a), y \in Elements(z) : x < y
  BY <1>2, CutElements
<1>4. a = SubSeq(s, 1, n) /\ z = SubSeq(s, n + 1, Len(s))
  BY <1>2 DEF m
<1> HIDE DEF a, z
<1>5. /\ Len(a) = n /\ Len(z) = Len(s) - n
      /\ \A i \in 1..n : a[i] = s[i]
      /\ \A i \in 1..(Len(s) - n) : z[i] = s[n + i]
  BY <1>2, <1>3
<1> QED
  BY <1>3, <1>4, <1>5

-----------------------------------------------------------------------------
(***************************************************************************)
(* A write moves the oldest frames of the buffer to the latest file.       *)
(***************************************************************************)
LEMMA KeptWrite ==
  ASSUME NEW n, NEW l, NEW b \in Seq(Nat), NEW fs \in Seq(FileRecords), NEW gs,
         NEW nb \in 0..Len(b), Len(fs) > 0,
         Len(gs) = Len(fs), \A k \in 1..(Len(fs) - 1) : gs[k] = fs[k],
         gs[Len(fs)].data = fs[Len(fs)].data \o SubSeq(b, 1, nb),
         Kept(n, l, b, fs), n \in Nat
  PROVE  Kept(n, l, SubSeq(b, nb + 1, Len(b)), gs)
<1> DEFINE f == Len(fs)
           a == SubSeq(b, 1, nb)
           z == SubSeq(b, nb + 1, Len(b))
           d == fs[f].data
<1>1. f \in Nat /\ f > 0 /\ f \in 1..f /\ 1..f = 1..(f - 1) \cup {f} /\ f \notin 1..(f - 1)
  BY LenProperties
<1>2. d \in Seq(Nat)
  <2>1. fs[f] \in FileRecords
    BY <1>1, ElementOfSeq
  <2> QED
    BY <2>1 DEF FileRecords
<1>3. Rising(b)
  BY DEF Kept
<1>4. /\ a \in Seq(Nat) /\ z \in Seq(Nat)
      /\ Elements(b) = Elements(a) \cup Elements(z)
      /\ Rising(a) /\ Rising(z)
      /\ \A x \in Elements(a), y \in Elements(z) : x < y
  BY <1>3, CutAfter
<1>5. Len(gs) = f /\ gs[f].data = d \o a /\ \A k \in 1..(f - 1) : gs[k] = fs[k]
  OBVIOUS
<1>6. Kept(n, l, b, fs)
  OBVIOUS
<1>7. Elements(d) \subseteq Recorded(fs)
  BY <1>1 DEF Recorded
<1> HIDE DEF f, a, z, d
<1>8. \A x \in Recorded(fs), y \in Elements(b) : x < y
  BY <1>6 DEF Kept
<1>9. Elements(gs[f].data) = Elements(d) \cup Elements(a) /\ Rising(gs[f].data)
  <2>1. Rising(d)
    BY <1>1, <1>6 DEF Kept, f, d
  <2> QED
    BY <1>2, <1>4, <1>5, <1>7, <1>8, <2>1, CatElements
<1>10. Recorded(gs) = Recorded(fs) \cup Elements(a)
  <2>1. ASSUME NEW k \in 1..f
        PROVE  /\ Elements(gs[k].data) \subseteq Recorded(fs) \cup Elements(a)
               /\ Elements(fs[k].data) \subseteq Elements(gs[k].data)
    <3>1. CASE k = f
      BY <1>7, <1>9, <3>1 DEF d
    <3>2. CASE k \in 1..(f - 1)
      BY <1>5, <3>2 DEF Recorded, f
    <3> QED
      BY <1>1, <3>1, <3>2
  <2>2. Recorded(gs) = UNION {Elements(gs[k].data) : k \in 1..f}
        /\ Recorded(fs) = UNION {Elements(fs[k].data) : k \in 1..f}
    BY <1>5 DEF Recorded, f
  <2>3. Elements(a) \subseteq Elements(gs[f].data)
    BY <1>9
  <2>4. Elements(a) \subseteq Recorded(gs)
    BY <1>1, <2>2, <2>3
  <2>5. ASSUME NEW x \in Recorded(gs) PROVE x \in Recorded(fs) \cup Elements(a)
    <3>1. PICK k \in 1..f : x \in Elements(gs[k].data)
      BY <2>2
    <3> QED
      BY <2>1, <3>1
  <2>6. ASSUME NEW x \in Recorded(fs) PROVE x \in Recorded(gs)
    <3>1. PICK k \in 1..f : x \in Elements(fs[k].data)
      BY <2>2
    <3> QED
      BY <2>1, <2>2, <3>1
  <2> QED
    BY <2>4, <2>5, <2>6
<1>11. /\ 1..(n - 1) = l \cup Recorded(gs) \cup Elements(z)
       /\ l \cap (Recorded(gs) \cup Elements(z)) = {}
  BY <1>4, <1>6, <1>10 DEF Kept
<1>12. \A k \in 1..Len(gs) : Rising(gs[k].data)
  <2>1. \A k \in 1..(f - 1) : Rising(gs[k].data)
    BY <1>1, <1>5, <1>6 DEF Kept, f
  <2> QED
    BY <1>1, <1>5, <1>9, <2>1
<1>13. ASSUME NEW k \in 1..Len(gs), NEW m \in 1..Len(gs), k < m,
              NEW x \in Elements(gs[k].data), NEW y \in Elements(gs[m].data)
       PROVE  x < y
  <2>1. k \in 1..f /\ m \in 1..f /\ k \in 1..(f - 1)
    BY <1>1, <1>5, <1>13
  <2>2. x \in Elements(fs[k].data) /\ x \in Recorded(fs)
    BY <1>5, <2>1 DEF Recorded, f
  <2>3. CASE y \in Elements(fs[m].data)
    BY <1>6, <1>13, <2>1, <2>2, <2>3 DEF Kept, f
  <2>4. CASE y \in Elements(a)
    BY <1>4, <1>8, <2>2, <2>4
  <2> QED
    BY <1>1, <1>5, <1>9, <2>1, <2>3, <2>4 DEF d
<1>14. \A x \in Recorded(gs), y \in Elements(z) : x < y
  BY <1>4, <1>8, <1>10
<1>15. Kept(n, l, z, gs)
  BY <1>4, <1>11, <1>12, <1>13, <1>14 DEF Kept
<1> QED
  BY <1>15 DEF z

(***************************************************************************)
(* A delivery of the frames n to t - 1, of which the first a are queued    *)
(* and the oldest in the buffer make room.                                 *)
(***************************************************************************)
LEMMA KeptQueue ==
  ASSUME NEW n \in Nat \ {0}, NEW l \in SUBSET Nat, NEW b \in Seq(Nat), NEW fs,
         NEW t \in Nat, t >= n, NEW a \in 0..(t - n), NEW new \in Seq(Nat),
         Len(new) = a, \A i \in 1..a : new[i] = n + i - 1,
         NEW drop \in 0..Len(b \o new), Kept(n, l, b, fs)
  PROVE  LET b2 == SubSeq(b \o new, drop + 1, Len(b \o new))
             l2 == l \cup ((Elements(b) \cup n..(t - 1)) \ Elements(b2))
         IN  Kept(t, l2, b2, fs) /\ l2 \in SUBSET Nat
<1> DEFINE all == b \o new
           b2 == SubSeq(all, drop + 1, Len(all))
           l2 == l \cup ((Elements(b) \cup n..(t - 1)) \ Elements(b2))
<1>1. Shape(new)
  BY ElementsOf
<1>2. Elements(new) \subseteq n..(t - 1) /\ Rising(new)
  <2>1. ASSUME NEW x \in Elements(new) PROVE x \in n..(t - 1)
    <3>1. PICK i \in 1..Len(new) : x = new[i]
      BY <1>1 DEF Shape
    <3> QED
      BY <3>1
  <2>2. \A i, j \in 1..Len(new) : i < j => new[i] < new[j]
    OBVIOUS
  <2> QED
    BY <1>1, <2>1, <2>2 DEF Shape
<1>3. /\ 1..(n - 1) = l \cup Recorded(fs) \cup Elements(b)
      /\ l \cap (Recorded(fs) \cup Elements(b)) = {}
      /\ Rising(b)
      /\ \A x \in Recorded(fs), y \in Elements(b) : x < y
  BY DEF Kept
<1>4. \A x \in 1..(n - 1), y \in n..(t - 1) : x < y
  OBVIOUS
<1>5. /\ all \in Seq(Nat) /\ Rising(all)
      /\ Elements(all) = Elements(b) \cup Elements(new)
  BY <1>2, <1>3, <1>4, CatElements
<1> HIDE DEF all
<1>6. /\ Rising(b2)
      /\ Elements(b2) \subseteq Elements(b) \cup Elements(new)
  BY <1>5, CutAfter DEF all
<1> HIDE DEF b2
<1>7. 1..(t - 1) = 1..(n - 1) \cup n..(t - 1)
  OBVIOUS
<1>8. Recorded(fs) \cap Elements(b) = {} /\ Recorded(fs) \cap n..(t - 1) = {}
  <2>1. \A x \in 1..(n - 1) : ~(x < x) /\ x \notin n..(t - 1)
    OBVIOUS
  <2> QED
    BY <1>3, <2>1
<1>9. l \cap n..(t - 1) = {}
  BY <1>3
<1>10. 1..(t - 1) = l2 \cup Recorded(fs) \cup Elements(b2)
  BY <1>2, <1>3, <1>6, <1>7
<1>11. l2 \cap (Recorded(fs) \cup Elements(b2)) = {}
  BY <1>2, <1>3, <1>6, <1>8, <1>9
<1>12. \A x \in Recorded(fs), y \in Elements(b2) : x < y
  <2>1. Recorded(fs) \subseteq 1..(n - 1)
    BY <1>3
  <2> QED
    BY <1>2, <1>3, <1>4, <1>6, <2>1
<1>13. l2 \in SUBSET Nat
  BY <1>3
<1>14. Kept(t, l2, b2, fs)
  BY <1>6, <1>10, <1>11, <1>12 DEF Kept
<1> QED
  BY <1>13, <1>14 DEF b2, all

\* A delivery of which nothing is queued.
LEMMA KeptLost ==
  ASSUME NEW n \in Nat \ {0}, NEW l, NEW b, NEW fs, NEW t \in Nat, t >= n,
         Kept(n, l, b, fs)
  PROVE  Kept(t, l \cup n..(t - 1), b, fs)
<1>1. 1..(t - 1) = 1..(n - 1) \cup n..(t - 1) /\ 1..(n - 1) \cap n..(t - 1) = {}
  OBVIOUS
<1> QED
  BY <1>1 DEF Kept

-----------------------------------------------------------------------------
\* The file being written is the one its client waits for, and has the slot.
SlotFollows ==
  orderly => /\ pathTemplate = 0 => fd = 0
             /\ ~regen => slot.fd \in {0, fd}

IInv == Plain /\ SlotFollows /\ (Tell => Kept(now, lost, outputBuffer, files))

LEMMA DoneIs ==
  ASSUME Plain, NEW err \in {"rawFileDone", "rawFileError"},
         NEW fs \in Seq(FileRecords), Len(fs) = Len(files), DoneOutputFile(err, fs)
  PROVE  /\ files' \in Seq(FileRecords) /\ Same(fs, files')
         /\ fd' = 0 /\ regen' = TRUE /\ pathTemplate' \in Nat
<1>1. fd' = 0 /\ regen' = TRUE /\ pathTemplate' \in Nat
  BY DEF DoneOutputFile, RegenAfterDone, Plain
<1>2. CASE fd = 0
  <2>1. files' = fs
    BY <1>2 DEF DoneOutputFile
  <2> QED
    BY <1>1, <2>1 DEF Same
<1>3. CASE fd # 0
  <2>1. PICK receiver \in Receivers : files' = Closed(err, fs, receiver)
    BY <1>3 DEF DoneOutputFile
  <2>2. fd \in 1..Len(fs)
    BY <1>3, LenProperties DEF Plain
  <2>3. fs[fd] \in FileRecords
    BY <2>2, ElementOfSeq
  <2> DEFINE r == [fs[fd] EXCEPT !.open = FALSE, !.reported = err, !.told = receiver]
  <2>4. r \in FileRecords /\ r.data = fs[fd].data /\ r.request = fs[fd].request
        /\ r.stamp = fs[fd].stamp
    BY <2>3 DEF FileRecords
  <2>5. files' = [fs EXCEPT ![fd] = r]
    BY <2>1 DEF Closed
  <2> HIDE DEF r
  <2>6. /\ files' \in Seq(FileRecords) /\ Len(files') = Len(fs)
        /\ \A k \in 1..Len(fs) : files'[k] = IF k = fd THEN r ELSE fs[k]
    BY <2>2, <2>4, <2>5, ExceptSeq
  <2>7. Same(fs, files')
    BY <2>4, <2>6 DEF Same
  <2> QED
    BY <1>1, <2>6, <2>7
<1> QED
  BY <1>2, <1>3

(***************************************************************************)
(* What a delivery does to frames: a of n are queued, and drop of those in *)
(* the buffer make room.                                                   *)
(***************************************************************************)
LEMMA QueueIs ==
  ASSUME IInv, NEW n \in 1..MaxChunk, QueueOutput(n)
  PROVE  /\ outputBuffer' \in Seq(Nat) /\ Len(outputBuffer') <= Capacity
         /\ now' \in Nat \ {0} /\ lost' \in SUBSET Nat
         /\ Tell => Kept(now', lost', outputBuffer', files)
         /\ filename' \in Nat /\ currFileTimestamp' \in Int /\ timestampCaptured' \in BOOLEAN
<1> DEFINE a == Accepted(n)
           time == IF Tell THEN now + n ELSE now
           new == [i \in 1..a |-> IF Tell THEN now + i - 1 ELSE 0]
           all == outputBuffer \o new
           drop == IF Len(all) > Capacity THEN Len(all) - Capacity ELSE 0
<1>1. Plain /\ Capacity \in Nat \ {0} /\ n \in Nat \ {0} /\ Len(outputBuffer) \in Nat
  BY LenProperties DEF IInv, Plain
<1>2. a \in 0..n
  BY <1>1 DEF Accepted, Lesser, Plain
<1>3. time \in Nat \ {0} /\ time >= now /\ time = now' /\ (Tell => time - now = n)
  <2>1. time = now'
    BY DEF QueueOutput
  <2>2. now \in Nat \ {0}
    BY <1>1 DEF Plain
  <2> QED
    BY <1>1, <2>1, <2>2
<1>4. /\ new \in Seq(Nat) /\ Len(new) = a
      /\ Tell => \A i \in 1..a : new[i] = now + i - 1
  <2>1. new \in [1..a -> Nat]
    BY <1>1, <1>2 DEF Plain
  <2>2. a \in Nat
    BY <1>2
  <2> QED
    BY <2>1, <2>2
<1>5. \/ a = 0 /\ lost' = lost \cup now..(time - 1) /\ outputBuffer' = outputBuffer
      \/ /\ outputBuffer' = Inserted(new)
         /\ lost' = lost \cup ((Elements(outputBuffer) \cup now..(time - 1))
                                \ Elements(outputBuffer'))
  BY DEF QueueOutput
<1>12. \/ UNCHANGED <<filename, currFileTimestamp, timestampCaptured>>
       \/ NameFile(IF Tell THEN CaptureStamp(now + a - 1, Len(Inserted(new))) ELSE 0)
  BY DEF QueueOutput, OpenFile, OpenNothing, naming
<1> HIDE DEF a, time, new
<1>0. now..(time - 1) \subseteq Nat /\ lost \subseteq Nat
  <2>1. now \in Nat /\ lost \subseteq Nat
    BY <1>1 DEF Plain
  <2>2. time \in Nat
    BY <1>3
  <2>3. \A x \in now..(time - 1) : x \in Nat
    BY <2>1, <2>2
  <2> QED
    BY <2>1, <2>3
<1>6. /\ all \in Seq(Nat) /\ Len(all) \in Nat
  BY <1>1, <1>4, ConcatProperties, LenProperties DEF Plain
<1> HIDE DEF all
<1>7. drop \in 0..Len(all) /\ Len(all) - drop <= Capacity
  BY <1>1, <1>6
<1>8. Inserted(new) = SubSeq(all, drop + 1, Len(all))
  <2>1. drop + 1 = IF Len(all) > Capacity THEN Len(all) - Capacity + 1 ELSE 1
    BY <1>1, <1>6
  <2> QED
    BY <2>1 DEF Inserted, all
<1> HIDE DEF drop
<1>9. Inserted(new) \in Seq(Nat) /\ Len(Inserted(new)) <= Capacity
  BY <1>6, <1>7, <1>8, CutAfter
<1>13. filename' \in Nat /\ currFileTimestamp' \in Int /\ timestampCaptured' \in BOOLEAN
  <2>1. Len(Inserted(new)) \in Nat /\ now \in Nat /\ a \in Nat
    BY <1>1, <1>2, <1>9, LenProperties DEF Plain
  <2>2. (IF Tell THEN CaptureStamp(now + a - 1, Len(Inserted(new))) ELSE 0) \in Int
    BY <2>1 DEF CaptureStamp
  <2> QED
    BY <1>1, <1>12, <2>2 DEF NameFile, Plain
<1>10. CASE a = 0 /\ lost' = lost \cup now..(time - 1) /\ outputBuffer' = outputBuffer
  <2>1. lost' \in SUBSET Nat
    BY <1>0, <1>10
  <2>2. Tell => Kept(time, lost \cup now..(time - 1), outputBuffer, files)
    BY <1>1, <1>3, KeptLost DEF IInv, Plain
  <2> QED
    BY <1>1, <1>3, <1>10, <1>13, <2>1, <2>2 DEF Plain
<1>11. CASE /\ outputBuffer' = Inserted(new)
            /\ lost' = lost \cup ((Elements(outputBuffer) \cup now..(time - 1))
                                   \ Elements(outputBuffer'))
  <2>1. lost' \in SUBSET Nat
    <3>1. Elements(outputBuffer) \subseteq Nat
      <4>1. Shape(outputBuffer)
        BY <1>1, ElementsOf DEF Plain
      <4> QED
        BY <4>1 DEF Shape
    <3> QED
      BY <1>0, <1>11, <3>1
  <2>2. ASSUME Tell PROVE Kept(now', lost', outputBuffer', files)
    <3>1. /\ a \in 0..(time - now) /\ \A i \in 1..a : new[i] = now + i - 1
          /\ drop \in 0..Len(outputBuffer \o new)
          /\ Kept(now, lost, outputBuffer, files)
      BY <1>2, <1>3, <1>4, <1>7, <2>2 DEF IInv, all
    <3>2. LET b2 == SubSeq(outputBuffer \o new, drop + 1, Len(outputBuffer \o new))
              l2 == lost \cup ((Elements(outputBuffer) \cup now..(time - 1)) \ Elements(b2))
          IN  Kept(time, l2, b2, files)
      BY <1>1, <1>3, <1>4, <3>1, KeptQueue DEF Plain
    <3> QED
      BY <1>3, <1>8, <1>11, <3>2 DEF all
  <2> QED
    BY <1>3, <1>9, <1>11, <1>13, <2>1, <2>2
<1> QED
  BY <1>5, <1>10, <1>11

LEMMA NewFileIs == ASSUME Plain PROVE NewFile \in FileRecords /\ NewFile.data = <<>>
<1>1. <<>> \in Seq(Nat)
  BY EmptySeq
<1> QED
  BY <1>1 DEF Plain, NewFile, FileRecords

-----------------------------------------------------------------------------
LEMMA InitInv == Init => IInv
<1> SUFFICES ASSUME Init PROVE IInv
  OBVIOUS
<1>1. Len(<<>>) = 0 /\ <<>> \in Seq(Nat) /\ <<>> \in Seq(FileRecords)
  BY EmptySeq
<1>2. Plain
  <2>1. /\ outputBuffer \in Seq(Nat) /\ Len(outputBuffer) <= Capacity
        /\ files \in Seq(FileRecords)
    BY <1>1 DEF Init
  <2>2. orderly \in BOOLEAN /\ failing \in BOOLEAN
    BY WavFileWriterAssumption DEF Init
  <2>3. slot \in [fd : Nat, out : BOOLEAN]
    BY DEF Init
  <2>4. lost \in SUBSET Nat /\ timestampCaptured \in BOOLEAN /\ regen \in BOOLEAN
    BY DEF Init
  <2>5. /\ now \in Nat \ {0} /\ fd \in Nat /\ (fd # 0 => fd = Len(files))
        /\ pathTemplate \in Nat /\ filename \in Nat
        /\ currFileTimestamp \in Int /\ byteCountdown \in Int
    BY DEF Init
  <2>6. asked \in Seq(Orders) /\ requests \in Nat
    BY DEF Init, requests
  <2> QED
    BY <2>1, <2>2, <2>3, <2>4, <2>5, <2>6 DEF Plain
<1>3. SlotFollows
  BY DEF Init, SlotFollows
<1>4. Kept(1, {}, <<>>, <<>>)
  <2>1. Elements(<<>>) = {} /\ Rising(<<>>)
    BY DEF Elements, Rising
  <2>2. Recorded(<<>>) = {} /\ 1..Len(<<>>) = {}
    BY <1>1 DEF Recorded
  <2> QED
    BY <2>1, <2>2 DEF Kept
<1> QED
  BY <1>2, <1>3, <1>4 DEF Init, IInv

\* The steps that move no frame and close no file.
LEMMA StillInv ==
  ASSUME IInv,
         Poll \/ NoData \/ EnsureDirs \/ EnsureDirsLate \/ NoSlot \/ RawFileOff \/ EndRound
         \/ UNCHANGED vars
  PROVE  IInv'
<1>1. UNCHANGED <<now, outputBuffer, fd, pathTemplate, filename, currFileTimestamp,
                  timestampCaptured, byteCountdown, orderly, failing, asked, requests,
                  files, lost>>
  BY DEF Poll, NoData, EnsureDirs, EnsureDirsLate, NoSlot, RawFileOff, EndRound, vars,
         naming, progress, history, requests
<1>2. Plain /\ SlotFollows
  BY DEF IInv
<1>3. CASE Poll
  <2>1. PICK others \in BOOLEAN : slot' = SlotAfter(regen \/ others)
    BY <1>3 DEF Poll
  <2>2. regen' = FALSE /\ slot' \in [fd : Nat, out : BOOLEAN]
    BY <1>2, <1>3, <2>1 DEF Poll, SlotAfter, Plain
  <2>3. (slot' = slot /\ ~regen) \/ slot'.fd = fd
    BY <2>1 DEF SlotAfter
  <2>4. Plain'
    BY <1>1, <1>2, <2>2 DEF Plain
  <2>5. SlotFollows'
    BY <1>1, <1>2, <2>2, <2>3 DEF SlotFollows
  <2> QED
    BY <1>1, <2>4, <2>5 DEF IInv
<1>4. CASE ~Poll
  <2>1. UNCHANGED <<slot, regen>>
    BY <1>4 DEF NoData, EnsureDirs, EnsureDirsLate, NoSlot, RawFileOff, EndRound, vars
  <2>2. Plain'
    BY <1>1, <1>2, <2>1 DEF Plain
  <2>3. SlotFollows'
    BY <1>1, <1>2, <2>1 DEF SlotFollows
  <2> QED
    BY <1>1, <2>2, <2>3 DEF IInv
<1> QED
  BY <1>3, <1>4

LEMMA QueueOutputInv ==
  ASSUME IInv, NEW n \in 1..MaxChunk, QueueOutput(n) PROVE IInv'
<1>1. /\ outputBuffer' \in Seq(Nat) /\ Len(outputBuffer') <= Capacity
      /\ now' \in Nat \ {0} /\ lost' \in SUBSET Nat
      /\ Tell => Kept(now', lost', outputBuffer', files)
      /\ filename' \in Nat /\ currFileTimestamp' \in Int /\ timestampCaptured' \in BOOLEAN
  BY QueueIs
<1>2. Plain /\ SlotFollows
  BY DEF IInv
<1>3. /\ UNCHANGED <<byteCountdown, orderly, failing, asked, requests>>
      /\ slot' \in [fd : Nat, out : BOOLEAN] /\ slot'.fd = slot.fd
  BY <1>2 DEF QueueOutput, progress, Plain, requests
<1>4. \/ UNCHANGED <<fd, files, regen, pathTemplate>>
      \/ fd = 0 /\ OpenFile
  BY DEF QueueOutput, NameFile, OpenNothing, naming
<1>5. /\ fd' \in Nat /\ (fd' # 0 => fd' = Len(files')) /\ files' \in Seq(FileRecords)
      /\ pathTemplate' \in Nat /\ regen' \in BOOLEAN
      /\ Tell => Kept(now', lost', outputBuffer', files')
      /\ SlotFollows'
  <2>1. CASE UNCHANGED <<fd, files, regen, pathTemplate>>
    BY <1>1, <1>2, <1>3, <2>1 DEF Plain, SlotFollows
  <2>2. CASE /\ fd' = Len(files) + 1
             /\ files' = Append(files, NewFile)
             /\ regen' = TRUE /\ UNCHANGED pathTemplate /\ pathTemplate # 0
    <3>1. NewFile \in FileRecords /\ NewFile.data = <<>>
      BY <1>2, NewFileIs
    <3>2. /\ files' \in Seq(FileRecords) /\ Len(files') = Len(files) + 1
          /\ Len(files) \in Nat
      BY <1>2, <2>2, <3>1, AppendProperties, LenProperties DEF Plain
    <3>3. Tell => Kept(now', lost', outputBuffer', files')
      BY <1>1, <1>2, <2>2, <3>1, KeptAppend DEF Plain
    <3> QED
      BY <1>2, <1>3, <2>2, <3>2, <3>3 DEF Plain, SlotFollows
  <2>3. CASE DoneOutputFile("rawFileError", files)
    <3>1. /\ files' \in Seq(FileRecords) /\ Same(files, files')
          /\ fd' = 0 /\ regen' = TRUE /\ pathTemplate' \in Nat
      BY <1>2, <2>3, DoneIs DEF Plain
    <3> QED
      BY <1>1, <1>3, <2>3, <3>1, KeptSame DEF SlotFollows
  <2> QED
    BY <1>4, <2>1, <2>2, <2>3 DEF OpenFile, RegenAfterOpen
<1> QED
  BY <1>1, <1>2, <1>3, <1>5 DEF IInv, Plain

(***************************************************************************)
(* A write to the open file, of a header or of nb frames.                  *)
(***************************************************************************)
LEMMA WriteIs ==
  ASSUME Plain, fd # 0, NEW nb \in 0..Len(outputBuffer),
         NEW fs, fs = [files EXCEPT ![fd].data = @ \o SubSeq(outputBuffer, 1, nb)]
  PROVE  /\ fs \in Seq(FileRecords) /\ Len(fs) = Len(files)
         /\ SubSeq(outputBuffer, nb + 1, Len(outputBuffer)) \in Seq(Nat)
         /\ Len(SubSeq(outputBuffer, nb + 1, Len(outputBuffer))) = Len(outputBuffer) - nb
         /\ Kept(now, lost, outputBuffer, files) =>
              Kept(now, lost, SubSeq(outputBuffer, nb + 1, Len(outputBuffer)), fs)
         /\ \A k \in 1..Len(files) :
              /\ fs[k].data = IF k = fd THEN files[fd].data \o SubSeq(outputBuffer, 1, nb)
                                        ELSE files[k].data
              /\ fs[k].request = files[k].request /\ fs[k].stamp = files[k].stamp
<1>1. fd = Len(files) /\ fd \in 1..Len(files) /\ files \in Seq(FileRecords)
  <2>1. files \in Seq(FileRecords) /\ fd = Len(files) /\ fd \in Nat
    BY DEF Plain
  <2> QED
    BY <2>1
<1>2. files[fd] \in FileRecords
  BY <1>1, ElementOfSeq
<1>3. /\ SubSeq(outputBuffer, 1, nb) \in Seq(Nat)
      /\ SubSeq(outputBuffer, nb + 1, Len(outputBuffer)) \in Seq(Nat)
      /\ Len(SubSeq(outputBuffer, nb + 1, Len(outputBuffer))) = Len(outputBuffer) - nb
  BY CutAfter DEF Plain
<1> DEFINE d == files[fd].data \o SubSeq(outputBuffer, 1, nb)
           r == [files[fd] EXCEPT !.data = d]
<1>4. d \in Seq(Nat)
  BY <1>2, <1>3, ConcatProperties DEF FileRecords
<1>5. fs = [files EXCEPT ![fd] = r]
  OBVIOUS
<1>6. d = files[fd].data \o SubSeq(outputBuffer, 1, nb)
  OBVIOUS
<1> HIDE DEF d
<1>7. r \in FileRecords /\ r.data = d /\ r.request = files[fd].request
      /\ r.stamp = files[fd].stamp
  BY <1>2, <1>4 DEF FileRecords
<1> HIDE DEF r
<1>8. /\ fs \in Seq(FileRecords) /\ Len(fs) = Len(files)
      /\ \A k \in 1..Len(files) : fs[k] = IF k = fd THEN r ELSE files[k]
  <2>1. fd \in 1..Len(files) /\ files \in Seq(FileRecords) /\ r \in FileRecords
    BY <1>1, <1>7
  <2>2. /\ [files EXCEPT ![fd] = r] \in Seq(FileRecords)
        /\ Len([files EXCEPT ![fd] = r]) = Len(files)
        /\ \A k \in 1..Len(files) : [files EXCEPT ![fd] = r][k] = IF k = fd THEN r ELSE files[k]
    BY <2>1, ExceptSeq
  <2> QED
    BY <1>5, <2>2
<1>9. ASSUME Kept(now, lost, outputBuffer, files)
      PROVE  Kept(now, lost, SubSeq(outputBuffer, nb + 1, Len(outputBuffer)), fs)
  <2>1. \A k \in 1..(Len(files) - 1) : fs[k] = files[k]
    BY <1>1, <1>8, LenProperties
  <2>2. fs[Len(files)].data = files[Len(files)].data \o SubSeq(outputBuffer, 1, nb)
    BY <1>1, <1>6, <1>7, <1>8
  <2>3. Len(files) > 0
    BY <1>1
  <2> QED
    BY <1>1, <1>8, <1>9, <2>1, <2>2, <2>3, KeptWrite DEF Plain
<1>10. ASSUME NEW k \in 1..Len(files)
       PROVE  /\ fs[k].data = IF k = fd THEN d ELSE files[k].data
              /\ fs[k].request = files[k].request /\ fs[k].stamp = files[k].stamp
  <2>1. CASE k = fd
    <3>1. fs[fd].data = d /\ fs[fd].request = files[fd].request /\ fs[fd].stamp = files[fd].stamp
      BY <1>1, <1>7, <1>8
    <3> QED
      BY <2>1, <3>1
  <2>2. CASE k # fd
    BY <1>8, <2>2
  <2> QED
    BY <2>1, <2>2
<1> QED
  BY <1>3, <1>6, <1>8, <1>9, <1>10

LEMMA HandleEventsInv == ASSUME IInv, HandleEvents PROVE IInv'
<1>1. Plain /\ SlotFollows /\ (Tell => Kept(now, lost, outputBuffer, files))
  BY DEF IInv
<1>2. UNCHANGED <<now, filename, currFileTimestamp, timestampCaptured, orderly, failing,
                  asked, requests, lost>>
  BY DEF HandleEvents, requests
<1>3. SUFFICES /\ outputBuffer' \in Seq(Nat) /\ Len(outputBuffer') <= Capacity
               /\ files' \in Seq(FileRecords)
               /\ fd' \in Nat /\ (fd' # 0 => fd' = Len(files'))
               /\ slot' \in [fd : Nat, out : BOOLEAN] /\ slot'.fd = slot.fd
               /\ pathTemplate' \in Nat /\ byteCountdown' \in Int /\ regen' \in BOOLEAN
               /\ (fd' = 0 /\ regen' = TRUE) \/ UNCHANGED <<fd, regen, pathTemplate>>
               /\ Tell => Kept(now, lost, outputBuffer', files')
  BY <1>1, <1>2, <1>3 DEF IInv, Plain, SlotFollows
<1>4. slot' \in [fd : Nat, out : BOOLEAN] /\ slot'.fd = slot.fd
  BY <1>1 DEF HandleEvents, HandleError, WriteHeader, NothingToWrite, WriteSome, WriteFails, Plain
<1>5. CASE /\ files' = files \/ (fd # 0 /\ files' = [files EXCEPT ![fd].header = Rate])
           /\ UNCHANGED <<fd, regen, pathTemplate, outputBuffer, byteCountdown>>
  <2>1. files' \in Seq(FileRecords) /\ Same(files, files')
    <3>1. CASE files' = files
      BY <1>1, <3>1 DEF Same, Plain
    <3>2. CASE fd # 0 /\ files' = [files EXCEPT ![fd].header = Rate]
      <4>1. fd \in 1..Len(files) /\ files \in Seq(FileRecords)
        BY <1>1, <3>2 DEF Plain
      <4>2. files[fd] \in FileRecords
        BY <4>1, ElementOfSeq
      <4> DEFINE r == [files[fd] EXCEPT !.header = Rate]
      <4>3. r \in FileRecords /\ r.data = files[fd].data /\ r.request = files[fd].request
            /\ r.stamp = files[fd].stamp
        BY <4>2 DEF FileRecords
      <4>4. files' = [files EXCEPT ![fd] = r]
        BY <3>2
      <4> HIDE DEF r
      <4>5. /\ files' \in Seq(FileRecords) /\ Len(files') = Len(files)
            /\ \A k \in 1..Len(files) : files'[k] = IF k = fd THEN r ELSE files[k]
        BY <4>1, <4>3, <4>4, ExceptSeq
      <4> QED
        BY <4>3, <4>5 DEF Same
    <3> QED
      BY <1>5, <3>1, <3>2
  <2>2. Len(files') = Len(files)
    BY <2>1 DEF Same
  <2> QED
    BY <1>1, <1>4, <1>5, <2>1, <2>2, KeptSame DEF Plain
<1>6. CASE /\ DoneOutputFile("rawFileDone", files)
           /\ UNCHANGED outputBuffer /\ byteCountdown' \in Int
  <2>1. /\ files' \in Seq(FileRecords) /\ Same(files, files')
        /\ fd' = 0 /\ regen' = TRUE /\ pathTemplate' \in Nat
    BY <1>1, <1>6, DoneIs DEF Plain
  <2> QED
    BY <1>1, <1>4, <1>6, <2>1, KeptSame DEF Plain
<1>7. CASE WriteSome
  <2> DEFINE written(nb) == [files EXCEPT ![fd].data = @ \o SubSeq(outputBuffer, 1, nb)]
  <2>1. PICK nb \in 1..Writable :
       /\ outputBuffer' = Erased(nb)
       /\ byteCountdown' = byteCountdown - nb
       /\ \/ DoneOutputFile("rawFileDone", written(nb))
          \/ files' = written(nb) /\ UNCHANGED <<fd, regen, pathTemplate>>
    BY <1>7 DEF WriteSome
  <2>2. nb \in 0..Len(outputBuffer) /\ nb \in Int /\ byteCountdown' \in Int /\ fd # 0
    <3>1. byteCountdown \in Int /\ Len(outputBuffer) \in Nat
      BY <1>1, LenProperties DEF Plain
    <3>2. Writable \in Int /\ Writable <= Len(outputBuffer)
      BY <3>1 DEF Writable, Lesser
    <3> QED
      BY <1>7, <2>1, <3>1, <3>2 DEF WriteSome
  <2> DEFINE fs == written(nb)
  <2>3. /\ fs \in Seq(FileRecords) /\ Len(fs) = Len(files)
        /\ outputBuffer' \in Seq(Nat) /\ Len(outputBuffer') = Len(outputBuffer) - nb
        /\ Kept(now, lost, outputBuffer, files) => Kept(now, lost, outputBuffer', fs)
    BY <1>1, <2>1, <2>2, WriteIs DEF Erased
  <2>4. \/ DoneOutputFile("rawFileDone", fs)
        \/ files' = fs /\ UNCHANGED <<fd, regen, pathTemplate>>
    BY <2>1, Zenon
  <2> HIDE DEF fs
  <2>5. Len(outputBuffer') <= Capacity
    BY <1>1, <2>2, <2>3 DEF Plain
  <2>6. CASE DoneOutputFile("rawFileDone", fs)
    <3>1. /\ files' \in Seq(FileRecords) /\ Same(fs, files')
          /\ fd' = 0 /\ regen' = TRUE /\ pathTemplate' \in Nat
      BY <1>1, <2>3, <2>6, DoneIs
    <3> QED
      BY <1>1, <1>4, <2>2, <2>3, <2>5, <3>1, KeptSame
  <2>7. CASE files' = fs /\ UNCHANGED <<fd, regen, pathTemplate>>
    BY <1>1, <1>4, <2>2, <2>3, <2>5, <2>7 DEF Plain
  <2> QED
    BY <2>4, <2>6, <2>7
<1>8. CASE HandleError
  <2>1. DoneOutputFile("rawFileDone", files) /\ UNCHANGED <<outputBuffer, byteCountdown>>
    BY <1>8 DEF HandleError, progress
  <2> QED
    BY <1>1, <1>6, <2>1 DEF Plain
<1>9. CASE WriteHeader
  <2>1. UNCHANGED outputBuffer /\ UNCHANGED byteCountdown /\ byteCountdown' \in Int
    BY <1>1, <1>9 DEF WriteHeader, Plain
  <2>2. CASE DoneOutputFile("rawFileDone", files)
    BY <1>6, <2>1, <2>2
  <2>3. CASE fd # 0 /\ files' = [files EXCEPT ![fd].header = Rate]
             /\ UNCHANGED <<fd, regen, pathTemplate>>
    BY <1>5, <2>1, <2>3
  <2> QED
    BY <1>9, <2>2, <2>3 DEF WriteHeader
<1>10. CASE WriteFails
  <2>1. DoneOutputFile("rawFileDone", files) /\ UNCHANGED outputBuffer
        /\ byteCountdown' = byteCountdown + 1
    BY <1>10 DEF WriteFails
  <2>2. byteCountdown \in Int
    BY <1>1 DEF Plain
  <2>3. byteCountdown' \in Int
    BY <2>1, <2>2
  <2> QED
    BY <1>6, <2>1, <2>3
<1>11. CASE NothingToWrite \/ UNCHANGED <<fd, files, regen, pathTemplate, outputBuffer, progress>>
  <2>1. /\ files' = files \/ (fd # 0 /\ files' = [files EXCEPT ![fd].header = Rate])
        /\ UNCHANGED <<fd, regen, pathTemplate, outputBuffer, byteCountdown>>
    <3>1. UNCHANGED <<fd, files, regen, pathTemplate, outputBuffer, progress>>
      BY <1>11 DEF NothingToWrite
    <3>2. files' = files
      BY <3>1
    <3>3. UNCHANGED <<fd, regen, pathTemplate, outputBuffer, byteCountdown>>
      BY <3>1 DEF progress
    <3> QED
      BY <3>2, <3>3
  <2> QED
    BY <1>5, <2>1
<1> QED
  BY <1>7, <1>8, <1>9, <1>10, <1>11 DEF HandleEvents

LEMMA ResumeInv ==
  ASSUME IInv, NEW order \in Orders, ResumeWithNewFile(order) PROVE IInv'
<1>1. Plain /\ SlotFollows /\ (Tell => Kept(now, lost, outputBuffer, files))
  BY DEF IInv
<1>2. /\ UNCHANGED <<now, outputBuffer, files, slot, lost, filename, currFileTimestamp,
                     regen, orderly, failing>>
      /\ fd' = 0 /\ pathTemplate' = requests + 1 /\ asked' = Append(asked, order)
      /\ timestampCaptured' = FALSE /\ byteCountdown' = FramesToWrite
      /\ ~orderly \/ pathTemplate = 0
  BY DEF ResumeWithNewFile, Restart
<1>3. asked' \in Seq(Orders) /\ requests' \in Nat
      /\ pathTemplate' \in Nat /\ fd' \in Nat /\ byteCountdown' \in Int
      /\ timestampCaptured' \in BOOLEAN
  <2>1. requests \in Nat /\ asked \in Seq(Orders)
    BY <1>1 DEF Plain
  <2>2. asked' \in Seq(Orders) /\ requests' = requests + 1 /\ pathTemplate' = requests + 1
    BY <1>2, <2>1, AppendProperties DEF requests
  <2>3. fd' = 0 /\ byteCountdown' = FramesToWrite /\ timestampCaptured' \in BOOLEAN
    BY <1>2
  <2> QED
    BY <2>1, <2>2, <2>3
<1>5. Plain'
  BY <1>1, <1>2, <1>3 DEF Plain
<1>4. SlotFollows'
  BY <1>1, <1>2 DEF SlotFollows, Plain
<1> QED
  BY <1>1, <1>2, <1>4, <1>5 DEF IInv

LEMMA Invariance == Spec => []IInv
<1>1. IInv /\ [Next]_vars => IInv'
  BY StillInv, QueueOutputInv, HandleEventsInv, ResumeInv DEF Next, Round, Data
<1> QED
  BY <1>1, InitInv, PTL DEF Spec

-----------------------------------------------------------------------------
(***************************************************************************)
(* An orderly client: the k-th request has the k-th file.                  *)
(***************************************************************************)
Waits ==
  orderly =>
    /\ pc \in {"device", "writer"} => ~regen
    /\ revents = "err" => failing
    /\ requests >= 1 /\ pathTemplate \in {0, requests}
    /\ fd # 0 => ensureDirsState = "NONE"
    /\ ensureDirsState # "NONE" => filename = pathTemplate /\ pathTemplate # 0
    /\ Len(files) = IF pathTemplate # 0 /\ fd = 0 THEN requests - 1 ELSE requests
    /\ \A k \in 1..Len(files) : files[k].request = k

(***************************************************************************)
(* The first buffer's worth of frames behind the time stamp: m frames have *)
(* been written, b is in the buffer, and n is the next frame.              *)
(***************************************************************************)
Unbroken(stamp, m, b, n) ==
  /\ \A j \in 1..Len(b) : m + j <= Capacity => b[j] = stamp + m + j
  /\ m + Len(b) < Capacity => n = stamp + m + Len(b) + 1

FollowsStamp(f) ==
  \A i \in 1..Len(f.data) : i <= Capacity => f.data[i] = f.stamp + i

FirstFile ==
  orderly =>
    /\ Len(files) > 0 => FollowsStamp(files[1])
    /\ requests = 1 /\ ~timestampCaptured =>
         outputBuffer = <<>> /\ ensureDirsState = "NONE" /\ pathTemplate # 0 /\ fd = 0
    /\ requests = 1 /\ timestampCaptured =>
         IF Len(files) = 0
         THEN ensureDirsState # "NONE" /\ Unbroken(currFileTimestamp, 0, outputBuffer, now)
         ELSE /\ files[1].stamp = currFileTimestamp
              /\ Unbroken(currFileTimestamp, Len(files[1].data), outputBuffer, now)

StampInv == IInv /\ Waits /\ FirstFile

LEMMA StampInit == Init => StampInv
<1> SUFFICES ASSUME Init PROVE StampInv
  OBVIOUS
<1>1. Len(<<>>) = 0
  OBVIOUS
<1>2. Waits
  <2>1. /\ pc = "last" /\ revents = "none" /\ pathTemplate = 1 /\ fd = 0
        /\ ensureDirsState = "NONE" /\ Len(files) = 0
    BY <1>1 DEF Init
  <2>2. asked = <<First>>
    BY DEF Init
  <2>3. requests = 1
    BY <2>2 DEF requests
  <2> QED
    BY <2>1, <2>3 DEF Waits
<1>3. FirstFile
  BY <1>1 DEF Init, FirstFile
<1> QED
  BY <1>2, <1>3, InitInv DEF StampInv

LEMMA StillStamp ==
  ASSUME StampInv,
         Poll \/ NoData \/ EnsureDirs \/ EnsureDirsLate \/ NoSlot \/ RawFileOff \/ EndRound
         \/ UNCHANGED vars
  PROVE  StampInv'
<1>1. UNCHANGED <<now, outputBuffer, fd, pathTemplate, filename, currFileTimestamp,
                  timestampCaptured, orderly, failing, requests, files>>
  BY DEF Poll, NoData, EnsureDirs, EnsureDirsLate, NoSlot, RawFileOff, EndRound, vars,
         naming, progress, history, requests
<1>2. ensureDirsState = "NONE" <=> ensureDirsState' = "NONE"
  BY DEF Poll, NoData, EnsureDirs, EnsureDirsLate, NoSlot, RawFileOff, EndRound, vars
<1>3. (revents = "err" => failing) => (revents' = "err" => failing)
  BY DEF Poll, NoData, EnsureDirs, EnsureDirsLate, NoSlot, RawFileOff, EndRound, vars
<1>4. (pc \in {"device", "writer"} => ~regen) => (pc' \in {"device", "writer"} => ~regen')
  BY DEF Poll, NoData, EnsureDirs, EnsureDirsLate, NoSlot, RawFileOff, EndRound, vars
<1>5. Waits'
  BY <1>1, <1>2, <1>3, <1>4 DEF StampInv, Waits
<1>6. FirstFile'
  BY <1>1, <1>2 DEF StampInv, FirstFile, FollowsStamp, Unbroken
<1>7. IInv'
  BY StillInv DEF StampInv
<1> QED
  BY <1>5, <1>6, <1>7 DEF StampInv

-----------------------------------------------------------------------------
\* The open file is given up as it is.
GivesUp ==
  /\ failing /\ DoneOutputFile("rawFileDone", files)
  /\ UNCHANGED outputBuffer

HeaderOnly ==
  /\ ~headerWritten /\ headerWritten' = TRUE
  /\ files' = [files EXCEPT ![fd].header = Rate]
  /\ UNCHANGED <<fd, regen, life, pathTemplate, outputBuffer, byteCountdown>>

\* The handler of an orderly client's writer works on the open file.
LEMMA HandlesOpen ==
  ASSUME StampInv, orderly, HandleEvents
  PROVE  /\ fd # 0 /\ fd = slot.fd /\ ~regen
         /\ \/ HeaderOnly \/ NothingToWrite \/ WriteSome \/ GivesUp
            \/ UNCHANGED <<fd, files, regen, pathTemplate, outputBuffer, progress>>
<1>1. slot.fd # 0 /\ pc = "writer"
  BY DEF HandleEvents
<1>2. ~regen /\ (revents = "err" => failing)
  BY <1>1 DEF StampInv, Waits
<1>3. slot.fd \in {0, fd}
  BY <1>2 DEF StampInv, IInv, SlotFollows
<1>4. HandleError \/ WriteFails => GivesUp
  BY <1>1, <1>2, <1>3 DEF HandleError, WriteFails, GivesUp
<1>5. WriteHeader => HeaderOnly \/ GivesUp
  BY <1>1, <1>3 DEF WriteHeader, HeaderOnly, GivesUp
<1> QED
  BY <1>1, <1>2, <1>3, <1>4, <1>5 DEF HandleEvents

LEMMA HandleStamp == ASSUME StampInv, HandleEvents PROVE StampInv'
<1>1. IInv'
  BY HandleEventsInv DEF StampInv
<1>2. UNCHANGED <<now, filename, currFileTimestamp, timestampCaptured, ensureDirsState,
                  orderly, requests>>
      /\ revents' = "none"
  BY DEF HandleEvents, requests
<1>3. CASE ~orderly
  BY <1>1, <1>2, <1>3 DEF StampInv, Waits, FirstFile
<1>4. CASE orderly
  <2>1. fd # 0 /\ Plain /\ Waits /\ FirstFile
    BY <1>4, HandlesOpen DEF StampInv, IInv
  <2>2. /\ fd = Len(files) /\ files \in Seq(FileRecords) /\ Len(files) \in Nat /\ Len(files) > 0
        /\ fd \in 1..Len(files) /\ 1 \in 1..Len(files)
        /\ Len(outputBuffer) \in Nat /\ outputBuffer \in Seq(Nat) /\ currFileTimestamp \in Int
        /\ requests \in Nat /\ now \in Nat
    <3>1. fd = Len(files) /\ files \in Seq(FileRecords) /\ fd \in Nat
          /\ outputBuffer \in Seq(Nat) /\ currFileTimestamp \in Int
          /\ requests \in Nat /\ now \in Nat
      BY <2>1 DEF Plain
    <3> QED
      BY <2>1, <3>1, LenProperties
  <2>3. /\ pathTemplate = requests /\ requests >= 1 /\ pathTemplate # 0 /\ Len(files) = requests
        /\ ensureDirsState = "NONE" /\ \A k \in 1..Len(files) : files[k].request = k
    BY <1>4, <2>1, <2>2 DEF Waits, StampInv, IInv, SlotFollows
  <2>4. pc' \in {"device", "writer"} => ~regen'
    BY DEF HandleEvents
  \* What has to be shown of the frames of the first file and of the buffer.
  <2>5. ASSUME Len(files') = Len(files),
               \A k \in 1..Len(files) : files'[k].request = files[k].request,
               files'[1].stamp = files[1].stamp,
               \/ fd' = fd /\ pathTemplate' = pathTemplate
               \/ fd' = 0 /\ pathTemplate' = 0,
               FollowsStamp(files'[1]),
               requests = 1 /\ timestampCaptured =>
                 Unbroken(currFileTimestamp, Len(files'[1].data), outputBuffer', now)
        PROVE  StampInv'
    <3>1. Waits'
      BY <1>2, <1>4, <2>2, <2>3, <2>4, <2>5 DEF Waits
    <3>2. FirstFile'
      BY <1>2, <1>4, <2>1, <2>2, <2>3, <2>5 DEF FirstFile
    <3> QED
      BY <1>1, <3>1, <3>2 DEF StampInv
  <2>6. /\ FollowsStamp(files[1])
        /\ requests = 1 /\ timestampCaptured =>
             Unbroken(currFileTimestamp, Len(files[1].data), outputBuffer, now)
        /\ requests = 1 => timestampCaptured /\ files[1].stamp = currFileTimestamp
    BY <1>4, <2>1, <2>2 DEF FirstFile
  <2>7. CASE HeaderOnly
    <3>1. fd # 0 /\ files' = [files EXCEPT ![fd].header = Rate]
          /\ UNCHANGED <<fd, pathTemplate, outputBuffer>>
      BY <1>4, <2>1, <2>7 DEF HeaderOnly
    <3>2. files[fd] \in FileRecords
      BY <2>2, ElementOfSeq
    <3>3. files' = [files EXCEPT ![fd] = [files[fd] EXCEPT !.header = Rate]]
      BY <3>1
    <3> DEFINE r == [files[fd] EXCEPT !.header = Rate]
    <3>4. r \in FileRecords /\ r.data = files[fd].data /\ r.request = files[fd].request
          /\ r.stamp = files[fd].stamp
      BY <3>2 DEF FileRecords
    <3>5. files' = [files EXCEPT ![fd] = r]
      BY <3>3
    <3> HIDE DEF r
    <3>6. Len(files') = Len(files)
          /\ \A k \in 1..Len(files) : files'[k] = IF k = fd THEN r ELSE files[k]
      BY <2>2, <3>4, <3>5, ExceptSeq
    <3>7. files'[1].data = files[1].data /\ files'[1].stamp = files[1].stamp
          /\ \A k \in 1..Len(files) : files'[k].request = files[k].request
      BY <2>2, <3>4, <3>6
    <3>8. FollowsStamp(files'[1])
      BY <2>6, <3>7 DEF FollowsStamp
    <3> QED
      BY <2>5, <2>6, <3>1, <3>6, <3>7, <3>8
  <2>8. CASE NothingToWrite \/ UNCHANGED <<fd, files, regen, pathTemplate, outputBuffer>>
    <3>1. UNCHANGED <<fd, files, pathTemplate, outputBuffer>>
      BY <2>8 DEF NothingToWrite
    <3> QED
      BY <2>5, <2>6, <3>1
  <2>9. CASE WriteSome
    <3> DEFINE written(nb) == [files EXCEPT ![fd].data = @ \o SubSeq(outputBuffer, 1, nb)]
    <3>1. PICK nb \in 1..Writable :
         /\ outputBuffer' = Erased(nb)
         /\ \/ DoneOutputFile("rawFileDone", written(nb))
            \/ files' = written(nb) /\ UNCHANGED <<fd, regen, pathTemplate>>
      BY <2>9 DEF WriteSome
    <3>2. nb \in 0..Len(outputBuffer)
      <4>1. byteCountdown \in Int /\ Len(outputBuffer) \in Nat
        BY <2>1, <2>2 DEF Plain
      <4>2. Writable \in Int /\ Writable <= Len(outputBuffer)
        BY <4>1 DEF Writable, Lesser
      <4> QED
        BY <3>1, <4>1, <4>2
    <3> DEFINE fs == written(nb)
               a == SubSeq(outputBuffer, 1, nb)
    <3>3. /\ fs \in Seq(FileRecords) /\ Len(fs) = Len(files)
          /\ \A k \in 1..Len(files) :
              /\ fs[k].data = IF k = fd THEN files[fd].data \o a ELSE files[k].data
              /\ fs[k].request = files[k].request /\ fs[k].stamp = files[k].stamp
      BY <2>1, <3>2, WriteIs
    <3>4. \/ DoneOutputFile("rawFileDone", fs)
          \/ files' = fs /\ UNCHANGED <<fd, regen, pathTemplate>>
      BY <3>1, Zenon
    <3>5. /\ Len(a) = nb /\ \A i \in 1..nb : a[i] = outputBuffer[i]
          /\ Len(outputBuffer') = Len(outputBuffer) - nb /\ a \in Seq(Nat)
          /\ \A i \in 1..(Len(outputBuffer) - nb) : outputBuffer'[i] = outputBuffer[nb + i]
      <4> DEFINE z == SubSeq(outputBuffer, nb + 1, Len(outputBuffer))
      <4>1. /\ a \in Seq(Nat) /\ Len(a) = nb /\ \A i \in 1..nb : a[i] = outputBuffer[i]
            /\ Len(z) = Len(outputBuffer) - nb
            /\ \A i \in 1..(Len(outputBuffer) - nb) : z[i] = outputBuffer[nb + i]
        BY <2>2, <3>2, CutAfter
      <4>2. outputBuffer' = z
        BY <3>1 DEF Erased
      <4> HIDE DEF z, a
      <4> QED
        BY <4>1, <4>2
    <3> HIDE DEF fs, a
    <3>6. /\ Same(fs, files')
          /\ \/ fd' = fd /\ pathTemplate' = pathTemplate
             \/ fd' = 0 /\ pathTemplate' = 0
      <4>1. CASE DoneOutputFile("rawFileDone", fs)
        <5>1. pathTemplate' = 0 /\ fd' = 0
          BY <4>1 DEF DoneOutputFile
        <5> QED
          BY <2>1, <3>3, <4>1, <5>1, DoneIs
      <4>2. CASE files' = fs /\ UNCHANGED <<fd, regen, pathTemplate>>
        BY <4>2 DEF Same
      <4> QED
        BY <3>4, <4>1, <4>2
    <3>7. /\ Len(files') = Len(files)
          /\ \A k \in 1..Len(files) : files'[k].request = files[k].request
          /\ files'[1].stamp = files[1].stamp
          /\ files'[1].data = IF 1 = fd THEN files[1].data \o a ELSE files[1].data
      BY <2>2, <3>3, <3>6 DEF Same
    <3>8. CASE fd # 1
      <4>1. files'[1].data = files[1].data /\ requests # 1
        BY <2>2, <2>3, <3>7, <3>8
      <4>2. FollowsStamp(files'[1])
        BY <2>6, <3>7, <4>1 DEF FollowsStamp
      <4> QED
        BY <2>5, <3>6, <3>7, <4>1, <4>2
    <3>9. CASE fd = 1
      <4> DEFINE d == files[1].data  e == files'[1].data
      <4>1. d \in Seq(Nat)
        <5>1. files[1] \in FileRecords
          BY <2>2, ElementOfSeq
        <5> QED
          BY <5>1 DEF FileRecords
      <4>2. e = d \o a /\ requests = 1
        BY <2>2, <2>3, <3>7, <3>9
      <4>3. /\ Len(d) \in Nat /\ Len(e) = Len(d) + nb
            /\ \A i \in 1..(Len(d) + nb) : e[i] = IF i <= Len(d) THEN d[i] ELSE a[i - Len(d)]
        <5>1. a \in Seq(Nat) /\ Len(a) = nb
          BY <3>5
        <5>2. Len(d) \in Nat
          BY <4>1, LenProperties
        <5>3. /\ Len(d \o a) = Len(d) + Len(a)
              /\ \A i \in 1..(Len(d) + Len(a)) :
                   (d \o a)[i] = IF i <= Len(d) THEN d[i] ELSE a[i - Len(d)]
          BY <4>1, <5>1, ConcatProperties
        <5> HIDE DEF d, e
        <5> QED
          BY <4>2, <5>1, <5>2, <5>3
      <4>4. /\ \A i \in 1..Len(d) : i <= Capacity => d[i] = currFileTimestamp + i
            /\ \A j \in 1..Len(outputBuffer) :
                 Len(d) + j <= Capacity => outputBuffer[j] = currFileTimestamp + Len(d) + j
            /\ Len(d) + Len(outputBuffer) < Capacity =>
                 now = currFileTimestamp + Len(d) + Len(outputBuffer) + 1
            /\ files'[1].stamp = currFileTimestamp
        BY <2>6, <3>7, <4>2 DEF FollowsStamp, Unbroken
      <4> HIDE DEF d, e
      <4>5. ASSUME NEW i \in 1..Len(e), i <= Capacity PROVE e[i] = currFileTimestamp + i
        <5>1. CASE i <= Len(d)
          BY <3>2, <4>3, <4>4, <4>5, <5>1
        <5>2. CASE i > Len(d)
          <6>1. i - Len(d) \in 1..nb /\ i - Len(d) \in 1..Len(outputBuffer)
                /\ Len(d) + (i - Len(d)) = i /\ i \in 1..(Len(d) + nb)
            BY <2>2, <3>2, <4>3, <5>2
          <6>2. e[i] = outputBuffer[i - Len(d)]
            BY <3>5, <4>3, <5>2, <6>1
          <6>3. outputBuffer[i - Len(d)] = currFileTimestamp + Len(d) + (i - Len(d))
            BY <4>4, <4>5, <6>1
          <6> QED
            BY <2>2, <4>3, <6>2, <6>3
        <5> QED
          BY <3>2, <4>3, <5>1, <5>2
      <4>6. ASSUME NEW j \in 1..Len(outputBuffer'), Len(e) + j <= Capacity
            PROVE  outputBuffer'[j] = currFileTimestamp + Len(e) + j
        <5>1. nb + j \in 1..Len(outputBuffer) /\ Len(d) + (nb + j) <= Capacity
              /\ j \in 1..(Len(outputBuffer) - nb)
          BY <2>2, <3>2, <3>5, <4>3, <4>6
        <5>2. outputBuffer'[j] = currFileTimestamp + Len(d) + (nb + j)
          BY <3>5, <4>4, <5>1
        <5> QED
          BY <2>2, <3>2, <4>3, <5>1, <5>2
      <4>7. Len(e) + Len(outputBuffer') < Capacity =>
              now = currFileTimestamp + Len(e) + Len(outputBuffer') + 1
        <5> SUFFICES ASSUME Len(e) + Len(outputBuffer') < Capacity
                     PROVE  now = currFileTimestamp + Len(e) + Len(outputBuffer') + 1
          OBVIOUS
        <5>1. /\ Len(e) = Len(d) + nb /\ Len(outputBuffer') = Len(outputBuffer) - nb
              /\ nb \in Nat /\ Len(d) \in Nat
          BY <2>2, <3>2, <3>5, <4>3
        <5>2. Len(e) + Len(outputBuffer') = Len(d) + Len(outputBuffer)
          BY <2>2, <5>1
        <5>3. now = currFileTimestamp + Len(d) + Len(outputBuffer) + 1
          BY <4>4, <5>2
        <5> QED
          BY <2>2, <5>1, <5>3
      <4>8. FollowsStamp(files'[1])
        BY <4>4, <4>5 DEF FollowsStamp, e
      <4>9. Unbroken(currFileTimestamp, Len(files'[1].data), outputBuffer', now)
        BY <4>6, <4>7 DEF Unbroken, e
      <4> QED
        BY <2>5, <3>6, <3>7, <4>8, <4>9
    <3> QED
      BY <3>8, <3>9
  <2>10. CASE GivesUp
    <3>1. Same(files, files') /\ fd' = 0 /\ pathTemplate' = 0 /\ UNCHANGED outputBuffer
      <4>1. DoneOutputFile("rawFileDone", files) /\ UNCHANGED outputBuffer
        BY <2>10 DEF GivesUp
      <4>2. pathTemplate' = 0
        BY <4>1 DEF DoneOutputFile
      <4> QED
        BY <2>1, <2>2, <4>1, <4>2, DoneIs
    <3>2. /\ Len(files') = Len(files) /\ files'[1].data = files[1].data
          /\ files'[1].stamp = files[1].stamp
          /\ \A k \in 1..Len(files) : files'[k].request = files[k].request
      BY <2>2, <3>1 DEF Same
    <3>3. FollowsStamp(files'[1])
      BY <2>6, <3>2 DEF FollowsStamp
    <3> QED
      BY <2>5, <2>6, <3>1, <3>2, <3>3
  <2> QED
    BY <1>4, <2>7, <2>8, <2>9, <2>10, HandlesOpen
<1> QED
  BY <1>3, <1>4

-----------------------------------------------------------------------------
(***************************************************************************)
(* Frames a delivery puts into the buffer: all that fit, behind the others.*)
(***************************************************************************)
LEMMA QueueFrames ==
  ASSUME Plain, Tell, NEW n \in 1..MaxChunk, QueueOutput(n)
  PROVE  LET a == Accepted(n) IN
         /\ a \in 0..n /\ now' = now + n
         /\ Len(outputBuffer) + a <= Capacity =>
              /\ Len(outputBuffer') = Len(outputBuffer) + a
              /\ \A i \in 1..Len(outputBuffer) : outputBuffer'[i] = outputBuffer[i]
              /\ \A i \in 1..a : outputBuffer'[Len(outputBuffer) + i] = now + i - 1
         /\ \/ /\ a = 0
               /\ UNCHANGED <<naming, ensureDirsState, fd, files, regen>>
            \/ /\ a > 0
               /\ \/ /\ fd = 0
                     /\ \/ \E s : s = (now + a - 1) - Len(outputBuffer') /\ NameFile(s)
                        \/ OpenFile
                  \/ OpenNothing
<1> DEFINE a == Accepted(n)
           new == [i \in 1..a |-> now + i - 1]
           all == outputBuffer \o new
<1>1. /\ n \in Nat \ {0} /\ Len(outputBuffer) \in Nat /\ outputBuffer \in Seq(Nat)
      /\ now \in Nat /\ Len(outputBuffer) <= Capacity
  BY LenProperties DEF Plain
<1>2. a \in 0..n
  BY <1>1 DEF Accepted, Lesser
<1>3. now' = now + n
  BY DEF QueueOutput
<1>4. new = [i \in 1..a |-> IF Tell THEN now + i - 1 ELSE 0]
  OBVIOUS
<1>5. \/ /\ a = 0 /\ outputBuffer' = outputBuffer
         /\ UNCHANGED <<naming, ensureDirsState, fd, files, regen>>
      \/ /\ a > 0 /\ outputBuffer' = Inserted(new)
         /\ \/ /\ fd = 0
               /\ NameFile(CaptureStamp(now + a - 1, Len(Inserted(new)))) \/ OpenFile
            \/ OpenNothing
  BY <1>2, <1>4 DEF QueueOutput
<1>6. /\ new \in Seq(Nat) /\ Len(new) = a /\ \A i \in 1..a : new[i] = now + i - 1
  <2> HIDE DEF a
  <2>1. a \in Nat
    BY <1>2
  <2>2. new \in [1..a -> Nat]
    BY <1>1, <2>1
  <2> QED
    BY <2>1, <2>2
<1> HIDE DEF a, new
<1>7. /\ all \in Seq(Nat) /\ Len(all) = Len(outputBuffer) + a
      /\ \A i \in 1..(Len(outputBuffer) + a) :
           all[i] = IF i <= Len(outputBuffer) THEN outputBuffer[i]
                                              ELSE new[i - Len(outputBuffer)]
  BY <1>1, <1>6, ConcatProperties
<1>8. ASSUME Len(outputBuffer) + a <= Capacity
      PROVE  /\ Len(Inserted(new)) = Len(outputBuffer) + a
             /\ \A i \in 1..Len(outputBuffer) : Inserted(new)[i] = outputBuffer[i]
             /\ \A i \in 1..a : Inserted(new)[Len(outputBuffer) + i] = now + i - 1
  <2>1. Inserted(new) = SubSeq(all, 1, Len(all))
    <3>1. ~(Len(all) > Capacity)
      BY <1>1, <1>2, <1>7, <1>8
    <3> QED
      BY <3>1 DEF Inserted
  <2> HIDE DEF all
  <2>2. /\ Len(Inserted(new)) = Len(all)
        /\ \A i \in 1..Len(all) : Inserted(new)[i] = all[i]
    <3>1. Len(all) \in 0..Len(all)
      BY <1>1, <1>2, <1>7
    <3> QED
      BY <1>7, <2>1, <3>1, CutAfter
  <2>3. ASSUME NEW i \in 1..Len(outputBuffer) PROVE Inserted(new)[i] = outputBuffer[i]
    <3>1. i \in 1..(Len(outputBuffer) + a) /\ i <= Len(outputBuffer)
      BY <1>1, <1>2
    <3> QED
      BY <1>7, <2>2, <3>1
  <2>4. ASSUME NEW i \in 1..a PROVE Inserted(new)[Len(outputBuffer) + i] = now + i - 1
    <3>1. /\ Len(outputBuffer) + i \in 1..(Len(outputBuffer) + a)
          /\ ~(Len(outputBuffer) + i <= Len(outputBuffer))
          /\ (Len(outputBuffer) + i) - Len(outputBuffer) = i
      BY <1>1, <1>2
    <3> QED
      BY <1>6, <1>7, <2>2, <3>1
  <2> QED
    BY <1>7, <2>2, <2>3, <2>4
<1>9. CASE a = 0 /\ outputBuffer' = outputBuffer
           /\ UNCHANGED <<naming, ensureDirsState, fd, files, regen>>
  BY <1>1, <1>2, <1>3, <1>9 DEF a
<1>10. CASE /\ a > 0 /\ outputBuffer' = Inserted(new)
            /\ \/ /\ fd = 0
                  /\ NameFile(CaptureStamp(now + a - 1, Len(Inserted(new)))) \/ OpenFile
               \/ OpenNothing
  <2> DEFINE s == CaptureStamp(now + a - 1, Len(Inserted(new)))
  <2>1. s = (now + a - 1) - Len(outputBuffer')
    <3>1. \A x, y : CaptureStamp(x, y) = x - y
      BY DEF CaptureStamp
    <3>2. outputBuffer' = Inserted(new)
      BY <1>10
    <3>3. s = (now + a - 1) - Len(Inserted(new))
      BY <3>1
    <3> QED
      BY <3>2, <3>3
  <2>2. (fd = 0 /\ (NameFile(s) \/ OpenFile)) \/ OpenNothing
    BY <1>10
  <2> HIDE DEF s
  <2>3. \/ /\ fd = 0
           /\ \/ \E x : x = (now + a - 1) - Len(outputBuffer') /\ NameFile(x)
              \/ OpenFile
        \/ OpenNothing
    BY <2>1, <2>2
  <2> QED
    BY <1>2, <1>3, <1>8, <1>10, <2>3 DEF a
<1> QED
  BY <1>5, <1>9, <1>10

LEMMA QueueStamp ==
  ASSUME Tell, StampInv, NEW n \in 1..MaxChunk, QueueOutput(n) PROVE StampInv'
<1>1. IInv'
  BY QueueOutputInv DEF StampInv
<1>2. UNCHANGED <<requests, orderly, failing, revents>>
  BY DEF QueueOutput, requests
<1>3. CASE ~orderly
  BY <1>1, <1>2, <1>3 DEF StampInv, Waits, FirstFile
<1>4. CASE orderly
  <2> DEFINE a == Accepted(n)  b == outputBuffer  T == currFileTimestamp
  <2>1. Plain /\ Waits /\ FirstFile /\ SlotFollows
    BY <1>4 DEF StampInv, IInv
  <2>2. /\ a \in 0..n /\ now' = now + n
        /\ Len(b) + a <= Capacity =>
              /\ Len(b') = Len(b) + a
              /\ \A i \in 1..Len(b) : b'[i] = b[i]
              /\ \A i \in 1..a : b'[Len(b) + i] = now + i - 1
        /\ \/ /\ a = 0
              /\ UNCHANGED <<naming, ensureDirsState, fd, files, regen>>
           \/ /\ a > 0
              /\ \/ /\ fd = 0
                    /\ \/ \E s : s = (now + a - 1) - Len(b') /\ NameFile(s)
                       \/ OpenFile
                 \/ OpenNothing
    BY <2>1, QueueFrames
  <2>3. /\ n \in Nat \ {0} /\ n <= Capacity /\ Len(b) \in Nat /\ b \in Seq(Nat)
        /\ now \in Nat /\ Len(b) <= Capacity /\ Len(files) \in Nat /\ files \in Seq(FileRecords)
        /\ requests \in Nat /\ T \in Int
    BY <2>1, LenProperties DEF Plain
  <2>4. a = IF timestampCaptured THEN Lesser(Capacity - Len(b), n) ELSE n
    BY DEF Accepted
  <2> HIDE DEF a
  <2>5. pc' \in {"device", "writer"} => ~regen'
    BY DEF QueueOutput
  <2>6. requests >= 1 /\ pathTemplate \in {0, requests}
        /\ (fd # 0 => ensureDirsState = "NONE")
        /\ (ensureDirsState # "NONE" => filename = pathTemplate /\ pathTemplate # 0)
        /\ Len(files) = (IF pathTemplate # 0 /\ fd = 0 THEN requests - 1 ELSE requests)
        /\ (\A k \in 1..Len(files) : files[k].request = k)
        /\ (pathTemplate = 0 => fd = 0) /\ (revents = "err" => failing)
    BY <1>4, <2>1 DEF Waits, SlotFollows
  \* As long as the file has its name: no gap before the buffer has been full.
  <2>7. ASSUME timestampCaptured, NEW m \in Nat, Unbroken(T, m, b, now)
        PROVE  Unbroken(T, m, b', now')
    <3>1. Len(b) + a <= Capacity /\ (a = n \/ Len(b) + a = Capacity)
      BY <2>2, <2>3, <2>4, <2>7 DEF Lesser
    <3>2. /\ Len(b') = Len(b) + a
          /\ \A i \in 1..Len(b) : b'[i] = b[i]
          /\ \A i \in 1..a : b'[Len(b) + i] = now + i - 1
      BY <2>2, <3>1
    <3> HIDE DEF b, T
    <3>3. ASSUME NEW j \in 1..Len(b'), m + j <= Capacity PROVE b'[j] = T + m + j
      <4>1. CASE j <= Len(b)
        BY <2>3, <2>7, <3>2, <3>3, <4>1 DEF Unbroken
      <4>2. CASE j > Len(b)
        <5>1. j - Len(b) \in 1..a /\ Len(b) + (j - Len(b)) = j /\ m + Len(b) < Capacity
          BY <2>2, <2>3, <2>7, <3>2, <3>3, <4>2
        <5>2. b'[j] = now + (j - Len(b)) - 1
          BY <3>2, <5>1
        <5>3. now = T + m + Len(b) + 1
          BY <2>7, <5>1 DEF Unbroken
        <5> QED
          BY <2>3, <2>7, <5>2, <5>3
      <4> QED
        BY <2>2, <2>3, <3>2, <4>1, <4>2
    <3>4. ASSUME m + Len(b') < Capacity PROVE now' = T + m + Len(b') + 1
      <4>1. a = n /\ m + Len(b) < Capacity
        BY <2>2, <2>3, <2>7, <3>1, <3>2, <3>4
      <4>2. now = T + m + Len(b) + 1
        BY <2>7, <4>1 DEF Unbroken
      <4> QED
        BY <2>2, <2>3, <2>7, <3>2, <4>1, <4>2
    <3> QED
      BY <3>3, <3>4 DEF Unbroken
  <2>8. CASE /\ UNCHANGED <<naming, ensureDirsState, fd, files>>
             /\ timestampCaptured \/ requests # 1
    <3>1. UNCHANGED <<pathTemplate, filename, currFileTimestamp, timestampCaptured,
                      ensureDirsState, fd, files>>
      BY <2>8 DEF naming
    <3>2. Waits'
      BY <1>2, <1>4, <2>1, <2>5, <3>1 DEF Waits
    <3>3. FirstFile'
      <4>1. CASE requests # 1
        BY <1>2, <1>4, <2>1, <3>1, <4>1 DEF FirstFile, FollowsStamp
      <4>2. CASE requests = 1 /\ Len(files) = 0
        <5>1. Unbroken(T, 0, b', now')
          BY <1>4, <2>1, <2>7, <2>8, <4>2 DEF FirstFile
        <5> QED
          BY <1>2, <1>4, <2>1, <2>8, <3>1, <4>2, <5>1 DEF FirstFile
      <4>3. CASE requests = 1 /\ Len(files) # 0
        <5>1. Len(files[1].data) \in Nat
          <6>1. files[1] \in FileRecords
            BY <2>3, <4>3, ElementOfSeq
          <6>2. files[1].data \in Seq(Nat)
            BY <6>1 DEF FileRecords
          <6> QED
            BY <6>2, LenProperties
        <5>2. Unbroken(T, Len(files[1].data), b', now')
          BY <1>4, <2>1, <2>7, <2>8, <4>3, <5>1 DEF FirstFile
        <5> QED
          BY <1>2, <1>4, <2>1, <2>3, <2>8, <3>1, <4>3, <5>2 DEF FirstFile, FollowsStamp
      <4> QED
        BY <4>1, <4>2, <4>3
    <3> QED
      BY <1>1, <3>2, <3>3 DEF StampInv
  <2>9. CASE a > 0 /\ fd = 0 /\ \E s : s = (now + a - 1) - Len(b') /\ NameFile(s)
    <3>1. /\ currFileTimestamp' = (now + a - 1) - Len(b') /\ timestampCaptured' = TRUE
          /\ filename' = pathTemplate /\ ensureDirsState' = "WAITING" /\ pathTemplate # 0
          /\ ensureDirsState = "NONE"
          /\ UNCHANGED <<pathTemplate, fd, files>>
      BY <2>9 DEF NameFile
    <3>2. Waits'
      BY <1>2, <1>4, <2>5, <2>6, <2>9, <3>1 DEF Waits
    <3>3. FirstFile'
      <4>1. CASE requests # 1
        BY <1>2, <1>4, <2>1, <3>1, <4>1 DEF FirstFile, FollowsStamp
      <4>2. CASE requests = 1
        <5>1. Len(files) = 0
          BY <2>3, <2>6, <2>9, <3>1, <4>2
        <5>2. Unbroken(currFileTimestamp', 0, b', now')
          <6>1. ~timestampCaptured /\ b = <<>>
            BY <1>4, <2>1, <3>1, <4>2, <5>1 DEF FirstFile
          <6>2. Len(b) = 0
            BY <6>1
          <6>3. a = n /\ n \in Nat
            BY <2>3, <2>4, <6>1
          <6>4. /\ Len(b') = n /\ \A i \in 1..n : b'[i] = now + i - 1
                /\ currFileTimestamp' = now - 1
            <7>1. Len(b) + a <= Capacity
              BY <2>3, <6>2, <6>3
            <7>2. /\ Len(b') = Len(b) + a
                  /\ \A i \in 1..a : b'[Len(b) + i] = now + i - 1
              BY <2>2, <7>1
            <7> HIDE DEF b
            <7>3. Len(b') = n /\ \A i \in 1..n : b'[i] = now + i - 1
              BY <6>2, <6>3, <7>2
            <7> QED
              BY <2>3, <3>1, <6>3, <7>3
          <6> HIDE DEF b
          <6> QED
            BY <2>2, <2>3, <6>3, <6>4 DEF Unbroken
        <5> QED
          BY <1>2, <1>4, <3>1, <4>2, <5>1, <5>2 DEF FirstFile
      <4> QED
        BY <4>1, <4>2
    <3> QED
      BY <1>1, <3>2, <3>3 DEF StampInv
  <2>10. CASE /\ a > 0 /\ fd = 0 /\ OpenFile
              /\ ~DoneOutputFile("rawFileError", files)
    <3>1. /\ pathTemplate # 0 /\ ensureDirsState = "CREATED"
          /\ fd' = Len(files) + 1 /\ files' = Append(files, NewFile)
          /\ ensureDirsState' = "NONE"
          /\ UNCHANGED <<pathTemplate, currFileTimestamp, timestampCaptured, filename>>
      BY <1>4, <2>10 DEF OpenFile, DirsAfterOpen
    <3>2. /\ pathTemplate = requests /\ filename = requests /\ Len(files) = requests - 1
      BY <2>6, <2>10, <3>1
    <3>3. /\ Len(files') = requests
          /\ \A k \in 1..Len(files) : files'[k] = files[k]
          /\ files'[requests] = NewFile
      <4>1. /\ Len(files') = Len(files) + 1
            /\ \A k \in 1..Len(files) : files'[k] = files[k]
            /\ files'[Len(files) + 1] = NewFile
        <5>1. files \in Seq(FileRecords) /\ NewFile \in FileRecords
          BY <2>1, <2>3, NewFileIs
        <5> QED
          BY <3>1, <5>1, AppendProperties
      <4>2. Len(files) + 1 = requests
        BY <2>3, <3>2
      <4> QED
        BY <4>1, <4>2
    <3>4. /\ NewFile.request = requests /\ NewFile.stamp = T /\ NewFile.data = <<>>
      BY <3>2 DEF NewFile
    <3>5. \A k \in 1..Len(files') : files'[k].request = k
      <4>1. \A k \in 1..Len(files') : k \in 1..Len(files) \/ k = requests
        BY <2>3, <3>2, <3>3
      <4> QED
        BY <2>6, <3>3, <3>4, <4>1
    <3>6. Waits'
      <4>1. fd' = requests /\ fd' # 0
        BY <2>3, <2>6, <3>1, <3>2
      <4> QED
        BY <1>2, <2>5, <2>6, <3>1, <3>2, <3>3, <3>5, <4>1 DEF Waits
    <3>7. FirstFile'
      <4>1. CASE requests # 1
        <5>1. 1 \in 1..Len(files) /\ Len(files) > 0
          BY <2>3, <2>6, <3>2, <4>1
        <5>2. files'[1] = files[1] /\ FollowsStamp(files[1])
          BY <1>4, <2>1, <3>3, <5>1 DEF FirstFile
        <5> QED
          BY <1>2, <4>1, <5>2 DEF FirstFile, FollowsStamp
      <4>2. CASE requests = 1
        <5>1. Len(files) = 0 /\ files'[1] = NewFile /\ Len(files') = 1
          BY <3>2, <3>3, <4>2
        <5>2. timestampCaptured /\ Unbroken(T, 0, b, now)
          BY <1>4, <2>1, <3>1, <4>2, <5>1 DEF FirstFile
        <5>3. Unbroken(T, 0, b', now')
          BY <2>7, <5>2
        <5>4. Len(<<>>) = 0 /\ Len(files'[1].data) = 0 /\ files'[1].stamp = T
          BY <3>4, <5>1
        <5>5. FollowsStamp(files'[1])
          BY <3>4, <5>1, <5>4 DEF FollowsStamp
        <5> QED
          BY <1>2, <1>4, <3>1, <4>2, <5>1, <5>2, <5>3, <5>4, <5>5 DEF FirstFile
      <4> QED
        BY <4>1, <4>2
    <3> QED
      BY <1>1, <3>6, <3>7 DEF StampInv
  \* Without a time stamp the first delivery names the file.
  <2>11. ASSUME requests = 1, ~timestampCaptured
         PROVE  a > 0 /\ fd = 0 /\ \E s : s = (now + a - 1) - Len(b') /\ NameFile(s)
    <3>1. ensureDirsState = "NONE" /\ pathTemplate # 0 /\ fd = 0
      BY <1>4, <2>1, <2>11 DEF FirstFile
    <3>2. a > 0 /\ ~OpenFile /\ ~OpenNothing
      BY <2>3, <2>4, <2>11, <3>1 DEF OpenFile, OpenNothing
    <3>3. ~(a = 0)
      BY <2>2, <2>3, <3>2
    <3> QED
      BY <2>2, <3>1, <3>2, <3>3
  <2>12. \/ UNCHANGED <<naming, ensureDirsState, fd, files>>
         \/ a > 0 /\ fd = 0 /\ \E s : s = (now + a - 1) - Len(b') /\ NameFile(s)
         \/ a > 0 /\ fd = 0 /\ OpenFile /\ ~DoneOutputFile("rawFileError", files)
    <3>1. OpenNothing => UNCHANGED <<naming, ensureDirsState, fd, files>>
      BY DEF OpenNothing
    <3>2. CASE fd = 0 /\ OpenFile /\ DoneOutputFile("rawFileError", files)
      <4>1. ensureDirsState = "CREATED" /\ DirsAfterOpen # ensureDirsState
        BY <3>2 DEF OpenFile, DirsAfterOpen
      <4>2. files' # Append(files, NewFile) \/ ensureDirsState' # "NONE" \/ fd' # Len(files) + 1
        BY <2>3, <3>2 DEF DoneOutputFile
      <4>3. UNCHANGED <<naming, ensureDirsState, fd, files>>
        BY <3>2, <4>2 DEF OpenFile, DoneOutputFile, DirsAfterOpen, naming
      <4> QED
        BY <4>3
    <3> QED
      BY <2>2, <3>1, <3>2
  <2>13. timestampCaptured \in BOOLEAN
    BY <2>1 DEF Plain
  <2> QED
    BY <2>8, <2>9, <2>10, <2>11, <2>12, <2>13
<1> QED
  BY <1>3, <1>4

LEMMA ResumeStamp ==
  ASSUME StampInv, NEW order \in Orders, ResumeWithNewFile(order) PROVE StampInv'
<1>1. IInv'
  BY ResumeInv DEF StampInv
<1>2. /\ UNCHANGED <<outputBuffer, files, filename, ensureDirsState, regen, revents, pc,
                     orderly, failing>>
      /\ fd' = 0 /\ pathTemplate' = requests + 1 /\ requests' = requests + 1
      /\ timestampCaptured' = FALSE
      /\ ~orderly \/ pathTemplate = 0
  <2>1. asked' = Append(asked, order) /\ asked \in Seq(Orders)
    BY DEF ResumeWithNewFile, StampInv, IInv, Plain
  <2> QED
    BY <2>1, AppendProperties DEF ResumeWithNewFile, requests
<1>3. CASE ~orderly
  BY <1>1, <1>2, <1>3 DEF StampInv, Waits, FirstFile
<1>4. CASE orderly
  <2>1. requests \in Nat /\ Waits /\ FirstFile /\ pathTemplate = 0
    BY <1>2, <1>4 DEF StampInv, IInv, Plain
  <2>2. /\ requests' \in Nat /\ requests' >= 2 /\ requests' # 1 /\ pathTemplate' = requests'
        /\ pathTemplate' # 0 /\ requests' - 1 = requests
    BY <1>2, <1>4, <2>1 DEF Waits
  <2>3. Len(files) = requests /\ ensureDirsState = "NONE"
    BY <1>4, <2>1 DEF Waits
  <2>4. Waits'
    BY <1>2, <1>4, <2>1, <2>2, <2>3 DEF Waits
  <2>5. FirstFile'
    BY <1>2, <1>4, <2>1, <2>2 DEF FirstFile, FollowsStamp
  <2> QED
    BY <1>1, <2>4, <2>5 DEF StampInv
<1> QED
  BY <1>3, <1>4

LEMMA StampInvariance == ASSUME Tell PROVE Spec => []StampInv
<1>1. StampInv /\ [Next]_vars => StampInv'
  BY StillStamp, QueueStamp, HandleStamp, ResumeStamp DEF Next, Round, Data
<1> QED
  BY <1>1, StampInit, PTL DEF Spec

-----------------------------------------------------------------------------
(***************************************************************************)
(* Every frame the device delivers is in one file, in the buffer, or known *)
(* to be lost, and the order of the frames is the order of the files:      *)
(* queueOutput, handleEvents and doneOutputFile neither write a frame      *)
(* twice nor drop one unnoticed, whatever commands come and whatever fails *)
(* (WavFileWriter.cpp:49-186).                                             *)
(***************************************************************************)
THEOREM NoFrameAstray == Tell => (Spec => []FramesKept)
<1>1. ASSUME Tell, IInv PROVE FramesKept
  <2>1. Kept(now, lost, outputBuffer, files) /\ files \in Seq(FileRecords)
    BY <1>1 DEF IInv, Plain
  <2>2. Files = 1..Len(files)
    BY <2>1 DEF Files
  <2>3. Written = Recorded(files)
    BY <2>2 DEF Written, Recorded
  <2> QED
    BY <2>1, <2>2, <2>3 DEF FramesKept, Kept
<1>2. ASSUME Tell PROVE Spec => []FramesKept
  <2>1. IInv => FramesKept
    BY <1>1, <1>2
  <2> QED
    BY <2>1, Invariance, PTL
<1> QED
  BY <1>2

(***************************************************************************)
(* poll(2) never watches a descriptor the writer has closed, as long as    *)
(* the client waits for the end of a file: doneOutputFile and              *)
(* openOutputFile ask for new slots, and no round begins without them      *)
(* (WavFileWriter.cpp:118 and 146).                                        *)
(***************************************************************************)
THEOREM SlotIsCurrent == Spec => []SlotCurrent
<1>1. IInv => SlotCurrent
  BY DEF IInv, SlotFollows, SlotCurrent
<1> QED
  BY <1>1, Invariance, PTL

(***************************************************************************)
(* The first file of a client that waits begins where its name says, and a *)
(* buffer's worth of frames follows without a gap, however long the        *)
(* directories take (WavFileWriter.hpp:33-35, WavFileWriter.cpp:49-67).    *)
(***************************************************************************)
THEOREM FirstStampHolds == Tell => (Spec => []FirstFileStamped)
<1>1. ASSUME StampInv, orderly, NEW k \in Files, files[k].request = 1 PROVE StampsClose(k)
  <2>1. files \in Seq(FileRecords) /\ Files = 1..Len(files) /\ Len(files) \in Nat
    <3>1. files \in Seq(FileRecords)
      BY <1>1 DEF StampInv, IInv, Plain
    <3> QED
      BY <3>1, LenProperties DEF Files
  <2>2. k = 1 /\ Len(files) > 0
    BY <1>1, <2>1 DEF StampInv, Waits
  <2>3. FollowsStamp(files[k])
    BY <1>1, <2>2 DEF StampInv, FirstFile
  <2>4. files[k].data \in Seq(Nat) /\ files[k].stamp \in Int
    <3>1. files[k] \in FileRecords
      BY <1>1, <2>1, ElementOfSeq
    <3> QED
      BY <3>1 DEF FileRecords
  <2> DEFINE d == files[k].data  s == files[k].stamp
  <2>5. Len(d) \in Nat /\ \A i \in 1..Len(d) : i <= Capacity => d[i] = s + i
    BY <2>3, <2>4, LenProperties DEF FollowsStamp
  <2>6. s \in Int /\ d \in Seq(Nat)
    BY <2>4
  <2> HIDE DEF d, s
  <2>7. ASSUME d # <<>>
        PROVE  /\ s \in (d[1] - 1)..d[1]
               /\ \A i \in 1..Lesser(Len(d), Capacity) : d[i] = d[1] + i - 1
    <3>1. Len(d) > 0
      BY <2>5, <2>6, <2>7, EmptySeq
    <3>2. d[1] = s + 1
      BY <2>5, <3>1
    <3>3. \A i \in 1..Lesser(Len(d), Capacity) : i \in 1..Len(d) /\ i <= Capacity
      BY <2>5 DEF Lesser
    <3>4. \A i \in 1..Lesser(Len(d), Capacity) : d[i] = s + i /\ i \in Int
      BY <2>5, <3>3
    <3> QED
      BY <2>6, <3>2, <3>4
  <2> QED
    BY <2>7 DEF StampsClose, d, s
<1>2. StampInv => FirstFileStamped
  BY <1>1 DEF FirstFileStamped
<1>3. ASSUME Tell PROVE Spec => []FirstFileStamped
  BY <1>2, <1>3, StampInvariance, PTL
<1> QED
  BY <1>3

-----------------------------------------------------------------------------
(***************************************************************************)
(* What the writer of an orderly client remembers of the open file, and    *)
(* what has been reported of the others.                                   *)
(***************************************************************************)
Progress ==
  /\ now <= MaxTime + 1
  /\ orderly =>
       /\ asked[1] = First
       /\ \A k \in 1..Len(files) : files[k].reported = IF k = fd THEN "no" ELSE "rawFileDone"
       /\ fd # 0 => /\ headerWritten <=> files[fd].header # 0
                    /\ byteCountdown = FramesToWrite - Len(files[fd].data)
                    /\ byteCountdown > 0
       /\ fd = 0 /\ pathTemplate # 0 => headerWritten = FALSE /\ byteCountdown = FramesToWrite

RecorderInv == StampInv /\ Progress

RecordingSet == [header : Nat, data : Seq(Nat)]

Hearers == Receivers \cup {Nobody}

\* The promise in terms of an orderly client's writer.
Promised ==
  /\ Asked = asked /\ asked \in Seq(Orders) /\ requests = Len(asked) /\ requests \in Nat
  /\ asked[1] = First
  /\ Recordings \in Seq(RecordingSet) /\ Len(Recordings) = Len(files)
  /\ \A k \in 1..Len(files) : /\ Recordings[k].header = files[k].header
                              /\ Recordings[k].data = files[k].data
                              /\ files[k] \in FileRecords
  /\ Reported = IF fd = 0 THEN Len(files) ELSE Len(files) - 1
  /\ Reported \in 0..Len(files) /\ Told \in Seq(Hearers) /\ Len(Told) = Reported
  /\ \A k \in 1..Reported : Told[k] = files[k].told
  /\ Len(files) \in Nat /\ fd \in 0..Len(files) /\ (fd # 0 => fd = Len(files))

LEMMA PromiseOf == RecorderInv /\ orderly => Promised
<1> SUFFICES ASSUME RecorderInv, orderly PROVE Promised
  OBVIOUS
<1>1. /\ files \in Seq(FileRecords) /\ Len(files) \in Nat /\ fd \in Nat
      /\ (fd # 0 => fd = Len(files)) /\ Files = 1..Len(files)
      /\ \A k \in 1..Len(files) : files[k] \in FileRecords
  <2>1. files \in Seq(FileRecords) /\ fd \in Nat /\ (fd # 0 => fd = Len(files))
    BY DEF RecorderInv, StampInv, IInv, Plain
  <2> QED
    BY <2>1, LenProperties, ElementOfSeq DEF Files
<1>2. /\ Recordings \in [1..Len(files) -> RecordingSet]
      /\ \A k \in 1..Len(files) : /\ Recordings[k].header = files[k].header
                                  /\ Recordings[k].data = files[k].data
  BY <1>1 DEF Recordings, RecordingSet, FileRecords
<1>3. Recordings \in Seq(RecordingSet) /\ Len(Recordings) = Len(files)
  BY <1>1, <1>2
<1>4. Reported = IF fd = 0 THEN Len(files) ELSE Len(files) - 1
  <2> DEFINE n == IF fd = 0 THEN Len(files) ELSE Len(files) - 1
  <2>1. n \in Nat
    BY <1>1
  <2>2. \A k \in 1..Len(files) : files[k].reported = "rawFileDone" <=> k # fd
    BY DEF RecorderInv, Progress
  <2>3. {k \in Files : files[k].reported = "rawFileDone"} = {k \in 1..Len(files) : k # fd}
    BY <1>1, <2>2
  <2>4. {k \in 1..Len(files) : k # fd} = 1..n
    BY <1>1
  <2>5. Cardinality(1..n) = n
    <3>1. n - 1 + 1 = n /\ 1 <= n + 1
      BY <2>1
    <3> HIDE DEF n
    <3>2. IF 1 > n THEN Cardinality(1..n) = 0 ELSE Cardinality(1..n) = n - 1 + 1
      BY <2>1, FS_Interval
    <3> QED
      BY <2>1, <3>1, <3>2
  <2> QED
    BY <2>3, <2>4, <2>5 DEF Reported
<1>5. fd \in 0..Len(files) /\ Asked = asked /\ requests = Len(asked) /\ asked[1] = First
      /\ asked \in Seq(Orders) /\ requests \in Nat
  BY <1>1 DEF Asked, requests, RecorderInv, Progress, StampInv, IInv, Plain
<1>6. Reported \in 0..Len(files)
  BY <1>1, <1>4
<1>7. /\ Told \in Seq(Hearers) /\ Len(Told) = Reported
      /\ \A k \in 1..Reported : Told[k] = files[k].told
  <2>1. Reported \in Nat
    BY <1>1, <1>6
  <2>2. \A k \in 1..Reported : files[k].told \in Hearers
    <3>1. \A k \in 1..Reported : k \in 1..Len(files)
      BY <1>1, <1>6
    <3> QED
      BY <1>1, <3>1 DEF FileRecords, Hearers
  <2> DEFINE n == Reported
  <2>3. Told = [k \in 1..n |-> files[k].told]
    BY DEF Told
  <2>4. n \in Nat /\ \A k \in 1..n : files[k].told \in Hearers
    BY <2>1, <2>2
  <2> HIDE DEF n
  <2>5. Told \in [1..n -> Hearers]
    BY <2>3, <2>4
  <2>6. Told \in Seq(Hearers) /\ Len(Told) = n /\ \A k \in 1..n : Told[k] = files[k].told
    BY <2>3, <2>4, <2>5
  <2> QED
    BY <2>6 DEF n
<1> QED
  BY <1>1, <1>2, <1>3, <1>4, <1>5, <1>6, <1>7 DEF Promised

\* A write of nb frames, which may be the last of the file.
LEMMA WriteEffect ==
  ASSUME RecorderInv, orderly, fd # 0, WriteSome
  PROVE  \E nb \in 1..Len(outputBuffer) :
           /\ nb <= byteCountdown /\ byteCountdown' = byteCountdown - nb
           /\ UNCHANGED headerWritten
           /\ Len(files') = Len(files)
           /\ \A k \in 1..Len(files) \ {fd} : files'[k] = files[k]
           /\ files'[fd].header = files[fd].header
           /\ files'[fd].data = files[fd].data \o SubSeq(outputBuffer, 1, nb)
           /\ IF byteCountdown' = 0
              THEN /\ fd' = 0 /\ pathTemplate' = 0 /\ files'[fd].reported = "rawFileDone"
                   /\ files'[fd].told \in Receivers
              ELSE fd' = fd /\ UNCHANGED pathTemplate /\ files'[fd].reported = files[fd].reported
<1>1. /\ files \in Seq(FileRecords) /\ fd \in 1..Len(files) /\ files[fd] \in FileRecords
      /\ outputBuffer \in Seq(Nat) /\ Len(outputBuffer) \in Nat /\ byteCountdown \in Int
  BY PromiseOf, LenProperties DEF Promised, RecorderInv, StampInv, IInv, Plain
<1> DEFINE written(nb) == [files EXCEPT ![fd].data = @ \o SubSeq(outputBuffer, 1, nb)]
<1>2. PICK nb \in 1..Writable :
        /\ byteCountdown' = byteCountdown - nb
        /\ \/ byteCountdown' = 0 /\ DoneOutputFile("rawFileDone", written(nb))
           \/ byteCountdown' # 0 /\ files' = written(nb) /\ UNCHANGED <<fd, pathTemplate>>
  BY DEF WriteSome, IsDone
<1>3. nb \in 1..Len(outputBuffer) /\ nb <= byteCountdown
  BY <1>1, <1>2 DEF Writable, Lesser
<1> DEFINE d == files[fd].data \o SubSeq(outputBuffer, 1, nb)
           r == [files[fd] EXCEPT !.data = d]
           q(c) == [r EXCEPT !.open = FALSE, !.reported = "rawFileDone", !.told = c]
<1>4. \/ /\ byteCountdown' = 0 /\ fd' = 0 /\ pathTemplate' = 0
         /\ \E c \in Receivers : files' = [files EXCEPT ![fd] = q(c)]
      \/ /\ byteCountdown' # 0 /\ fd' = fd /\ UNCHANGED pathTemplate
         /\ files' = [files EXCEPT ![fd] = r]
  <2>1. CASE byteCountdown' = 0 /\ DoneOutputFile("rawFileDone", written(nb))
    <3>1. fd' = 0 /\ pathTemplate' = 0
      BY <2>1 DEF DoneOutputFile
    <3>2. PICK c \in Receivers : files' = Closed("rawFileDone", written(nb), c)
      BY <2>1 DEF DoneOutputFile
    <3>3. files' = [written(nb) EXCEPT ![fd] = [written(nb)[fd] EXCEPT
                      !.open = FALSE, !.reported = "rawFileDone", !.told = c]]
      BY <3>2 DEF Closed
    <3>4. written(nb) = [files EXCEPT ![fd] = r]
      OBVIOUS
    <3>5. files' = [files EXCEPT ![fd] = q(c)]
      BY <1>1, <3>3, <3>4
    <3> QED
      BY <2>1, <3>1, <3>5
  <2>2. CASE byteCountdown' # 0 /\ files' = written(nb) /\ UNCHANGED <<fd, pathTemplate>>
    BY <2>2
  <2> QED
    BY <1>2, <2>1, <2>2
<1>5. /\ r.header = files[fd].header /\ r.data = d /\ r.reported = files[fd].reported
      /\ \A c \in Receivers : /\ q(c).header = files[fd].header /\ q(c).data = d
                              /\ q(c).reported = "rawFileDone" /\ q(c).told = c
  BY <1>1 DEF FileRecords
<1>6. UNCHANGED headerWritten
  BY DEF WriteSome
<1> HIDE DEF r, q
<1>7. /\ Len(files') = Len(files)
      /\ \A k \in 1..Len(files) \ {fd} : files'[k] = files[k]
      /\ IF byteCountdown' = 0 THEN \E c \in Receivers : files'[fd] = q(c) ELSE files'[fd] = r
  BY <1>1, <1>4
<1>8. /\ files'[fd].header = files[fd].header /\ files'[fd].data = d
      /\ files'[fd].reported = IF byteCountdown' = 0 THEN "rawFileDone" ELSE files[fd].reported
      /\ byteCountdown' = 0 => files'[fd].told \in Receivers
  BY <1>5, <1>7
<1> QED
  BY <1>2, <1>3, <1>4, <1>6, <1>7, <1>8

\* The header of the open file is written.
LEMMA HeaderEffect ==
  ASSUME RecorderInv, orderly, fd # 0, HeaderOnly
  PROVE  /\ ~headerWritten /\ headerWritten' = TRUE
         /\ UNCHANGED <<fd, pathTemplate, byteCountdown>>
         /\ Len(files') = Len(files)
         /\ \A k \in 1..Len(files) \ {fd} : files'[k] = files[k]
         /\ files'[fd].header = Rate /\ files'[fd].data = files[fd].data
         /\ files'[fd].reported = files[fd].reported
<1>1. files \in Seq(FileRecords) /\ fd \in 1..Len(files) /\ files[fd] \in FileRecords
  BY PromiseOf DEF Promised, RecorderInv, StampInv, IInv, Plain
<1>2. /\ files' = [files EXCEPT ![fd].header = Rate] /\ ~headerWritten /\ headerWritten' = TRUE
      /\ UNCHANGED <<fd, pathTemplate, byteCountdown>>
  BY DEF HeaderOnly
<1> DEFINE r == [files[fd] EXCEPT !.header = Rate]
<1>3. files' = [files EXCEPT ![fd] = r]
  BY <1>2
<1>4. r.header = Rate /\ r.data = files[fd].data /\ r.reported = files[fd].reported
  BY <1>1 DEF FileRecords
<1> HIDE DEF r
<1>5. /\ Len(files') = Len(files) /\ files'[fd] = r
      /\ \A k \in 1..Len(files) \ {fd} : files'[k] = files[k]
  BY <1>1, <1>3
<1> QED
  BY <1>2, <1>4, <1>5

\* The open file is given up: somebody may be told that it has ended.
LEMMA GivesEffect ==
  ASSUME RecorderInv, orderly, fd # 0, GivesUp
  PROVE  /\ failing /\ fd' = 0 /\ pathTemplate' = 0
         /\ Len(files') = Len(files)
         /\ \A k \in 1..Len(files) \ {fd} : files'[k] = files[k]
         /\ files'[fd].header = files[fd].header /\ files'[fd].data = files[fd].data
         /\ files'[fd].reported = "rawFileDone" /\ files'[fd].told \in Receivers
<1>1. files \in Seq(FileRecords) /\ fd \in 1..Len(files) /\ files[fd] \in FileRecords
  BY PromiseOf DEF Promised, RecorderInv, StampInv, IInv, Plain
<1>2. fd' = 0 /\ pathTemplate' = 0
  BY DEF GivesUp, DoneOutputFile
<1>3. PICK c \in Receivers : files' = Closed("rawFileDone", files, c)
  BY DEF GivesUp, DoneOutputFile
<1> DEFINE r == [files[fd] EXCEPT !.open = FALSE, !.reported = "rawFileDone", !.told = c]
<1>4. files' = [files EXCEPT ![fd] = r]
  BY <1>3 DEF Closed
<1>5. /\ r.header = files[fd].header /\ r.data = files[fd].data
      /\ r.reported = "rawFileDone" /\ r.told = c
  BY <1>1 DEF FileRecords
<1> HIDE DEF r
<1>6. /\ Len(files') = Len(files) /\ files'[fd] = r
      /\ \A k \in 1..Len(files) \ {fd} : files'[k] = files[k]
  BY <1>1, <1>4
<1> QED
  BY <1>2, <1>5, <1>6 DEF GivesUp

\* What an orderly client's writer does in one step, as far as the promise goes.
Still  == UNCHANGED <<files, fd, asked, progress>> /\ (pathTemplate' = pathTemplate)
Opens  ==
  /\ fd = 0 /\ pathTemplate # 0 /\ fd' = Len(files) + 1 /\ files' = Append(files, NewFile)
  /\ UNCHANGED <<pathTemplate, asked, progress>>
Heads  == fd # 0 /\ HeaderOnly /\ UNCHANGED asked
Writes == fd # 0 /\ WriteSome /\ UNCHANGED asked
Gives  == fd # 0 /\ GivesUp /\ UNCHANGED asked
Asks   ==
  /\ pathTemplate = 0 /\ fd' = 0
  /\ \E order \in Orders : asked' = Append(asked, order)
  /\ headerWritten' = FALSE /\ byteCountdown' = FramesToWrite
  /\ UNCHANGED files

LEMMA OrderlyStep ==
  ASSUME RecorderInv, orderly, [Next]_vars
  PROVE  orderly' /\ failing' = failing /\ (Still \/ Opens \/ Heads \/ Writes \/ Gives \/ Asks)
<1>1. CASE Poll \/ NoData \/ EnsureDirs \/ EnsureDirsLate \/ NoSlot \/ RawFileOff \/ EndRound
           \/ UNCHANGED vars
  BY <1>1 DEF Poll, NoData, EnsureDirs, EnsureDirsLate, NoSlot, RawFileOff, EndRound, vars,
              naming, progress, history, Still
<1>2. ASSUME NEW n \in 1..MaxChunk, QueueOutput(n)
      PROVE  orderly' /\ failing' = failing /\ (Still \/ Opens)
  <2>1. UNCHANGED <<progress, orderly, failing, asked>>
    BY <1>2 DEF QueueOutput
  <2>2. \/ UNCHANGED <<fd, files, pathTemplate>>
        \/ fd = 0 /\ OpenFile
    BY <1>2 DEF QueueOutput, NameFile, OpenNothing, naming
  <2>3. CASE fd = 0 /\ OpenFile
    <3>1. CASE DoneOutputFile("rawFileError", files)
      BY <2>1, <2>3, <3>1 DEF DoneOutputFile, Still
    <3>2. CASE ~DoneOutputFile("rawFileError", files)
      BY <2>1, <2>3, <3>2 DEF OpenFile, Opens
    <3> QED
      BY <3>1, <3>2
  <2> QED
    BY <2>1, <2>2, <2>3 DEF Still
<1>3. CASE HandleEvents
  <2>1. UNCHANGED <<orderly, failing, asked>>
    BY <1>3 DEF HandleEvents
  <2>2. fd # 0 /\ (\/ HeaderOnly \/ NothingToWrite \/ WriteSome \/ GivesUp
                  \/ UNCHANGED <<fd, files, regen, pathTemplate, outputBuffer, progress>>)
    BY <1>3, HandlesOpen DEF RecorderInv
  <2> QED
    BY <2>1, <2>2 DEF NothingToWrite, Still, Heads, Writes, Gives
<1>4. ASSUME NEW order \in Orders, ResumeWithNewFile(order)
      PROVE  orderly' /\ failing' = failing /\ Asks
  BY <1>4 DEF ResumeWithNewFile, Restart, Asks
<1> QED
  BY <1>1, <1>2, <1>3, <1>4 DEF Next, Round, Data

-----------------------------------------------------------------------------
LEMMA RecorderInit == Init => RecorderInv
<1> SUFFICES ASSUME Init PROVE RecorderInv
  OBVIOUS
<1>1. StampInv
  BY StampInit
<1>2. Len(<<>>) = 0 /\ MaxTime \in Nat
  BY WavFileWriterAssumption
<1> QED
  BY <1>1, <1>2 DEF Init, RecorderInv, Progress

LEMMA NowBounded == ASSUME RecorderInv, [Next]_vars PROVE now' <= MaxTime + 1
<1>1. now' = now \/ now' <= MaxTime + 1
  BY DEF Next, Round, Data, QueueOutput, Poll, NoData, EnsureDirs, EnsureDirsLate, NoSlot,
         RawFileOff, EndRound, HandleEvents, ResumeWithNewFile, vars
<1> QED
  BY <1>1 DEF RecorderInv, Progress

\* Nobody changes conduct on the way.
LEMMA ConductFixed == ASSUME [Next]_vars PROVE UNCHANGED <<orderly, failing>>
BY DEF Next, Round, Data, QueueOutput, Poll, NoData, EnsureDirs, EnsureDirsLate, NoSlot,
       RawFileOff, EndRound, HandleEvents, ResumeWithNewFile, vars

LEMMA OrderlyProgress ==
  ASSUME RecorderInv, orderly, Still \/ Opens \/ Heads \/ Writes \/ Gives \/ Asks,
         now' <= MaxTime + 1
  PROVE  Progress'
<1>1. /\ Len(files) \in Nat /\ fd \in 0..Len(files) /\ (fd # 0 => fd = Len(files))
      /\ files \in Seq(FileRecords) /\ pathTemplate \in Nat
      /\ byteCountdown \in Int /\ FramesToWrite \in Nat \ {0}
      /\ \A k \in 1..Len(files) : files[k] \in FileRecords
      /\ outputBuffer \in Seq(Nat)
  BY PromiseOf, WavFileWriterAssumption DEF Promised, RecorderInv, StampInv, IInv, Plain
<1>2. /\ \A k \in 1..Len(files) : files[k].reported = IF k = fd THEN "no" ELSE "rawFileDone"
      /\ fd # 0 => /\ headerWritten <=> files[fd].header # 0
                   /\ byteCountdown = FramesToWrite - Len(files[fd].data)
                   /\ byteCountdown > 0
      /\ fd = 0 /\ pathTemplate # 0 => headerWritten = FALSE /\ byteCountdown = FramesToWrite
  BY DEF RecorderInv, Progress
<1>8. asked' = asked => asked'[1] = First
  BY DEF RecorderInv, Progress
<1>3. CASE Still
  BY <1>2, <1>3, <1>8 DEF Still, progress, Progress
<1>4. CASE Opens
  <2>1. /\ NewFile.reported = "no" /\ NewFile.header = 0 /\ NewFile.data = <<>>
        /\ NewFile \in FileRecords /\ Len(<<>>) = 0
    BY NewFileIs DEF RecorderInv, StampInv, IInv, NewFile
  <2>2. /\ Len(files') = Len(files) + 1 /\ files'[Len(files) + 1] = NewFile
        /\ \A k \in 1..Len(files) : files'[k] = files[k]
    BY <1>1, <1>4, <2>1, AppendProperties DEF Opens
  <2>3. /\ fd = 0 /\ fd' = Len(files) + 1 /\ headerWritten' = FALSE /\ byteCountdown' = FramesToWrite
    BY <1>2, <1>4 DEF Opens, progress
  <2>4. ASSUME NEW k \in 1..Len(files')
        PROVE  files'[k].reported = IF k = fd' THEN "no" ELSE "rawFileDone"
    <3>1. CASE k = Len(files) + 1
      BY <2>1, <2>2, <2>3, <3>1
    <3>2. CASE k \in 1..Len(files)
      BY <1>1, <1>2, <2>2, <2>3, <3>2
    <3> QED
      BY <1>1, <2>2, <3>1, <3>2
  <2>5. fd' # 0 /\ files'[fd'] = NewFile
    BY <1>1, <2>2, <2>3
  <2>6. /\ headerWritten' <=> files'[fd'].header # 0
        /\ byteCountdown' = FramesToWrite - Len(files'[fd'].data)
        /\ byteCountdown' > 0
    <3>1. headerWritten' = FALSE
      BY <2>3
    <3>2. files'[fd'].header = 0 /\ Len(files'[fd'].data) = 0
      BY <2>1, <2>5
    <3>3. FramesToWrite - 0 = FramesToWrite /\ FramesToWrite > 0
      BY <1>1
    <3> QED
      BY <2>3, <3>1, <3>2, <3>3
  <2> QED
    BY <1>4, <1>8, <2>4, <2>5, <2>6 DEF Progress, Opens
<1>5. CASE Heads
  <2>1. /\ fd # 0 /\ fd' = fd /\ pathTemplate' = pathTemplate /\ byteCountdown' = byteCountdown
        /\ Len(files') = Len(files) /\ headerWritten' = TRUE
        /\ \A k \in 1..Len(files) \ {fd} : files'[k] = files[k]
        /\ files'[fd].header = Rate /\ files'[fd].data = files[fd].data
        /\ files'[fd].reported = files[fd].reported
    BY <1>5, HeaderEffect DEF Heads
  <2> QED
    BY <1>1, <1>2, <1>5, <1>8, <2>1 DEF Progress, Heads
<1>6. CASE Writes
  <2>1. PICK nb \in 1..Len(outputBuffer) :
           /\ nb <= byteCountdown /\ byteCountdown' = byteCountdown - nb
           /\ UNCHANGED headerWritten
           /\ Len(files') = Len(files)
           /\ \A k \in 1..Len(files) \ {fd} : files'[k] = files[k]
           /\ files'[fd].header = files[fd].header
           /\ files'[fd].data = files[fd].data \o SubSeq(outputBuffer, 1, nb)
           /\ IF byteCountdown' = 0
              THEN /\ fd' = 0 /\ pathTemplate' = 0 /\ files'[fd].reported = "rawFileDone"
                   /\ files'[fd].told \in Receivers
              ELSE fd' = fd /\ UNCHANGED pathTemplate /\ files'[fd].reported = files[fd].reported
    BY <1>6, WriteEffect DEF Writes
  <2>2. fd # 0 /\ nb \in Nat /\ fd \in 1..Len(files) /\ nb \in 0..Len(outputBuffer)
    BY <1>1, <1>6, <2>1, LenProperties DEF Writes
  <2>3. Len(files'[fd].data) = Len(files[fd].data) + nb /\ Len(files[fd].data) \in Nat
    <3>1. SubSeq(outputBuffer, 1, nb) \in Seq(Nat) /\ Len(SubSeq(outputBuffer, 1, nb)) = nb
      BY <1>1, <2>2, CutAfter
    <3>2. files[fd].data \in Seq(Nat)
      BY <1>1, <2>2 DEF FileRecords
    <3> QED
      BY <2>1, <3>1, <3>2, ConcatProperties, LenProperties
  <2>4. CASE byteCountdown' = 0
    BY <1>1, <1>2, <1>6, <1>8, <2>1, <2>2, <2>4 DEF Progress, Writes
  <2>5. CASE byteCountdown' # 0
    <3>1. byteCountdown' > 0
      BY <1>1, <2>1, <2>2, <2>5
    <3>2. byteCountdown' = FramesToWrite - Len(files'[fd].data)
      <4>1. byteCountdown = FramesToWrite - Len(files[fd].data)
        BY <1>2, <2>2
      <4>2. byteCountdown' = byteCountdown - nb
        BY <2>1
      <4> QED
        BY <1>1, <2>2, <2>3, <4>1, <4>2
    <3>3. \A k \in 1..Len(files') : files'[k].reported = IF k = fd' THEN "no" ELSE "rawFileDone"
      BY <1>2, <2>1, <2>2, <2>5
    <3> QED
      BY <1>2, <1>6, <1>8, <2>1, <2>2, <2>5, <3>1, <3>2, <3>3 DEF Progress, Writes
  <2> QED
    BY <2>4, <2>5
<1>7. CASE Asks
  <2>1. fd = 0 /\ fd' = 0 /\ files' = files
    BY <1>7 DEF Asks, RecorderInv, StampInv, IInv, SlotFollows
  <2>2. asked'[1] = First
    <3>1. PICK order \in Orders : asked' = Append(asked, order)
      BY <1>7 DEF Asks
    <3>2. asked \in Seq(Orders) /\ Len(asked) >= 1 /\ asked[1] = First
      BY DEF RecorderInv, Progress, StampInv, Waits, IInv, Plain, requests
    <3> QED
      BY <3>1, <3>2, AppendProperties
  <2> QED
    BY <1>2, <1>7, <2>1, <2>2 DEF Asks, Progress
<1>9. CASE Gives
  BY <1>1, <1>2, <1>8, <1>9, GivesEffect DEF Gives, Progress
<1> QED
  BY <1>3, <1>4, <1>5, <1>6, <1>7, <1>9

LEMMA RecorderInvariance == ASSUME Tell PROVE Spec => []RecorderInv
<1>1. RecorderInv /\ [Next]_vars => RecorderInv'
  <2> SUFFICES ASSUME RecorderInv, [Next]_vars PROVE RecorderInv'
    OBVIOUS
  <2>1. StampInv'
    BY StillStamp, QueueStamp, HandleStamp, ResumeStamp DEF Next, Round, Data, RecorderInv
  <2>2. now' <= MaxTime + 1
    BY NowBounded
  <2>3. CASE orderly
    BY <2>1, <2>2, <2>3, OrderlyStep, OrderlyProgress DEF RecorderInv
  <2>4. CASE ~orderly
    BY <2>1, <2>2, <2>4, ConductFixed DEF RecorderInv, Progress
  <2> QED
    BY <2>3, <2>4
<1> QED
  BY <1>1, RecorderInit, PTL DEF Spec

-----------------------------------------------------------------------------
LEMMA PromiseNext == ASSUME RecorderInv', orderly' PROVE Promised'
<1>1. RecorderInv' /\ orderly' => Promised'
  BY PromiseOf, PTL
<1> QED
  BY <1>1

LEMMA StillPromise ==
  ASSUME orderly' = orderly, failing' = failing, ~orderly \/ Still
  PROVE  UNCHANGED Promise!promises
<1>1. CASE ~orderly
  <2>1. /\ Asked' = Asked /\ Recordings' = Recordings
        /\ Reported = 0 /\ Reported' = 0
    BY <1>1 DEF Asked, Recordings, Reported
  <2>2. Told = [k \in {} |-> files[k].told] /\ Told' = [k \in {} |-> files'[k].told]
    BY <2>1 DEF Told
  <2>3. Told' = Told
    BY <2>2
  <2> QED
    BY <2>1, <2>3 DEF Promise!promises
<1>2. CASE Still
  <2>1. files' = files /\ asked' = asked
    BY <1>2 DEF Still
  <2> QED
    BY <2>1 DEF Asked, Recordings, Reported, Told, Files, Promise!promises
<1> QED
  BY <1>1, <1>2

\* The reports: none is taken back, and at most one is added.
LEMMA ToldSame ==
  ASSUME Reported' = Reported, \A k \in 1..Reported : files'[k].told = files[k].told
  PROVE  Told' = Told
BY DEF Told

LEMMA ToldMore ==
  ASSUME Promised, Promised', Reported' = Reported + 1,
         \A k \in 1..Reported : files'[k].told = files[k].told,
         NEW c \in Receivers, files'[Reported + 1].told = c
  PROVE  Told' = Append(Told, c)
<1>1. /\ Told \in Seq(Hearers) /\ Told' \in Seq(Hearers) /\ c \in Hearers
      /\ Reported \in Nat /\ Len(Told) = Reported /\ Len(Told') = Reported + 1
      /\ \A k \in 1..Reported : Told[k] = files[k].told
      /\ \A k \in 1..(Reported + 1) : Told'[k] = files'[k].told
  BY DEF Promised, Hearers
<1> DEFINE S == Append(Told, c)
<1>2. /\ S \in Seq(Hearers) /\ Len(S) = Reported + 1 /\ S[Reported + 1] = c
      /\ \A k \in 1..Reported : S[k] = Told[k]
  BY <1>1, AppendProperties
<1> HIDE DEF S
<1>3. ASSUME NEW k \in 1..Len(S) PROVE Told'[k] = S[k]
  <2>1. CASE k \in 1..Reported
    BY <1>1, <1>2, <2>1
  <2>2. CASE k = Reported + 1
    BY <1>1, <1>2, <2>2
  <2> QED
    BY <1>1, <1>2, <2>1, <2>2
<1>4. Told' = S
  BY <1>1, <1>2, <1>3, SeqEqual
<1> QED
  BY <1>4 DEF S

LEMMA AskPromise ==
  ASSUME RecorderInv, orderly, RecorderInv', orderly', failing' = failing, Asks
  PROVE  Promise!Ask
<1>1. Promised /\ Promised'
  BY PromiseOf, PromiseNext
<1>2. /\ fd = 0 /\ fd' = 0 /\ files' = files /\ Len(files) = requests
      /\ \E order \in Orders : asked' = Append(asked, order)
  BY DEF Asks, RecorderInv, StampInv, IInv, SlotFollows, Waits
<1>3. Recordings' = Recordings
  BY <1>2 DEF Recordings, Files
<1>4. Told' = Told /\ Len(Told) = Len(Asked)
  BY <1>1, <1>2, ToldSame DEF Promised
<1> QED
  BY <1>1, <1>2, <1>3, <1>4 DEF Promised, Promise!Ask

LEMMA SameRecording ==
  ASSUME NEW q \in RecordingSet, NEW r \in RecordingSet, q.header = r.header, q.data = r.data
  PROVE  q = r
<1>1. /\ q = [header |-> q.header, data |-> q.data]
      /\ r = [header |-> r.header, data |-> r.data]
  BY DEF RecordingSet
<1> QED
  BY <1>1

LEMMA SameRecordings ==
  ASSUME NEW R \in Seq(RecordingSet), NEW S \in Seq(RecordingSet), Len(R) = Len(S),
         \A k \in 1..Len(R) : R[k].header = S[k].header /\ R[k].data = S[k].data
  PROVE  R = S
<1>1. \A q, r \in RecordingSet : q.header = r.header /\ q.data = r.data => q = r
  BY SameRecording
<1>2. \A k \in 1..Len(R) : R[k] \in RecordingSet /\ S[k] \in RecordingSet
  BY ElementOfSeq
<1>3. \A k \in 1..Len(R) : R[k] = S[k]
  BY <1>1, <1>2
<1> QED
  BY <1>3, SeqEqual

LEMMA BeginPromise ==
  ASSUME RecorderInv, orderly, RecorderInv', orderly', failing' = failing, Opens
  PROVE  Promise!Begin
<1>1. Promised /\ Promised'
  BY PromiseOf, PromiseNext
<1>2. /\ fd = 0 /\ fd' = Len(files) + 1 /\ files' = Append(files, NewFile)
      /\ asked' = asked /\ Len(files) = requests - 1
      /\ requests \in Nat /\ files \in Seq(FileRecords)
  BY DEF Opens, RecorderInv, StampInv, IInv, Waits, Plain
<1> DEFINE r == [header |-> 0, data |-> <<>>]
<1>3. /\ NewFile.header = 0 /\ NewFile.data = <<>> /\ NewFile \in FileRecords
      /\ r \in RecordingSet /\ r.header = 0 /\ r.data = <<>>
  BY NewFileIs DEF RecorderInv, StampInv, IInv, NewFile, RecordingSet, FileRecords
<1>4. /\ Len(files') = Len(files) + 1 /\ files'[Len(files) + 1] = NewFile
      /\ \A k \in 1..Len(files) : files'[k] = files[k]
  BY <1>2, <1>3, AppendProperties
<1> DEFINE S == Append(Recordings, r)
<1> HIDE DEF r
<1>5. /\ S \in Seq(RecordingSet) /\ Len(S) = Len(files) + 1 /\ S[Len(files) + 1] = r
      /\ \A k \in 1..Len(files) : S[k] = Recordings[k]
  BY <1>1, <1>3, AppendProperties DEF Promised
<1> HIDE DEF S
<1>6. ASSUME NEW k \in 1..Len(Recordings')
      PROVE  Recordings'[k].header = S[k].header /\ Recordings'[k].data = S[k].data
  <2>1. CASE k = Len(files) + 1
    BY <1>1, <1>3, <1>4, <1>5, <2>1 DEF Promised
  <2>2. CASE k \in 1..Len(files)
    BY <1>1, <1>4, <1>5, <2>2 DEF Promised
  <2> QED
    BY <1>1, <1>4, <2>1, <2>2 DEF Promised
<1>7. Recordings' = S
  BY <1>1, <1>4, <1>5, <1>6, SameRecordings DEF Promised
<1>8. Len(Recordings) < Len(Asked) /\ Asked' = Asked /\ Reported' = Reported
  BY <1>1, <1>2, <1>4 DEF Promised
<1>9. Told' = Told
  <2>1. \A k \in 1..Reported : k \in 1..Len(files)
    BY <1>1 DEF Promised
  <2> QED
    BY <1>4, <1>8, <2>1, ToldSame
<1> QED
  BY <1>7, <1>8, <1>9 DEF Promise!Begin, S, r

\* The recording of the open file changes.
LEMMA CurrentOf ==
  ASSUME RecorderInv, orderly, RecorderInv', orderly', fd # 0,
         Len(files') = Len(files), \A k \in 1..Len(files) \ {fd} : files'[k] = files[k],
         NEW h \in Nat, NEW d \in Seq(Nat), files'[fd].header = h, files'[fd].data = d
  PROVE  /\ Recordings' = [Recordings EXCEPT ![Promise!latest] = [header |-> h, data |-> d]]
         /\ Promise!latest = fd /\ fd \in 1..Len(Recordings)
         /\ Promise!Current = Recordings[fd] /\ Recordings[fd] \in RecordingSet
         /\ Recordings[fd].header = files[fd].header /\ Recordings[fd].data = files[fd].data
         /\ Reported = fd - 1 /\ \A k \in 1..Reported : files'[k].told = files[k].told
<1>1. Promised /\ Promised'
  BY PromiseOf, PromiseNext
<1>2. fd = Len(files) /\ fd \in 1..Len(files) /\ Promise!latest = fd /\ Reported = fd - 1
  BY <1>1 DEF Promised, Promise!latest
<1>3. Promise!Current = Recordings[fd] /\ Recordings[fd] \in RecordingSet
  BY <1>1, <1>2, ElementOfSeq DEF Promise!Current, Promised
<1> DEFINE r == [header |-> h, data |-> d]
<1>4. r \in RecordingSet /\ r.header = h /\ r.data = d
  BY DEF RecordingSet
<1> DEFINE S == [Recordings EXCEPT ![fd] = r]
<1> HIDE DEF r
<1>5. /\ S \in Seq(RecordingSet) /\ Len(S) = Len(files)
      /\ \A k \in 1..Len(files) : S[k] = IF k = fd THEN r ELSE Recordings[k]
  BY <1>1, <1>2, <1>4, ExceptSeq DEF Promised
<1> HIDE DEF S
<1>6. ASSUME NEW k \in 1..Len(Recordings')
      PROVE  Recordings'[k].header = S[k].header /\ Recordings'[k].data = S[k].data
  <2>1. CASE k = fd
    BY <1>1, <1>2, <1>4, <1>5, <2>1 DEF Promised
  <2>2. CASE k # fd
    <3>1. k \in 1..Len(files) /\ Len(files') = Len(files) /\ files'[k] = files[k]
      BY <1>1, <2>2 DEF Promised
    <3>2. /\ Recordings'[k].header = files'[k].header /\ Recordings'[k].data = files'[k].data
          /\ Recordings[k].header = files[k].header /\ Recordings[k].data = files[k].data
      BY <1>1, <3>1 DEF Promised
    <3>3. S[k] = Recordings[k]
      BY <1>5, <2>2, <3>1
    <3> QED
      BY <3>1, <3>2, <3>3
  <2> QED
    BY <2>1, <2>2
<1>7. Recordings' = S
  BY <1>1, <1>5, <1>6, SameRecordings DEF Promised
<1>8. \A k \in 1..Reported : k \in 1..Len(files) \ {fd}
  BY <1>1, <1>2 DEF Promised
<1> QED
  BY <1>1, <1>2, <1>3, <1>7, <1>8 DEF Promised, S, r

LEMMA HeaderPromise ==
  ASSUME RecorderInv, orderly, RecorderInv', orderly', failing' = failing, Heads
  PROVE  Promise!WriteHeader
<1>1. /\ ~headerWritten /\ fd # 0 /\ fd' = fd /\ Len(files') = Len(files)
      /\ \A k \in 1..Len(files) \ {fd} : files'[k] = files[k]
      /\ files'[fd].header = Rate /\ files'[fd].data = files[fd].data
      /\ UNCHANGED asked
  BY HeaderEffect DEF Heads
<1>2. Promised /\ Promised'
  BY PromiseOf, PromiseNext
<1>3. files[fd].data \in Seq(Nat) /\ files[fd].header = 0 /\ Rate \in Nat
  BY <1>1, <1>2 DEF Promised, FileRecords, RecorderInv, Progress
<1>4. /\ Recordings' = [Recordings EXCEPT ![Promise!latest] = [header |-> Rate, data |-> files[fd].data]]
      /\ Promise!latest = fd /\ fd \in 1..Len(Recordings)
      /\ Promise!Current = Recordings[fd] /\ Recordings[fd] \in RecordingSet
      /\ Recordings[fd].header = files[fd].header /\ Recordings[fd].data = files[fd].data
      /\ Reported = fd - 1 /\ \A k \in 1..Reported : files'[k].told = files[k].told
  BY <1>1, <1>3, CurrentOf
<1>5. [Recordings[fd] EXCEPT !.header = Rate] = [header |-> Rate, data |-> files[fd].data]
  <2>1. ASSUME NEW r \in RecordingSet
        PROVE  [r EXCEPT !.header = Rate] = [header |-> Rate, data |-> r.data]
    <3> DEFINE q == [r EXCEPT !.header = Rate]
               p == [header |-> Rate, data |-> r.data]
    <3>1. q \in RecordingSet /\ q.header = Rate /\ q.data = r.data
      BY <1>3 DEF RecordingSet
    <3>2. p \in RecordingSet /\ p.header = Rate /\ p.data = r.data
      BY <1>3 DEF RecordingSet
    <3> HIDE DEF p, q
    <3>3. q = p
      BY <3>1, <3>2, SameRecording
    <3> QED
      BY <3>3 DEF p, q
  <2> QED
    BY <1>4, <2>1
<1>6. Recordings' = [Recordings EXCEPT ![Promise!latest].header = Asked[1].rate]
  <2>1. Asked[1].rate = Rate
    BY <1>2 DEF Promised, Rate
  <2> QED
    BY <1>4, <1>5, <2>1
<1>7. Asked' = Asked /\ Told' = Told
  <2>1. Asked' = Asked /\ Reported' = Reported
    BY <1>1, <1>2 DEF Promised
  <2> QED
    BY <1>4, <2>1, ToldSame
<1>8. Len(Told) < Promise!latest /\ Promise!Current.header = 0
  <2>1. Promise!latest \in Nat /\ Reported = Promise!latest - 1
    BY <1>2, <1>4 DEF Promised
  <2>2. Len(Told) < Promise!latest
    BY <1>2, <2>1 DEF Promised
  <2> QED
    BY <1>3, <1>4, <2>2
<1> QED
  BY <1>6, <1>7, <1>8 DEF Promise!WriteHeader

\* The frames at the front of the buffer are newer than all that is recorded.
LEMMA FrontIsNewer ==
  ASSUME RecorderInv, Tell, orderly, NEW nb \in 1..Len(outputBuffer)
  PROVE  LET new == SubSeq(outputBuffer, 1, nb) IN
         /\ new \in Seq(Nat) /\ Len(new) = nb
         /\ new \in [1..nb -> Promise!Newer]
         /\ \A i, j \in 1..nb : i < j => new[i] < new[j]
<1> DEFINE new == SubSeq(outputBuffer, 1, nb)
<1>1. /\ Plain /\ Kept(now, lost, outputBuffer, files) /\ Promised /\ now <= MaxTime + 1
      /\ MaxTime \in Nat
  BY PromiseOf, WavFileWriterAssumption DEF RecorderInv, StampInv, IInv, Progress
<1>2. Shape(outputBuffer) /\ outputBuffer \in Seq(Nat) /\ now \in Nat
  BY <1>1, ElementsOf DEF Plain
<1>3. nb \in 0..Len(outputBuffer) /\ nb \in Nat
  BY <1>2 DEF Shape
<1>4. new \in Seq(Nat) /\ Len(new) = nb /\ \A i \in 1..nb : new[i] = outputBuffer[i]
  BY <1>2, <1>3, CutAfter
<1>5. \A i \in 1..nb : i \in 1..Len(outputBuffer)
  BY <1>2, <1>3 DEF Shape
<1> HIDE DEF new
<1>6. \A i, j \in 1..nb : i < j => new[i] < new[j]
  BY <1>1, <1>2, <1>4, <1>5 DEF Kept, Shape
<1>7. ASSUME NEW i \in 1..nb PROVE new[i] \in Promise!Newer
  <2>1. new[i] \in Elements(outputBuffer) /\ new[i] \in Nat
    BY <1>2, <1>4, <1>5 DEF Shape
  <2>2. new[i] \in 1..(now - 1)
    BY <1>1, <2>1 DEF Kept
  <2>3. new[i] \in 1..MaxTime
    BY <1>1, <1>2, <2>2
  <2>4. ASSUME NEW k \in 1..Promise!latest, NEW m \in DOMAIN Recordings[k].data
        PROVE  Recordings[k].data[m] < new[i]
    <3>1. k \in 1..Len(files) /\ Recordings[k].data = files[k].data
      BY <1>1 DEF Promised, Promise!latest
    <3>2. files[k].data[m] \in Elements(files[k].data)
      BY <3>1 DEF Elements
    <3>3. files[k].data[m] \in Recorded(files)
      BY <3>1, <3>2 DEF Recorded
    <3> QED
      BY <1>1, <2>1, <3>1, <3>3 DEF Kept
  <2> QED
    BY <2>3, <2>4 DEF Promise!Newer
<1>8. new \in [1..nb -> Promise!Newer]
  <2>1. new = [i \in 1..nb |-> new[i]]
    BY <1>3, <1>4
  <2> QED
    BY <1>7, <2>1
<1> QED
  BY <1>4, <1>6, <1>8 DEF new

LEMMA RecordPromise ==
  ASSUME RecorderInv, Tell, orderly, RecorderInv', orderly', failing' = failing, Writes
  PROVE  Promise!Record
<1>1. PICK nb \in 1..Len(outputBuffer) :
        /\ nb <= byteCountdown /\ byteCountdown' = byteCountdown - nb
        /\ UNCHANGED headerWritten
        /\ Len(files') = Len(files)
        /\ \A k \in 1..Len(files) \ {fd} : files'[k] = files[k]
        /\ files'[fd].header = files[fd].header
        /\ files'[fd].data = files[fd].data \o SubSeq(outputBuffer, 1, nb)
        /\ IF byteCountdown' = 0
           THEN /\ fd' = 0 /\ pathTemplate' = 0 /\ files'[fd].reported = "rawFileDone"
                /\ files'[fd].told \in Receivers
           ELSE fd' = fd /\ UNCHANGED pathTemplate /\ files'[fd].reported = files[fd].reported
  BY WriteEffect DEF Writes
<1>2. Promised /\ Promised'
  BY PromiseOf, PromiseNext
<1>3. fd # 0 /\ headerWritten /\ asked' = asked
  BY DEF Writes, WriteSome
<1>4. /\ files[fd].header # 0 /\ byteCountdown = FramesToWrite - Len(files[fd].data)
      /\ files[fd] \in FileRecords /\ fd = Len(files) /\ Len(files) \in Nat
      /\ byteCountdown \in Int /\ FramesToWrite \in Nat /\ Len(outputBuffer) \in Nat
  <2>1. files[fd].header # 0 /\ byteCountdown = FramesToWrite - Len(files[fd].data)
    BY <1>3 DEF RecorderInv, Progress
  <2>2. byteCountdown \in Int /\ FramesToWrite \in Nat /\ outputBuffer \in Seq(Nat)
    <3>1. Plain
      BY DEF RecorderInv, StampInv, IInv
    <3> QED
      BY <3>1, Sizes DEF Plain
  <2>3. fd = Len(files) /\ Len(files) \in Nat /\ files[fd] \in FileRecords
    BY <1>2, <1>3 DEF Promised
  <2> QED
    BY <2>1, <2>2, <2>3, LenProperties
<1>5. files[fd].data \in Seq(Nat) /\ Len(files[fd].data) \in Nat /\ files[fd].header \in Nat
  BY <1>4, LenProperties DEF FileRecords
<1> DEFINE new == SubSeq(outputBuffer, 1, nb)
           d == files[fd].data \o new
           n == FramesToWrite - Len(files[fd].data)
<1>6. /\ new \in Seq(Nat) /\ Len(new) = nb
      /\ new \in [1..nb -> Promise!Newer]
      /\ \A i, j \in 1..nb : i < j => new[i] < new[j]
  BY FrontIsNewer
<1> HIDE DEF new
<1>7. d \in Seq(Nat) /\ files'[fd].data = d /\ files'[fd].header = files[fd].header
  BY <1>1, <1>5, <1>6, ConcatProperties DEF new
<1> HIDE DEF d
<1>8. /\ Recordings' = [Recordings EXCEPT ![Promise!latest] = [header |-> files[fd].header, data |-> d]]
      /\ Promise!latest = fd /\ fd \in 1..Len(Recordings)
      /\ Promise!Current = Recordings[fd] /\ Recordings[fd] \in RecordingSet
      /\ Recordings[fd].header = files[fd].header /\ Recordings[fd].data = files[fd].data
      /\ Reported = fd - 1 /\ \A k \in 1..Reported : files'[k].told = files[k].told
  BY <1>1, <1>3, <1>5, <1>7, CurrentOf
<1>9. [Recordings[fd] EXCEPT !.data = @ \o new] = [header |-> files[fd].header, data |-> d]
  <2>1. ASSUME NEW r \in RecordingSet, NEW e \in Seq(Nat)
        PROVE  [r EXCEPT !.data = e] = [header |-> r.header, data |-> e]
    <3> DEFINE q == [r EXCEPT !.data = e]
               p == [header |-> r.header, data |-> e]
    <3>1. q \in RecordingSet /\ q.header = r.header /\ q.data = e
      BY DEF RecordingSet
    <3>2. p \in RecordingSet /\ p.header = r.header /\ p.data = e
      BY DEF RecordingSet
    <3> HIDE DEF p, q
    <3>3. q = p
      BY <3>1, <3>2, SameRecording
    <3> QED
      BY <3>3 DEF p, q
  <2>2. Recordings[fd].data \o new = d
    BY <1>8 DEF d
  <2> QED
    BY <1>7, <1>8, <2>1, <2>2
<1>10. Recordings' = [Recordings EXCEPT ![Promise!latest].data = @ \o new]
  BY <1>8, <1>9
<1>11. /\ Len(Told) < Promise!latest /\ Promise!Current.header # 0
       /\ Promise!Current.data = files[fd].data
  <2>1. fd \in Nat /\ Reported = fd - 1
    BY <1>4, <1>8
  <2>2. Len(Told) < fd
    BY <1>2, <2>1 DEF Promised
  <2> QED
    BY <1>3, <1>4, <1>8, <2>2
<1>12. nb \in 1..n /\ (byteCountdown' = 0 <=> Len(files[fd].data) + nb = FramesToWrite)
  <2>1. /\ nb \in 1..Len(outputBuffer) /\ nb <= byteCountdown /\ byteCountdown' = byteCountdown - nb
        /\ byteCountdown = n /\ Len(files[fd].data) \in Nat /\ FramesToWrite \in Nat
        /\ Len(outputBuffer) \in Nat
    BY <1>1, <1>4, <1>5
  <2>2. \A b, c, l, f, t \in Int :
          b \in 1..t /\ b <= c /\ c = f - l =>
            1 <= b /\ b <= f - l /\ (c - b = 0 <=> l + b = f)
    OBVIOUS
  <2> HIDE DEF n
  <2>3. n \in Int /\ n = FramesToWrite - Len(files[fd].data)
    BY <1>4, <1>5 DEF n
  <2>4. /\ 1 <= nb /\ nb <= n
        /\ byteCountdown' = 0 <=> Len(files[fd].data) + nb = FramesToWrite
    <3>1. nb \in Int /\ byteCountdown \in Int /\ Len(files[fd].data) \in Int
          /\ FramesToWrite \in Int /\ Len(outputBuffer) \in Int
      BY <2>1, <1>4
    <3> QED
      BY <2>1, <2>2, <2>3, <3>1
  <2> QED
    BY <2>1, <2>3, <2>4
<1>13. Reported' = IF Len(files[fd].data) + nb = FramesToWrite THEN Reported + 1 ELSE Reported
  <2>1. CASE byteCountdown' = 0
    <3>1. fd' = 0 /\ Reported' = Len(files')
      BY <1>1, <1>2, <2>1 DEF Promised
    <3> QED
      BY <1>1, <1>4, <1>8, <1>12, <2>1, <3>1
  <2>2. CASE byteCountdown' # 0
    <3>1. fd' = fd /\ Reported' = Len(files') - 1
      BY <1>1, <1>2, <1>3, <2>2 DEF Promised
    <3> QED
      BY <1>1, <1>4, <1>8, <1>12, <2>2, <3>1
  <2> QED
    BY <2>1, <2>2
<1>14. Asked' = Asked /\ Asked[1].frames = FramesToWrite
  BY <1>2, <1>3 DEF Promised, FramesToWrite
<1>16. IF Len(files[fd].data) + nb = FramesToWrite THEN Promise!Report ELSE Told' = Told
  <2>1. CASE Len(files[fd].data) + nb = FramesToWrite
    <3>1. files'[fd].told \in Receivers /\ Reported' = Reported + 1 /\ Reported + 1 = fd
      BY <1>1, <1>4, <1>8, <1>12, <1>13, <2>1
    <3>2. Told' = Append(Told, files'[fd].told)
      BY <1>2, <1>8, <3>1, ToldMore
    <3> QED
      BY <2>1, <3>1, <3>2 DEF Promise!Report
  <2>2. CASE Len(files[fd].data) + nb # FramesToWrite
    BY <1>8, <1>13, <2>2, ToldSame
  <2> QED
    BY <2>1, <2>2
<1> HIDE DEF n
<1>15. \E m \in 1..(Asked[1].frames - Len(Promise!Current.data)) :
        /\ \E w \in [1..m -> Promise!Newer] :
             /\ \A i, j \in 1..m : i < j => w[i] < w[j]
             /\ Recordings' = [Recordings EXCEPT ![Promise!latest].data = @ \o w]
        /\ IF Len(Promise!Current.data) + m = Asked[1].frames
           THEN Promise!Report ELSE UNCHANGED Told
  BY <1>6, <1>10, <1>11, <1>12, <1>14, <1>16 DEF n
<1> QED
  BY <1>11, <1>14, <1>15 DEF Promise!Record

LEMMA CutShortPromise ==
  ASSUME RecorderInv, orderly, RecorderInv', orderly', failing' = failing, Gives
  PROVE  Promise!CutShort
<1>1. /\ failing /\ fd # 0 /\ fd' = 0 /\ Len(files') = Len(files)
      /\ \A k \in 1..Len(files) \ {fd} : files'[k] = files[k]
      /\ files'[fd].header = files[fd].header /\ files'[fd].data = files[fd].data
      /\ files'[fd].told \in Receivers /\ asked' = asked
  BY GivesEffect DEF Gives
<1>2. Promised /\ Promised'
  BY PromiseOf, PromiseNext
<1>3. files[fd].data \in Seq(Nat) /\ files[fd].header \in Nat
  BY <1>1, <1>2 DEF Promised, FileRecords
<1>4. /\ Recordings' = [Recordings EXCEPT ![Promise!latest] =
                          [header |-> files[fd].header, data |-> files[fd].data]]
      /\ Promise!latest = fd /\ fd \in 1..Len(Recordings) /\ Recordings[fd] \in RecordingSet
      /\ Recordings[fd].header = files[fd].header /\ Recordings[fd].data = files[fd].data
      /\ Reported = fd - 1 /\ \A k \in 1..Reported : files'[k].told = files[k].told
  BY <1>1, <1>3, CurrentOf
<1>5. Recordings' = Recordings
  <2>1. Recordings[fd] = [header |-> files[fd].header, data |-> files[fd].data]
    BY <1>4 DEF RecordingSet
  <2>2. Recordings' = [Recordings EXCEPT ![fd] = Recordings[fd]]
    BY <1>4, <2>1
  <2>3. Recordings \in Seq(RecordingSet)
    BY <1>2 DEF Promised
  <2> QED
    BY <1>4, <2>2, <2>3
<1>6. Reported' = Reported + 1 /\ Reported + 1 = fd /\ Len(Told) < Promise!latest
  BY <1>1, <1>2, <1>4 DEF Promised
<1>7. Told' = Append(Told, files'[fd].told)
  BY <1>1, <1>2, <1>4, <1>6, ToldMore
<1>8. Asked' = Asked
  BY <1>1, <1>2 DEF Promised
<1> QED
  BY <1>1, <1>5, <1>6, <1>7, <1>8 DEF Promise!CutShort, Promise!Report

-----------------------------------------------------------------------------
(***************************************************************************)
(* The recording of an orderly client implements Recorder, with and        *)
(* without faults: each request gets a file of its own, with a header and  *)
(* then frames newer than all those recorded before, of the rate and the   *)
(* length of the first request, and the control connection of the moment   *)
(* is told exactly when the last frame is in the file or writing fails     *)
(* (WavFileWriter.cpp:69-204, Pollable.cpp:188-195).                       *)
(***************************************************************************)
THEOREM RecorderImplemented == Tell => (Spec => ImplementsRecorder)
<1>1. Init => Promise!Init
  <2> SUFFICES ASSUME Init PROVE Promise!Init
    OBVIOUS
  <2>1. files = <<>> /\ asked = <<First>> /\ Files = {} /\ failing \in BOOLEAN
    BY WavFileWriterAssumption DEF Init, Files
  <2>2. Recordings = <<>>
    BY <2>1 DEF Recordings
  <2>3. Reported = 0
    <3>1. {k \in Files : files[k].reported = "rawFileDone"} = {}
      BY <2>1
    <3> QED
      BY <3>1, FS_EmptySet DEF Reported
  <2>4. Told = <<>>
    BY <2>3 DEF Told
  <2> QED
    BY <2>1, <2>2, <2>4 DEF Promise!Init, Asked
<1>2. ASSUME Tell, RecorderInv, RecorderInv', [Next]_vars
      PROVE  [Promise!Next]_Promise!promises
  <2>1. CASE orderly
    <3>1. /\ orderly' /\ failing' = failing /\ orderly' = orderly
          /\ Still \/ Opens \/ Heads \/ Writes \/ Gives \/ Asks
      BY <1>2, <2>1, OrderlyStep, ConductFixed
    <3>2. CASE Still
      BY <3>1, <3>2, StillPromise
    <3>3. CASE Opens
      BY <1>2, <2>1, <3>1, <3>3, BeginPromise DEF Promise!Next
    <3>4. CASE Heads
      BY <1>2, <2>1, <3>1, <3>4, HeaderPromise DEF Promise!Next
    <3>5. CASE Writes
      BY <1>2, <2>1, <3>1, <3>5, RecordPromise DEF Promise!Next
    <3>6. CASE Asks
      BY <1>2, <2>1, <3>1, <3>6, AskPromise DEF Promise!Next
    <3>7. CASE Gives
      BY <1>2, <2>1, <3>1, <3>7, CutShortPromise DEF Promise!Next
    <3> QED
      BY <3>1, <3>2, <3>3, <3>4, <3>5, <3>6, <3>7
  <2>2. CASE ~orderly
    BY <1>2, <2>2, ConductFixed, StillPromise
  <2> QED
    BY <2>1, <2>2
<1>3. ASSUME Tell PROVE Spec => ImplementsRecorder
  <2>1. RecorderInv /\ RecorderInv' /\ [Next]_vars => [Promise!Next]_Promise!promises
    BY <1>2, <1>3
  <2> QED
    BY <1>1, <1>3, <2>1, RecorderInvariance, PTL DEF Spec, ImplementsRecorder, Promise!Spec
<1> QED
  BY <1>3

=============================================================================
