------------------------- MODULE RTLSDRMinderProofs -------------------------
(***************************************************************************)
(* Proofs about RTLSDRMinder for every stream rtl_tcp may send, every size *)
(* of its header, every way the stream may be cut, and every rate.         *)
(***************************************************************************)
EXTENDS RTLSDRMinder, TLAPS

\* The assumption without rates.
LEMMA Sizes ==
  /\ HdrSize \in Nat \ {0} /\ Segments \in Nat \ {0}
  /\ \A s \in Streams : Sent(s)
  /\ Reads \subseteq Nat \ {0}
BY RTLSDRAssumption, SMT

LEMMA RatesBounded == Rates \subseteq {r \in Nat : 0 < r /\ r <= 3200000}
BY RTLSDRAssumption, SMT

USE Sizes

\* The search for a rate: what has been tried is too slow or in the gap.
Search ==
  /\ rate \in Rates /\ hwRate \in Nat /\ tries \in Nat \ {0}
  /\ pc \in {"rate", "idle", "loop"}
  /\ hwRate >= rate
  /\ RateMinimal

Plain ==
  /\ stream \in Streams
  /\ pos \in Nat /\ segi \in Nat /\ bytesAvail \in Nat /\ sampleBytesCopied \in Nat
  /\ stampSum \in Int /\ numTSest \in Nat /\ first \in Int
  /\ pos + bytesAvail <= stream.start[Segments]

HeaderOf(k) == [size |-> stream.start[k + 1] - stream.start[k], ts |-> stream.ts[k]]

\* The stream has been taken apart up to byte segi of segment k.
At(k) ==
  /\ pos = stream.start[k] + segi
  /\ k = Segments => segi = 0
  /\ k < Segments => pos < stream.start[k + 1]
  /\ segi >= HdrSize => header = HeaderOf(k)

Placed == \E k \in 0..Segments : At(k)

(***************************************************************************)
(* The estimates of a call so far: none before the first header, one       *)
(* before the first sample, and then as StampBounds has it, in and between *)
(* calls to read.                                                          *)
(***************************************************************************)
Estimates ==
  IF sampleBytesCopied = 0
  THEN IF pc = "loop" /\ segi >= HdrSize THEN numTSest = 1 /\ stampSum = EntryEstimate
                                         ELSE numTSest = 0 /\ stampSum = 0
  ELSE /\ pc = "loop" /\ pos >= HdrSize + sampleBytesCopied
       /\ numTSest > 0
       /\ first <= LatestEstimate
       /\ stampSum >= numTSest * first
       /\ stampSum <= numTSest * LatestEstimate

IInv == Search /\ Plain /\ Placed /\ Estimates

-----------------------------------------------------------------------------
LEMMA StreamSent ==
  ASSUME stream \in Streams
  PROVE  /\ \A k \in 0..Segments : stream.start[k] \in Nat /\ stream.ts[k] \in Nat
         /\ stream.start[0] = 0
         /\ \A j, k \in 0..Segments : j < k => stream.start[k] > stream.start[j] + HdrSize
         /\ \A k \in 0..(Segments - 1) :
              stream.ts[k + 1] >= stream.ts[k] + stream.start[k + 1] - stream.start[k] - HdrSize
<1>1. Sent(stream)
  OBVIOUS
<1>2. /\ stream.start \in [0..Segments -> Nat]
      /\ stream.ts \in [0..Segments -> Nat]
  BY <1>1 DEF Sent
<1> QED
  BY <1>1, <1>2 DEF Sent

(***************************************************************************)
(* Segments do not overlap, so a place is in one segment.                  *)
(***************************************************************************)
LEMMA SegmentIs ==
  ASSUME stream \in Streams, NEW k \in 0..(Segments - 1), NEW p \in Int,
         stream.start[k] <= p, p < stream.start[k + 1]
  PROVE  SegmentOf(stream, p) = k
<1>1. ASSUME NEW j \in 0..(Segments - 1), stream.start[j] <= p, p < stream.start[j + 1]
      PROVE  j = k
  <2>1. CASE j < k
    <3>1. j + 1 \in 0..Segments /\ k \in 0..Segments /\ (j + 1 = k \/ j + 1 < k)
      BY <2>1
    <3> QED
      BY <1>1, <3>1, StreamSent
  <2>2. CASE k < j
    <3>1. k + 1 \in 0..Segments /\ j \in 0..Segments /\ (k + 1 = j \/ k + 1 < j)
      BY <2>2
    <3> QED
      BY <1>1, <3>1, StreamSent
  <2> QED
    BY <2>1, <2>2
<1> QED
  BY <1>1 DEF SegmentOf

LEMMA HeaderIs ==
  ASSUME stream \in Streams, NEW k \in 0..(Segments - 1)
  PROVE  HeaderAt(stream.start[k]) = HeaderOf(k)
<1>1. ASSUME NEW j \in 0..(Segments - 1), stream.start[j] = stream.start[k]
      PROVE  j = k
  <2>1. j \in 0..Segments /\ k \in 0..Segments
    OBVIOUS
  <2> QED
    BY <1>1, <2>1, StreamSent
<1> QED
  BY <1>1 DEF HeaderAt, HeaderOf

\* What At says of Framed and of the time of a sample.
LEMMA AtSegment ==
  ASSUME Plain, NEW k \in 0..Segments, At(k), pos < stream.start[Segments]
  PROVE  /\ k \in 0..(Segments - 1)
         /\ SegmentOf(stream, pos) = k
<1>1. k \in 0..(Segments - 1)
  BY StreamSent DEF Plain, At
<1>2. stream.start[k] \in Nat
  BY StreamSent DEF Plain
<1> QED
  BY <1>1, <1>2, SegmentIs DEF Plain, At

\* LatestEstimate by the segment.
Clock(k) ==
  IF segi >= HdrSize
  THEN stream.ts[k] + segi - HdrSize
  ELSE stream.ts[k - 1] + stream.start[k] - stream.start[k - 1] - HdrSize

LEMMA LatestIs ==
  ASSUME Plain, NEW k \in 0..Segments, At(k), segi < HdrSize => k > 0
  PROVE  LatestEstimate = Clock(k) - sampleBytesCopied
<1>1. CASE segi >= HdrSize
  BY <1>1 DEF LatestEstimate, Clock, At, HeaderOf
<1>2. CASE segi < HdrSize
  <2>1. k - 1 \in 0..(Segments - 1) /\ k - 1 \in 0..Segments /\ (k - 1) + 1 = k
    BY <1>2
  <2>2. /\ stream.start[k] \in Nat /\ stream.start[k - 1] \in Nat
        /\ stream.ts[k - 1] \in Nat
        /\ stream.start[k] > stream.start[k - 1] + HdrSize
    BY <2>1, StreamSent DEF Plain
  <2>3. pos - segi - 1 = stream.start[k] - 1
    BY <2>2 DEF At, Plain
  <2>4. SegmentOf(stream, pos - segi - 1) = k - 1
    BY <2>1, <2>2, <2>3, SegmentIs DEF Plain
  <2> QED
    BY <1>2, <2>2, <2>3, <2>4 DEF LatestEstimate, Clock, TimeAt, Plain
<1> QED
  BY <1>1, <1>2 DEF Plain

\* Once samples have been copied, there is a segment behind.
LEMMA SegmentBehind ==
  ASSUME Plain, Estimates, sampleBytesCopied > 0, NEW k \in 0..Segments, At(k),
         segi < HdrSize
  PROVE  k > 0
BY StreamSent DEF Plain, Estimates, At

-----------------------------------------------------------------------------
(***************************************************************************)
(* One more estimate, no earlier than first and no later than the latest.  *)
(***************************************************************************)
LEMMA Bounds ==
  ASSUME NEW n \in Nat, NEW s \in Int, NEW f \in Int, NEW old \in Int, NEW new \in Int,
         n * f <= s, s <= n * old, f <= old, old <= new
  PROVE  /\ (n + 1) * f <= s + new /\ s + new <= (n + 1) * new
         /\ s <= n * new
<1>1. (n + 1) * f = n * f + f
  OBVIOUS
<1>2. (n + 1) * new = n * new + new
  OBVIOUS
<1>3. n * old <= n * new
  OBVIOUS
<1> DEFINE a == n * f  b == n * old  c == n * new  d == (n + 1) * f  e == (n + 1) * new
<1>4. a \in Int /\ b \in Int /\ c \in Int /\ d \in Int /\ e \in Int
  OBVIOUS
<1> HIDE DEF a, b, c, d, e
<1>5. a <= s /\ s <= b /\ b <= c /\ d = a + f /\ e = c + new
  BY <1>1, <1>2, <1>3 DEF a, b, c, d, e
<1>6. d <= s + new /\ s + new <= e /\ s <= c
  BY <1>4, <1>5
<1> QED
  BY <1>6 DEF c, d, e

LEMMA InitInv == Init => IInv
<1> SUFFICES ASSUME Init PROVE IInv
  OBVIOUS
<1>1. Search
  BY RatesBounded, SMT DEF Init, Search, RateMinimal
<1>2. Plain
  BY StreamSent DEF Init, Plain
<1>3. At(0)
  <2>1. 0 \in 0..Segments /\ 1 \in 0..Segments
    OBVIOUS
  <2> QED
    BY <1>2, <2>1, StreamSent DEF Init, At
<1>4. Estimates
  BY DEF Init, Estimates
<1> QED
  BY <1>1, <1>2, <1>3, <1>4 DEF IInv, Placed

LEMMA TryRateInv == IInv /\ TryRate => IInv'
<1> SUFFICES ASSUME IInv, TryRate PROVE IInv'
  OBVIOUS
<1>1. Search'
  <2>1. rate \in Nat /\ rate > 0 /\ rate <= 3200000
    BY RatesBounded, SMT DEF IInv, Search
  <2>2. CASE Legal(hwRate)
    BY <2>2, SMT DEF IInv, Search, RateMinimal, TryRate
  <2>3. CASE ~Legal(hwRate)
    <3>1. hwRate' = hwRate + rate /\ tries' = tries + 1 /\ pc' = "rate" /\ pc = "rate"
          /\ rate' = rate
      BY <2>3 DEF TryRate, NextRate
    <3>2. hwRate + rate <= 3200000
      BY <2>1, <2>3, SMT DEF IInv, Search, RateMinimal, Legal
    <3>3. (tries + 1) * rate = tries * rate + rate
      BY <2>1 DEF IInv, Search
    <3>4. hwRate' = tries' * rate'
      BY <3>1, <3>3, SMT DEF IInv, Search, RateMinimal
    <3>5. ASSUME NEW m \in 1..(tries' - 1) PROVE ~Legal(m * rate')
      <4>1. m \in 1..(tries - 1) \/ m = tries
        BY <3>1 DEF IInv, Search
      <4> QED
        BY <2>3, <3>1, <4>1, SMT DEF IInv, Search, RateMinimal
    <3> QED
      BY <2>1, <3>1, <3>2, <3>4, <3>5, SMT DEF IInv, Search, RateMinimal
  <2> QED
    BY <2>2, <2>3
<1>2. UNCHANGED <<stream, frameVars>> /\ pc = "rate" /\ pc' \in {"rate", "idle"}
  BY DEF TryRate
<1>3. Plain' /\ Placed'
  BY <1>2 DEF IInv, Plain, Placed, At, HeaderOf, frameVars
<1>4. Estimates'
  BY <1>2 DEF IInv, Estimates, frameVars
<1> QED
  BY <1>1, <1>3, <1>4 DEF IInv

LEMMA SearchKept ==
  ASSUME IInv, UNCHANGED rates, pc # "rate", pc' \in {"idle", "loop"}
  PROVE  Search'
BY SMT DEF IInv, Search, RateMinimal, rates

LEMMA HandleEventsInv == ASSUME IInv, NEW n \in Reads, HandleEvents(n) PROVE IInv'
<1>1. Search'
  BY SearchKept DEF HandleEvents
<1>2. sampleBytesCopied = 0 /\ numTSest = 0 /\ stampSum = 0
  BY DEF IInv, Plain, Estimates, HandleEvents
<1>3. segi >= HdrSize => EntryEstimate \in Int
  <2>1. ASSUME NEW k \in 0..Segments, At(k), segi >= HdrSize PROVE header.ts \in Nat
    <3>1. k \in 0..Segments /\ header.ts = stream.ts[k]
      BY <2>1 DEF At, HeaderOf
    <3> QED
      BY <3>1, StreamSent DEF IInv, Plain
  <2> QED
    BY <2>1 DEF IInv, Placed, Plain, EntryEstimate
<1>4. Plain'
  BY <1>3 DEF IInv, Plain, HandleEvents, rates
<1>5. Placed'
  BY DEF IInv, Placed, At, HeaderOf, HandleEvents
<1>6. Estimates'
  BY <1>2 DEF IInv, Plain, Estimates, HandleEvents, EntryEstimate
<1> QED
  BY <1>1, <1>4, <1>5, <1>6 DEF IInv

-----------------------------------------------------------------------------
\* The time behind a segment, which LatestEstimate uses before the next header.
LEMMA TimeBehind ==
  ASSUME stream \in Streams, NEW k \in 0..(Segments - 1)
  PROVE  TimeAt(stream, stream.start[k + 1] - 1)
           = stream.ts[k] + stream.start[k + 1] - stream.start[k] - HdrSize - 1
<1>1. /\ k \in 0..Segments /\ k + 1 \in 0..Segments
      /\ stream.start[k] \in Nat /\ stream.start[k + 1] \in Nat /\ stream.ts[k] \in Nat
      /\ stream.start[k + 1] > stream.start[k] + HdrSize
  BY StreamSent
<1>2. SegmentOf(stream, stream.start[k + 1] - 1) = k
  BY <1>1, SegmentIs
<1> QED
  BY <1>1, <1>2 DEF TimeAt

\* While bytes are available, the next of them is in a segment.
LEMMA InSegment ==
  ASSUME IInv, bytesAvail > 0
  PROVE  \E k \in 0..(Segments - 1) :
           /\ At(k) /\ SegmentOf(stream, pos) = k
           /\ k \in 0..Segments /\ k + 1 \in 0..Segments
           /\ stream.start[k] \in Nat /\ stream.start[k + 1] \in Nat /\ stream.ts[k] \in Nat
           /\ stream.start[k + 1] > stream.start[k] + HdrSize
           /\ pos < stream.start[k + 1]
<1>1. PICK k \in 0..Segments : At(k)
  BY DEF IInv, Placed
<1>2. pos < stream.start[Segments]
  <2>1. stream.start[Segments] \in Nat
    BY StreamSent DEF IInv, Plain
  <2> QED
    BY <2>1 DEF IInv, Plain
<1>3. k \in 0..(Segments - 1) /\ SegmentOf(stream, pos) = k
  BY <1>1, <1>2, AtSegment DEF IInv
<1>4. k + 1 \in 0..Segments /\ k < k + 1
  BY <1>3
<1> QED
  BY <1>1, <1>3, <1>4, StreamSent DEF IInv, Plain, At

LEMMA ReadHeaderInv == ASSUME IInv, ReadHeader PROVE IInv'
<1>1. PICK k \in 0..(Segments - 1) :
           /\ At(k) /\ SegmentOf(stream, pos) = k
           /\ k \in 0..Segments /\ k + 1 \in 0..Segments
           /\ stream.start[k] \in Nat /\ stream.start[k + 1] \in Nat /\ stream.ts[k] \in Nat
           /\ stream.start[k + 1] > stream.start[k] + HdrSize
           /\ pos < stream.start[k + 1]
  BY InSegment DEF ReadHeader
<1> DEFINE n == HdrBytes
<1>2. n \in Nat /\ n > 0 /\ n <= bytesAvail /\ segi + n <= HdrSize /\ segi < HdrSize
  BY DEF IInv, Plain, ReadHeader, HdrBytes, MinOf
<1>3. /\ pos' = pos + n /\ segi' = segi + n /\ bytesAvail' = bytesAvail - n
      /\ UNCHANGED <<stream, pc, sampleBytesCopied, first>> /\ UNCHANGED rates /\ pc = "loop"
  BY DEF ReadHeader
<1> HIDE DEF n
<1>4. pos \in Nat /\ segi \in Nat /\ bytesAvail \in Nat /\ sampleBytesCopied \in Nat
      /\ stampSum \in Int /\ numTSest \in Nat /\ first \in Int /\ stream \in Streams
  BY DEF IInv, Plain
<1>5. Search'
  BY <1>3, SearchKept
<1>6. pos - segi = stream.start[k] /\ pos' - segi' = stream.start[k] /\ pos' < stream.start[k + 1]
  BY <1>1, <1>2, <1>3, <1>4 DEF At
<1>7. CASE segi' = HdrSize
  <2>1. /\ header' = HeaderOf(k)
        /\ stampSum' = stampSum + (stream.ts[k] - sampleBytesCopied)
        /\ numTSest' = numTSest + 1
    <3>1. /\ header' = HeaderAt(pos - segi)
          /\ stampSum' = stampSum + (header'.ts - sampleBytesCopied)
          /\ numTSest' = numTSest + 1
      BY <1>7 DEF ReadHeader, Estimate
    <3>2. header' = HeaderOf(k)
      BY <1>4, <1>6, <3>1, HeaderIs
    <3> QED
      BY <3>1, <3>2 DEF HeaderOf
  <2>2. Plain'
    BY <1>1, <1>2, <1>3, <1>4, <1>6, <1>7, <2>1 DEF IInv, Plain
  <2>3. At(k)'
    BY <1>1, <1>2, <1>3, <1>4, <1>6, <1>7, <2>1 DEF At, HeaderOf
  <2>4. ASSUME sampleBytesCopied = 0 PROVE Estimates'
    <3>1. numTSest = 0 /\ stampSum = 0
      BY <1>2, <1>4, <2>4 DEF IInv, Estimates
    <3>2. EntryEstimate' = stream.ts[k]
      BY <1>1, <1>7, <2>1 DEF EntryEstimate, HeaderOf
    <3>3. numTSest' = 1 /\ stampSum' = stream.ts[k]
      BY <1>1, <2>1, <2>4, <3>1
    <3> QED
      BY <1>3, <1>7, <2>4, <3>2, <3>3 DEF Estimates
  <2>5. ASSUME sampleBytesCopied > 0 PROVE Estimates'
    <3> DEFINE old == LatestEstimate
               new == stream.ts[k] - sampleBytesCopied
    <3>1. k > 0
      BY <1>1, <1>2, <2>5, SegmentBehind DEF IInv
    <3>2. old = Clock(k) - sampleBytesCopied
      BY <1>1, <3>1, LatestIs DEF IInv
    <3>3. k - 1 \in 0..(Segments - 1) /\ k - 1 \in 0..Segments /\ (k - 1) + 1 = k
      BY <3>1
    <3>4. Clock(k) \in Int /\ Clock(k) <= stream.ts[k]
      <4>1. /\ stream.start[k - 1] \in Nat /\ stream.ts[k - 1] \in Nat
            /\ stream.ts[k] >= stream.ts[k - 1] + stream.start[k] - stream.start[k - 1] - HdrSize
        BY <1>4, <3>3, StreamSent
      <4> QED
        BY <1>1, <1>2, <1>4, <4>1 DEF Clock
    <3>5. old \in Int /\ new \in Int /\ old <= new
      BY <1>1, <1>4, <3>2, <3>4
    <3>6. numTSest * first <= stampSum /\ stampSum <= numTSest * old /\ first <= old
      BY <1>4, <2>5 DEF IInv, Estimates
    <3>7. LatestEstimate' = new
      BY <1>1, <1>2, <1>3, <1>4, <1>7, <2>1 DEF LatestEstimate, HeaderOf
    <3> HIDE DEF old, new
    <3>8. (numTSest + 1) * first <= stampSum + new /\ stampSum + new <= (numTSest + 1) * new
      BY <1>4, <3>5, <3>6, Bounds
    <3>9. first <= new
      BY <1>4, <3>5, <3>6
    <3>10. stampSum' = stampSum + new
      BY <2>1 DEF new
    <3>11. (numTSest + 1) * first \in Int /\ (numTSest + 1) * new \in Int /\ stampSum + new \in Int
      BY <1>4, <3>5
    <3>12. /\ stampSum' >= numTSest' * first' /\ stampSum' <= numTSest' * LatestEstimate'
           /\ first' <= LatestEstimate'
      BY <1>3, <2>1, <3>7, <3>8, <3>9, <3>10, <3>11
    <3>13. pos' >= HdrSize + sampleBytesCopied'
      BY <1>2, <1>3, <1>4, <2>5 DEF IInv, Estimates
    <3>14. sampleBytesCopied' # 0 /\ pc' = "loop" /\ numTSest' > 0
      BY <1>3, <1>4, <2>1, <2>5
    <3> QED
      BY <3>12, <3>13, <3>14 DEF Estimates
  <2> QED
    BY <1>4, <1>5, <1>1, <2>2, <2>3, <2>4, <2>5 DEF IInv, Placed
<1>8. CASE segi' # HdrSize
  <2>1. header' = Torn /\ UNCHANGED <<stampSum, numTSest>> /\ segi' < HdrSize
    BY <1>2, <1>3, <1>4, <1>8 DEF ReadHeader
  <2>2. Plain'
    BY <1>1, <1>2, <1>3, <1>4, <1>6, <2>1 DEF IInv, Plain
  <2>3. At(k)'
    BY <1>1, <1>2, <1>3, <1>4, <1>6, <2>1 DEF At
  <2>4. LatestEstimate' = LatestEstimate
    BY <1>2, <1>3, <1>4, <1>6, <2>1 DEF LatestEstimate
  <2>5. Estimates'
    BY <1>2, <1>3, <1>4, <2>1, <2>4 DEF IInv, Estimates
  <2> QED
    BY <1>1, <1>5, <2>2, <2>3, <2>5 DEF IInv, Placed
<1> QED
  BY <1>7, <1>8

LEMMA ReadDataInv == ASSUME IInv, ReadData PROVE IInv'
<1>1. PICK k \in 0..(Segments - 1) :
           /\ At(k) /\ SegmentOf(stream, pos) = k
           /\ k \in 0..Segments /\ k + 1 \in 0..Segments
           /\ stream.start[k] \in Nat /\ stream.start[k + 1] \in Nat /\ stream.ts[k] \in Nat
           /\ stream.start[k + 1] > stream.start[k] + HdrSize
           /\ pos < stream.start[k + 1]
  BY InSegment DEF ReadData
<1>2. pos \in Nat /\ segi \in Nat /\ bytesAvail \in Nat /\ sampleBytesCopied \in Nat
      /\ stampSum \in Int /\ numTSest \in Nat /\ first \in Int /\ stream \in Streams
  BY DEF IInv, Plain
<1>3. segi >= HdrSize
  BY <1>2 DEF ReadData, HdrBytes, MinOf
<1>4. pos = stream.start[k] + segi /\ header = HeaderOf(k)
  BY <1>1, <1>3 DEF At
<1> DEFINE n == DataBytes
<1>5. /\ n \in Nat /\ n > 0 /\ n <= bytesAvail
      /\ segi + n <= stream.start[k + 1] - stream.start[k]
  BY <1>1, <1>2, <1>4 DEF ReadData, DataBytes, MinOf, HeaderOf
<1>6. /\ pos' = pos + n /\ bytesAvail' = bytesAvail - n
      /\ sampleBytesCopied' = sampleBytesCopied + n
      /\ segi' = IF segi + n = stream.start[k + 1] - stream.start[k] THEN 0 ELSE segi + n
      /\ first' = IF sampleBytesCopied = 0 THEN TimeAt(stream, pos) ELSE first
      /\ UNCHANGED <<stream, pc, header, stampSum, numTSest>> /\ UNCHANGED rates /\ pc = "loop"
  BY <1>4 DEF ReadData, HeaderOf
<1> HIDE DEF n
<1>7. Search'
  BY <1>6, SearchKept
<1> DEFINE now == stream.ts[k] + segi - HdrSize
<1>8. now \in Int /\ TimeAt(stream, pos) = now
  BY <1>1, <1>2, <1>4 DEF TimeAt
<1>9. LatestEstimate = now - sampleBytesCopied
  BY <1>3, <1>4 DEF LatestEstimate, HeaderOf
<1>10. /\ LatestEstimate' = now - sampleBytesCopied
       /\ Placed' /\ segi' \in Nat
  <2>1. CASE segi + n = stream.start[k + 1] - stream.start[k]
    <3>1. segi' = 0 /\ pos' = stream.start[k + 1]
      BY <1>1, <1>2, <1>4, <1>5, <1>6, <2>1
    <3>2. pos' - segi' - 1 = stream.start[k + 1] - 1 /\ ~(segi' >= HdrSize)
      BY <1>1, <3>1
    <3>3. LatestEstimate' = now - sampleBytesCopied
      <4> DEFINE t == stream.ts[k] + stream.start[k + 1] - stream.start[k] - HdrSize - 1
      <4>1. t \in Int /\ now = t + 1 - n
        BY <1>1, <1>2, <1>5, <2>1
      <4>2. TimeAt(stream', pos' - segi' - 1) = t
        BY <1>2, <1>6, <3>2, TimeBehind
      <4> HIDE DEF t
      <4>3. LatestEstimate' = t + 1 - sampleBytesCopied'
        BY <1>2, <1>5, <1>6, <3>1, <3>2, <4>1, <4>2 DEF LatestEstimate
      <4> QED
        BY <1>2, <1>5, <1>6, <1>8, <4>1, <4>3
    <3>4. k + 1 < Segments => stream.start[k + 1] < stream.start[k + 2]
      <4> SUFFICES ASSUME k + 1 < Segments PROVE stream.start[k + 1] < stream.start[k + 2]
        OBVIOUS
      <4>1. k + 2 \in 0..Segments /\ k + 1 < k + 2
        OBVIOUS
      <4>2. stream.start[k + 2] \in Nat /\ stream.start[k + 2] > stream.start[k + 1] + HdrSize
        BY <1>1, <1>2, <4>1, StreamSent
      <4> QED
        BY <1>1, <4>2
    <3>5. At(k + 1)'
      BY <1>1, <1>2, <1>6, <3>1, <3>4 DEF At
    <3> QED
      BY <1>1, <3>1, <3>3, <3>5 DEF Placed
  <2>2. CASE segi + n # stream.start[k + 1] - stream.start[k]
    <3>1. segi' = segi + n /\ pos' < stream.start[k + 1]
      BY <1>1, <1>2, <1>4, <1>5, <1>6, <2>2
    <3>2. LatestEstimate' = now - sampleBytesCopied
      BY <1>1, <1>2, <1>3, <1>4, <1>5, <1>6, <3>1 DEF LatestEstimate, HeaderOf
    <3>3. At(k)'
      BY <1>1, <1>2, <1>4, <1>5, <1>6, <3>1 DEF At, HeaderOf
    <3> QED
      BY <1>1, <1>2, <1>5, <3>1, <3>2, <3>3 DEF Placed
  <2> QED
    BY <2>1, <2>2
<1>11. first' \in Int
  BY <1>2, <1>6, <1>8
<1>12. Plain'
  BY <1>2, <1>5, <1>6, <1>10, <1>11 DEF IInv, Plain
<1>13. pos' >= HdrSize + sampleBytesCopied'
  <2>1. CASE sampleBytesCopied = 0
    BY <1>1, <1>2, <1>3, <1>4, <1>6, <1>5, <2>1
  <2>2. CASE sampleBytesCopied > 0
    BY <1>2, <1>5, <1>6, <2>2 DEF IInv, Estimates
  <2> QED
    BY <1>2, <2>1, <2>2
<1>14. /\ numTSest > 0 /\ first' <= now - sampleBytesCopied
       /\ stampSum >= numTSest * first' /\ stampSum <= numTSest * (now - sampleBytesCopied)
  <2>1. CASE sampleBytesCopied = 0
    <3>1. numTSest = 1 /\ stampSum = now /\ first' = now
      BY <1>3, <1>4, <1>6, <1>8, <2>1 DEF IInv, Estimates, EntryEstimate, HeaderOf
    <3> QED
      BY <1>8, <2>1, <3>1
  <2>2. CASE sampleBytesCopied > 0
    BY <1>2, <1>6, <1>9, <2>2 DEF IInv, Estimates
  <2> QED
    BY <1>2, <2>1, <2>2
<1>15. Estimates'
  <2>1. sampleBytesCopied' # 0
    BY <1>2, <1>5, <1>6
  <2> QED
    BY <1>6, <1>10, <1>13, <1>14, <2>1 DEF Estimates
<1> QED
  BY <1>7, <1>10, <1>12, <1>15 DEF IInv

LEMMA ReturnInv == ASSUME IInv, Return PROVE IInv'
<1>1. Search'
  BY SearchKept DEF Return
<1>2. Plain'
  BY DEF IInv, Plain, Return
<1>3. Placed'
  BY DEF IInv, Placed, At, HeaderOf, Return
<1>4. Estimates'
  BY DEF Estimates, Return
<1> QED
  BY <1>1, <1>2, <1>3, <1>4 DEF IInv

LEMMA Invariance == Spec => []IInv
<1>1. IInv /\ [Next]_vars => IInv'
  <2>1. IInv /\ Next => IInv'
    BY TryRateInv, HandleEventsInv, ReadHeaderInv, ReadDataInv, ReturnInv DEF Next
  <2>2. IInv /\ UNCHANGED vars => IInv'
    <3> SUFFICES ASSUME IInv, UNCHANGED vars PROVE IInv'
      OBVIOUS
    <3>1. Search'
      BY SMT DEF IInv, Search, RateMinimal, vars, rates
    <3> QED
      BY <3>1 DEF IInv, Plain, Placed, At, HeaderOf, Estimates, EntryEstimate,
                  LatestEstimate, vars, frameVars
  <2> QED
    BY <2>1, <2>2
<1> QED
  BY <1>1, InitInv, PTL DEF Spec

-----------------------------------------------------------------------------
(***************************************************************************)
(* getHWRateForRate finds the least multiple of the rate asked for that    *)
(* the hardware can do, and never goes beyond what it can do.              *)
(***************************************************************************)
THEOREM RateIsMinimal == Spec => []RateMinimal
<1>1. IInv => RateMinimal
  BY DEF IInv, Search
<1> QED
  BY <1>1, Invariance, PTL

(***************************************************************************)
(* hw_getFrames knows where it is in the stream of rtl_tcp, however it is  *)
(* cut.                                                                    *)
(***************************************************************************)
THEOREM StreamFramed == Spec => []Framed
<1>1. IInv => Framed
  <2> SUFFICES ASSUME IInv, pos < stream.start[Segments]
               PROVE  /\ segi = pos - stream.start[SegmentOf(stream, pos)]
                      /\ segi >= HdrSize => header = HeaderAt(stream.start[SegmentOf(stream, pos)])
    BY DEF Framed
  <2>1. PICK k \in 0..Segments : At(k)
    BY DEF IInv, Placed
  <2>2. k \in 0..(Segments - 1) /\ SegmentOf(stream, pos) = k
    BY <2>1, AtSegment DEF IInv
  <2>3. stream.start[k] \in Nat
    BY StreamSent DEF IInv, Plain
  <2> QED
    BY <2>1, <2>2, <2>3, HeaderIs DEF IInv, Plain, At
<1> QED
  BY <1>1, Invariance, PTL

(***************************************************************************)
(* The timestamp of a call is between the time of its first sample and     *)
(* that time and what was lost during the call.                            *)
(***************************************************************************)
THEOREM StampsBounded == Spec => []StampBounds
<1>1. IInv => StampBounds
  BY DEF IInv, Plain, Estimates, StampBounds
<1> QED
  BY <1>1, Invariance, PTL

=============================================================================
