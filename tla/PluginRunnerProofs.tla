------------------------- MODULE PluginRunnerProofs -------------------------
(***************************************************************************)
(* Proofs about PluginRunner for every block and step size a plugin may    *)
(* prefer and every way the device may cut its stream into calls, and      *)
(* about the program it descends from, VampHost, for every command line.   *)
(***************************************************************************)
EXTENDS MCPluginRunner, SequenceTheorems, TLAPS

USE PluginRunnerAssumption

\* Every frame is in exactly one place: handed over, in the buffer or still to come.
Counts ==
  /\ totalFrames = blocks * stepSize + framesInPlugBuf
  /\ totalFrames + avail = Len(times)
  /\ avail <= chunk /\ chunk <= Len(times)
  /\ blocks > 0 => framesInPlugBuf >= blockSize - stepSize

\* On a stereo device the buffer starts with the frame the next window starts with.
Content ==
  numChan = 2 =>
    /\ \A i \in 0..(framesInPlugBuf - 1) : plugbuf[i] = blocks * stepSize + i + 1
    /\ BlockIsWindow

\* frameTimestamp, counted on from the start of the buffer, is the time of
\* every frame still to be copied; time never runs slower than the frames.
Clock ==
  /\ \A j \in 0..(avail - 1) :
       times[totalFrames + 1 + j] = frameTimestamp + framesInPlugBuf + j
  /\ \A i, j \in 1..Len(times) : i <= j => times[j] - times[i] >= j - i
  /\ block.stamp \in Int
  /\ StampOfNewest

Inv == TypeOK /\ Counts /\ Clock

-----------------------------------------------------------------------------
(***************************************************************************)
(* The sizes loadPlugin settles on make progress possible: the step is at  *)
(* least one frame and at most a block.                                    *)
(***************************************************************************)
LEMMA SizesSound ==
  ASSUME NEW pref \in Preferred
  PROVE  /\ BlockFor(pref) \in Nat \ {0}
         /\ StepFor(pref) \in 1..BlockFor(pref)
BY DEF BlockFor, StepFor, BlockWanted

LEMMA InitInv == Init => Inv /\ Content
<1> SUFFICES ASSUME Init PROVE Inv /\ Content
  OBVIOUS
<1>1. blockSize \in Nat \ {0} /\ stepSize \in 1..blockSize
  BY SizesSound DEF Init
<1>2. TypeOK
  BY <1>1 DEF Init, TypeOK
<1>3. blocks * stepSize = 0
  BY <1>1 DEF Init
<1>4. Counts /\ Content
  BY <1>1, <1>3 DEF Init, Counts, Content, BlockIsWindow
<1>5. Clock
  BY DEF Init, Clock, StampOfNewest
<1> QED
  BY <1>2, <1>4, <1>5 DEF Inv

\* What an iteration copies: at least one frame, and no more than there is room for.
LEMMA CopyBounds ==
  ASSUME TypeOK, avail > 0
  PROVE  /\ ToCopy \in 1..avail
         /\ framesInPlugBuf + ToCopy <= blockSize
         /\ framesInPlugBuf + ToCopy # blockSize => ToCopy = avail
BY DEF TypeOK, ToCopy

\* The windows of consecutive blocks start a step apart.
LEMMA NextWindow ==
  ASSUME TypeOK
  PROVE  /\ blocks * stepSize \in Nat
         /\ (blocks + 1) * stepSize = blocks * stepSize + stepSize
         /\ blocks > 0 => (blocks - 1) * stepSize = blocks * stepSize - stepSize
BY DEF TypeOK

\* Frames before and after a gap are at least as far apart in time as in number.
LEMMA GapBetween ==
  ASSUME NEW tOld \in Nat, NEW tLast \in Nat, NEW gap \in Nat,
         NEW i \in Nat, NEW len \in Nat, NEW j \in Nat,
         tLast - tOld >= len - i
  PROVE  ((tLast + 1 + gap) + (j - len) - 1) - tOld >= j - i
OBVIOUS

LEMMA HandleDataInv ==
  ASSUME Inv, NEW n \in 1..MaxFrames, NEW gap \in Gaps, HandleData(n, gap)
  PROVE  Inv'
<1> DEFINE ts == IF times = <<>> THEN gap ELSE times[Len(times)] + 1 + gap
<1> USE DEF Inv
<1>1. times \in Seq(Nat) /\ Len(times) \in Nat /\ gap \in Nat /\ n \in Nat /\ n > 0
  BY DEF TypeOK
<1>2. ts \in Nat
  <2>1. CASE times = <<>>
    BY <1>1, <2>1
  <2>2. CASE times # <<>>
    <3>1. Len(times) \in 1..Len(times)
      BY <1>1, <2>2, EmptySeq
    <3>2. times[Len(times)] \in Nat
      BY <1>1, <3>1, ElementOfSeq
    <3> QED
      BY <1>1, <2>2, <3>2
  <2> QED
    BY <2>1, <2>2
<1> DEFINE new == [i \in 1..n |-> ts + i - 1]
<1>3. new \in Seq(Nat) /\ Len(new) = n
  <2>1. \A i \in 1..n : ts + i - 1 \in Nat
    BY <1>1, <1>2
  <2> QED
    BY <1>1, <2>1
<1>4. /\ avail = 0 /\ avail' = n /\ chunk' = n /\ times' = times \o new
      /\ frameTimestamp' = ts - framesInPlugBuf
      /\ UNCHANGED <<sizes, plugbuf, framesInPlugBuf, totalFrames, blocks, block, alive>>
  BY DEF HandleData, EntryStamp
<1> HIDE DEF ts
<1>5. /\ times' \in Seq(Nat) /\ Len(times') = Len(times) + n
      /\ \A i \in 1..Len(times) : times'[i] = times[i]
      /\ \A i \in 1..n : times'[Len(times) + i] = ts + i - 1
  BY <1>1, <1>3, <1>4, ConcatProperties
<1> HIDE DEF new
<1>6. TypeOK'
  BY <1>1, <1>2, <1>4, <1>5 DEF TypeOK, sizes
<1>7. Counts'
  <2>1. blocks' * stepSize' = blocks * stepSize
    BY <1>4 DEF sizes
  <2>2. blocks' > 0 => framesInPlugBuf' >= blockSize' - stepSize'
    BY <1>4 DEF Counts, sizes
  <2>3. totalFrames' + avail' = Len(times') /\ avail' <= chunk' /\ chunk' <= Len(times')
    <3>1. avail' = n /\ chunk' = n /\ totalFrames' = totalFrames /\ avail = 0
      BY <1>4
    <3>2. totalFrames = Len(times)
      BY <3>1 DEF Counts, TypeOK
    <3> QED
      BY <1>1, <1>5, <3>1, <3>2
  <2>4. totalFrames' = blocks' * stepSize' + framesInPlugBuf'
    BY <1>4, <2>1 DEF Counts
  <2> QED
    BY <2>2, <2>3, <2>4 DEF Counts
<1>8. totalFrames = Len(times) /\ framesInPlugBuf \in Nat
  BY <1>4 DEF Counts, TypeOK
<1>9. \A j \in 0..(avail' - 1) :
        times'[totalFrames' + 1 + j] = frameTimestamp' + framesInPlugBuf' + j
  <2> SUFFICES ASSUME NEW j \in 0..(n - 1)
               PROVE  times'[Len(times) + 1 + j] = (ts - framesInPlugBuf) + framesInPlugBuf + j
    BY <1>4, <1>8
  <2>1. j + 1 \in 1..n /\ Len(times) + 1 + j = Len(times) + (j + 1)
    BY <1>1
  <2>2. times'[Len(times) + (j + 1)] = ts + (j + 1) - 1
    BY <1>5, <2>1
  <2> QED
    BY <1>2, <1>8, <2>1, <2>2
<1>10. \A i, j \in 1..Len(times') : i <= j => times'[j] - times'[i] >= j - i
  <2> SUFFICES ASSUME NEW i \in 1..(Len(times) + n), NEW j \in 1..(Len(times) + n), i <= j
               PROVE  times'[j] - times'[i] >= j - i
    BY <1>5
  <2>1. \A k \in 1..Len(times) : times[k] \in Nat
    BY <1>1, ElementOfSeq
  <2>2. CASE j <= Len(times)
    <3>1. i \in 1..Len(times) /\ j \in 1..Len(times)
      BY <1>1, <2>2
    <3>2. times[j] - times[i] >= j - i
      BY <3>1 DEF Clock
    <3> QED
      BY <1>5, <3>1, <3>2
  <2>3. CASE i > Len(times)
    <3>1. i - Len(times) \in 1..n /\ j - Len(times) \in 1..n
      BY <1>1, <2>3
    <3>2. times'[i] = ts + (i - Len(times)) - 1 /\ times'[j] = ts + (j - Len(times)) - 1
      <4>1. i = Len(times) + (i - Len(times)) /\ j = Len(times) + (j - Len(times))
        BY <1>1
      <4> QED
        BY <1>5, <3>1, <4>1
    <3> QED
      BY <1>1, <1>2, <3>2
  <2>4. CASE i <= Len(times) /\ j > Len(times)
    <3>1. j - Len(times) \in 1..n /\ Len(times) \in 1..Len(times) /\ i \in 1..Len(times)
      BY <1>1, <2>4
    <3>2. times'[j] = ts + (j - Len(times)) - 1 /\ times'[i] = times[i]
      <4>1. j = Len(times) + (j - Len(times))
        BY <1>1
      <4> QED
        BY <1>5, <3>1, <4>1
    <3>3. ts = times[Len(times)] + 1 + gap
      BY <1>1, <3>1, EmptySeq DEF ts
    <3>4. times[Len(times)] - times[i] >= Len(times) - i
      BY <2>4, <3>1 DEF Clock
    <3> QED
      <4>1. times[i] \in Nat /\ times[Len(times)] \in Nat
        BY <2>1, <3>1
      <4>2. i \in Nat /\ j \in Nat
        BY <1>1
      <4>3. ((times[Len(times)] + 1 + gap) + (j - Len(times)) - 1) - times[i] >= j - i
        BY <1>1, <3>4, <4>1, <4>2, GapBetween
      <4> QED
        BY <3>2, <3>3, <4>3
  <2> QED
    BY <1>1, <2>2, <2>3, <2>4
<1>11. StampOfNewest'
  <2>1. blocks > 0 => (blocks - 1) * stepSize + blockSize \in 1..Len(times)
    <3> DEFINE q == blocks * stepSize
    <3>1. q \in Nat /\ (blocks > 0 => (blocks - 1) * stepSize = q - stepSize)
      BY NextWindow
    <3>2. /\ Len(times) = q + framesInPlugBuf
          /\ blocks > 0 => framesInPlugBuf >= blockSize - stepSize
      BY <1>8 DEF Counts
    <3>3. blocks > 0 => q >= stepSize
      BY DEF TypeOK
    <3> HIDE DEF q
    <3> QED
      BY <1>1, <1>8, <3>1, <3>2, <3>3 DEF TypeOK
  <2> QED
    BY <1>4, <1>5, <2>1 DEF Clock, StampOfNewest, sizes
<1>12. Clock'
  BY <1>4, <1>9, <1>10, <1>11 DEF Clock
<1> QED
  BY <1>6, <1>7, <1>12

\* Filled reads samples of the current call only.
LEMMA FilledType ==
  ASSUME TypeOK, Counts, NEW n \in 1..avail
  PROVE  Filled(n) \in [0..(blockSize - 1) -> Nat]
<1>1. \A k \in Nat : Seen(k) \in Nat
  <2>1. Len(times) \in Nat
    BY DEF TypeOK
  <2> QED
    BY <2>1 DEF Seen, TypeOK, Counts
<1>2. \A i \in framesInPlugBuf..(framesInPlugBuf + n - 1) : chunk - avail + i - framesInPlugBuf \in Nat
  BY DEF Counts, TypeOK
<1> QED
  BY <1>1, <1>2 DEF Filled, TypeOK

LEMMA CopyPartInv ==
  ASSUME Inv, CopyPart
  PROVE  Inv'
<1> USE DEF Inv
<1>1. /\ ToCopy = avail /\ ToCopy \in 1..avail /\ avail \in Nat
      /\ framesInPlugBuf + ToCopy < blockSize
  BY CopyBounds DEF CopyPart, TypeOK
<1>2. /\ plugbuf' = Filled(ToCopy) /\ framesInPlugBuf' = framesInPlugBuf + avail
      /\ totalFrames' = totalFrames + avail /\ avail' = 0
      /\ blockSize' = blockSize /\ stepSize' = stepSize
      /\ UNCHANGED <<numChan, chunk, frameTimestamp, times, blocks, block, alive>>
  BY <1>1 DEF CopyPart, sizes, TypeOK
<1>3. Filled(ToCopy) \in [0..(blockSize - 1) -> Nat]
  BY <1>1, FilledType
<1>4. TypeOK'
  BY <1>1, <1>2, <1>3 DEF TypeOK
<1>5. Counts'
  <2>1. blocks' * stepSize' = blocks * stepSize /\ blocks * stepSize \in Nat
    BY <1>2, NextWindow
  <2> QED
    BY <1>1, <1>2, <2>1 DEF Counts, TypeOK
<1>6. Clock'
  BY <1>2 DEF Clock, StampOfNewest
<1> QED
  BY <1>4, <1>5, <1>6

LEMMA ProcessInv ==
  ASSUME Inv, Process
  PROVE  Inv'
<1> USE DEF Inv
<1>1. /\ ToCopy \in 1..avail /\ avail \in Nat /\ ToCopy \in Nat
      /\ framesInPlugBuf + ToCopy = blockSize
  BY CopyBounds DEF Process, TypeOK
<1>2. /\ blockSize' = blockSize /\ stepSize' = stepSize
      /\ block' = [frames |-> Filled(ToCopy), stamp |-> frameTimestamp]
      /\ blocks' = blocks + 1
      /\ framesInPlugBuf' = blockSize - stepSize
      /\ frameTimestamp' = frameTimestamp + stepSize
      /\ totalFrames' = totalFrames + ToCopy
      /\ avail' = avail - ToCopy
      /\ UNCHANGED <<numChan, chunk, times, alive>>
  BY DEF Process, sizes, Kept, NextStamp, TypeOK
<1>3. plugbuf' \in [0..(blockSize - 1) -> Nat]
  <2>1. Filled(ToCopy) \in [0..(blockSize - 1) -> Nat]
    BY <1>1, FilledType
  <2>2. stepSize < blockSize => Shifted(Filled(ToCopy)) \in [0..(blockSize - 1) -> Nat]
    <3>1. \A i \in 0..(blockSize - 1) : i < blockSize - stepSize => i + stepSize \in 0..(blockSize - 1)
      BY DEF TypeOK
    <3> HIDE DEF Inv
    <3> QED
      BY <2>1, <3>1 DEF Shifted
  <2> QED
    BY <2>1, <2>2 DEF Process
<1>4. TypeOK'
  BY <1>1, <1>2, <1>3 DEF TypeOK
<1> DEFINE q == blocks * stepSize
<1>5. /\ q \in Nat /\ blocks' * stepSize' = q + stepSize
      /\ (blocks' - 1) * stepSize' = q
  <2>1. blocks' - 1 = blocks
    BY <1>2 DEF TypeOK
  <2> QED
    BY <1>2, <2>1, NextWindow
<1>6. /\ totalFrames = q + framesInPlugBuf /\ totalFrames + avail = Len(times)
      /\ avail <= chunk /\ chunk <= Len(times)
  BY DEF Counts
<1> HIDE DEF q
<1>7. Counts'
  <2>1. /\ blockSize \in Nat /\ stepSize \in Nat /\ framesInPlugBuf \in Nat
        /\ totalFrames \in Nat /\ chunk \in Nat /\ Len(times) \in Nat
    BY <1>6 DEF TypeOK
  <2> HIDE DEF Inv
  <2>2. totalFrames' = blocks' * stepSize' + framesInPlugBuf'
    <3> DEFINE r == blocks' * stepSize'
    <3>1. r = q + stepSize /\ q \in Nat
      BY <1>5
    <3>2. totalFrames' = q + framesInPlugBuf + ToCopy
      BY <1>1, <1>2, <1>5, <1>6, <2>1
    <3> HIDE DEF r
    <3>3. totalFrames' = r + framesInPlugBuf'
      BY <1>1, <1>2, <2>1, <3>1, <3>2
    <3> QED
      BY <3>3 DEF r
  <2>3. totalFrames' + avail' = Len(times') /\ avail' <= chunk' /\ chunk' <= Len(times')
    BY <1>1, <1>2, <1>6, <2>1
  <2>4. framesInPlugBuf' >= blockSize' - stepSize'
    BY <1>2, <2>1
  <2> QED
    BY <2>2, <2>3, <2>4 DEF Counts
<1>8. \A j \in 0..(avail' - 1) :
        times'[totalFrames' + 1 + j] = frameTimestamp' + framesInPlugBuf' + j
  <2> SUFFICES ASSUME NEW j \in 0..(avail - ToCopy - 1)
               PROVE  times[totalFrames + ToCopy + 1 + j]
                        = frameTimestamp + stepSize + (blockSize - stepSize) + j
    BY <1>2
  <2>1. ToCopy + j \in 0..(avail - 1)
    BY <1>1
  <2>2. times[totalFrames + 1 + (ToCopy + j)] = frameTimestamp + framesInPlugBuf + (ToCopy + j)
    BY <2>1 DEF Clock
  <2>3. totalFrames + ToCopy + 1 + j = totalFrames + 1 + (ToCopy + j)
    BY <1>1 DEF TypeOK
  <2>4. frameTimestamp + framesInPlugBuf + (ToCopy + j)
          = frameTimestamp + stepSize + (blockSize - stepSize) + j
    BY <1>1 DEF TypeOK
  <2> QED
    BY <2>2, <2>3, <2>4
<1>9. StampOfNewest'
  <2>1. ToCopy - 1 \in 0..(avail - 1)
    BY <1>1
  <2>2. times[totalFrames + 1 + (ToCopy - 1)] = frameTimestamp + framesInPlugBuf + (ToCopy - 1)
    BY <2>1 DEF Clock
  <2>3. totalFrames + 1 + (ToCopy - 1) = q + blockSize
    BY <1>1, <1>5, <1>6 DEF TypeOK
  <2>4. times[q + blockSize] = frameTimestamp + blockSize - 1
    BY <1>1, <2>2, <2>3 DEF TypeOK
  <2> QED
    BY <1>2, <1>5, <2>4 DEF StampOfNewest
<1>10. Clock'
  BY <1>2, <1>8, <1>9 DEF Clock, TypeOK
<1> QED
  BY <1>4, <1>7, <1>10

LEMMA NextInv == Inv /\ [Next]_vars => Inv'
<1> SUFFICES ASSUME Inv, [Next]_vars PROVE Inv'
  OBVIOUS
<1>1. CASE UNCHANGED vars
  BY <1>1 DEF vars, sizes, Inv, TypeOK, Counts, Clock, StampOfNewest
<1>2. CASE Crash
  BY <1>2 DEF Crash, sizes, Inv, TypeOK, Counts, Clock, StampOfNewest
<1> QED
  BY <1>1, <1>2, HandleDataInv, CopyPartInv, ProcessInv DEF Next

-----------------------------------------------------------------------------
(***************************************************************************)
(* The loop of handleData never runs past the end of a plugin buffer.      *)
(***************************************************************************)
THEOREM BuffersKept == Spec => []TypeOK
<1>1. Inv => TypeOK
  BY DEF Inv
<1> QED
  BY <1>1, InitInv, NextInv, PTL DEF Spec

(***************************************************************************)
(* Every block carries the time of its newest frame (less its length, in   *)
(* frameTimestamp), however the stream is cut.                             *)
(***************************************************************************)
THEOREM BlocksStamped == Spec => []StampOfNewest
<1>1. Inv => StampOfNewest
  BY DEF Inv, Clock
<1> QED
  BY <1>1, InitInv, NextInv, PTL DEF Spec

(***************************************************************************)
(* When a call of handleData returns, every complete window has been       *)
(* handed over, and no other.                                              *)
(***************************************************************************)
THEOREM WindowsHandedOver == Spec => []NothingWithheld
<1>1. Inv => NothingWithheld
  <2> SUFFICES ASSUME Inv PROVE NothingWithheld
    OBVIOUS
  <2> DEFINE q == blocks * stepSize
  <2>1. q \in Nat /\ (blocks > 0 => (blocks - 1) * stepSize = q - stepSize)
    BY NextWindow DEF Inv
  <2>2. totalFrames = q + framesInPlugBuf /\ (blocks > 0 => framesInPlugBuf >= blockSize - stepSize)
    BY DEF Inv, Counts
  <2> HIDE DEF q
  <2>3. q + blockSize > totalFrames
    BY <2>1, <2>2 DEF Inv, TypeOK
  <2>4. blocks > 0 => (blocks - 1) * stepSize + blockSize <= totalFrames
    BY <2>1, <2>2 DEF Inv, TypeOK
  <2> QED
    BY <2>3, <2>4 DEF NothingWithheld, q
<1> QED
  BY <1>1, InitInv, NextInv, PTL DEF Spec

(***************************************************************************)
(* Time advances from block to block by a step at least.                   *)
(***************************************************************************)
THEOREM StampsForward == Spec => StampsAdvance
<1>1. Inv /\ [Next]_vars =>
        [blocks' > blocks /\ blocks > 0 => block'.stamp >= block.stamp + stepSize]_vars
  <2> SUFFICES ASSUME Inv, [Next]_vars, blocks' > blocks, blocks > 0
               PROVE  block'.stamp >= block.stamp + stepSize
    OBVIOUS
  <2>1. Process
    BY DEF Next, HandleData, CopyPart, Crash, vars, Inv, TypeOK
  <2>2. Inv'
    BY NextInv
  <2>3. blocks' = blocks + 1 /\ blockSize' = blockSize /\ stepSize' = stepSize /\ times' = times
    BY <2>1 DEF Process, sizes
  <2> DEFINE q == (blocks - 1) * stepSize
  <2>4. q \in Nat /\ blocks * stepSize = q + stepSize
    BY NextWindow DEF Inv, TypeOK
  <2>5. blocks' - 1 = blocks
    BY <2>3 DEF Inv, TypeOK
  <2>6. block.stamp + blockSize - 1 = times[q + blockSize]
    BY DEF Inv, Clock, StampOfNewest
  <2>7. block'.stamp + blockSize - 1 = times[(q + stepSize) + blockSize]
    <3>1. block'.stamp + blockSize - 1 = times[blocks * stepSize + blockSize]
      BY <2>2, <2>3, <2>5 DEF Inv, Clock, StampOfNewest, TypeOK
    <3> QED
      BY <2>4, <3>1
  <2>8. (q + stepSize) + blockSize <= Len(times)
    <3>1. totalFrames' = blocks' * stepSize' + framesInPlugBuf'
      BY <2>2 DEF Inv, Counts
    <3>2. blocks' * stepSize' = (blocks * stepSize) + stepSize
      BY <2>3, NextWindow DEF Inv
    <3>3. totalFrames' + avail' = Len(times)
      BY <2>2, <2>3 DEF Inv, Counts
    <3>4. framesInPlugBuf' >= blockSize - stepSize
      BY <2>2, <2>3 DEF Inv, Counts, TypeOK
    <3>5. totalFrames' \in Nat /\ framesInPlugBuf' \in Nat /\ avail' \in Nat
      BY <2>2 DEF Inv, TypeOK
    <3> QED
      BY <2>4, <3>1, <3>2, <3>3, <3>4, <3>5 DEF Inv, TypeOK
  <2> HIDE DEF q
  <2>9. /\ q + blockSize \in 1..Len(times)
        /\ (q + stepSize) + blockSize \in 1..Len(times)
        /\ q + blockSize <= (q + stepSize) + blockSize
    BY <2>4, <2>8 DEF Inv, TypeOK
  <2>10. times[(q + stepSize) + blockSize] - times[q + blockSize]
           >= ((q + stepSize) + blockSize) - (q + blockSize)
    BY <2>9 DEF Inv, Clock
  <2>11. block.stamp \in Int /\ block'.stamp \in Int
    BY <2>2 DEF Inv, Clock
  <2> QED
    BY <2>4, <2>6, <2>7, <2>10, <2>11 DEF Inv, TypeOK
<1> QED
  BY <1>1, InitInv, NextInv, PTL DEF Spec, StampsAdvance

-----------------------------------------------------------------------------
(***************************************************************************)
(* On a stereo device the runner implements BlockStream.                   *)
(***************************************************************************)
LEMMA FilledContent ==
  ASSUME numChan = 2, Inv, Content, NEW n \in 1..avail, framesInPlugBuf + n <= blockSize
  PROVE  \A i \in 0..(framesInPlugBuf + n - 1) : Filled(n)[i] = blocks * stepSize + i + 1
<1> DEFINE q == blocks * stepSize
<1>1. /\ q \in Nat /\ totalFrames = q + framesInPlugBuf /\ totalFrames + avail = Len(times)
      /\ avail <= chunk /\ chunk <= Len(times)
  BY NextWindow DEF Inv, Counts
<1>2. \A i \in 0..(framesInPlugBuf - 1) : plugbuf[i] = q + i + 1
  BY DEF Content
<1> HIDE DEF q
<1> SUFFICES ASSUME NEW i \in 0..(framesInPlugBuf + n - 1)
             PROVE  Filled(n)[i] = q + i + 1
  BY DEF q
<1>3. i \in 0..(blockSize - 1)
  BY DEF Inv, TypeOK
<1>4. CASE i < framesInPlugBuf
  BY <1>2, <1>3, <1>4 DEF Filled, Inv, TypeOK
<1>5. CASE i >= framesInPlugBuf
  <2> DEFINE k == chunk - avail + i - framesInPlugBuf
  <2>1. k \in Nat /\ k < chunk /\ Len(times) - chunk + k + 1 = q + i + 1
    <3>1. /\ avail \in Nat /\ chunk \in Nat /\ framesInPlugBuf \in Nat /\ Len(times) \in Nat
          /\ n \in Nat /\ n <= avail /\ i \in Nat /\ i <= framesInPlugBuf + n - 1
      BY DEF Inv, TypeOK
    <3> HIDE DEF Inv
    <3> QED
      BY <1>1, <1>5, <3>1
  <2>2. Filled(n)[i] = Seen(k)
    BY <1>3, <1>5 DEF Filled, Inv, TypeOK
  <2>3. Seen(k) = Len(times) - chunk + k + 1
    BY <2>1 DEF Seen
  <2> QED
    BY <2>1, <2>2, <2>3
<1> QED
  BY <1>4, <1>5 DEF Inv, TypeOK

LEMMA ProcessContent ==
  ASSUME numChan = 2, Inv, Content, Process
  PROVE  block'.frames = Window(blocks) /\ Content'
<1>1. ToCopy \in 1..avail /\ framesInPlugBuf + ToCopy = blockSize
  BY CopyBounds DEF Process, Inv
<1> DEFINE q == blocks * stepSize
           filled == Filled(ToCopy)
<1>2. /\ \A i \in 0..(blockSize - 1) : filled[i] = q + i + 1
      /\ filled = [i \in 0..(blockSize - 1) |-> filled[i]]
  <2>1. \A i \in 0..(framesInPlugBuf + ToCopy - 1) : filled[i] = q + i + 1
    <3>1. framesInPlugBuf + ToCopy <= blockSize
      BY <1>1 DEF Inv, TypeOK
    <3> QED
      BY <1>1, <3>1, FilledContent
  <2>2. filled = [i \in 0..(blockSize - 1) |-> filled[i]]
    BY DEF Filled
  <2>3. framesInPlugBuf + ToCopy - 1 = blockSize - 1
    BY <1>1 DEF Inv, TypeOK
  <2> HIDE DEF filled, q
  <2> QED
    BY <2>1, <2>2, <2>3
<1>3. /\ blockSize' = blockSize /\ stepSize' = stepSize /\ blocks' = blocks + 1
      /\ block'.frames = filled
      /\ framesInPlugBuf' = blockSize - stepSize
      /\ plugbuf' = IF stepSize < blockSize THEN Shifted(filled) ELSE filled
  BY DEF Process, sizes, Kept, Inv, TypeOK
<1>4. q \in Nat /\ blocks' * stepSize' = q + stepSize /\ blocks' - 1 = blocks
  BY <1>3, NextWindow DEF Inv, TypeOK
<1> HIDE DEF filled
<1>5. block'.frames = Window(blocks)
  BY <1>2, <1>3 DEF Window
<1>6. BlockIsWindow'
  <2>1. (Window(blocks - 1))' = [i \in 0..(blockSize - 1) |-> (blocks' - 1) * stepSize + i + 1]
    BY <1>3 DEF Window
  <2>2. (Window(blocks - 1))' = Window(blocks)
    BY <1>4, <2>1 DEF Window
  <2> QED
    BY <1>5, <2>2 DEF BlockIsWindow
<1> HIDE DEF q
<1>7. \A i \in 0..(framesInPlugBuf' - 1) : plugbuf'[i] = (q + stepSize) + i + 1
  <2> SUFFICES ASSUME NEW i \in 0..(blockSize - stepSize - 1)
               PROVE  plugbuf'[i] = (q + stepSize) + i + 1
    BY <1>3
  <2>1. stepSize < blockSize /\ i \in 0..(blockSize - 1) /\ i + stepSize \in 0..(blockSize - 1)
    BY DEF Inv, TypeOK
  <2>2. plugbuf'[i] = filled[i + stepSize]
    <3>1. plugbuf' = Shifted(filled) /\ i < blockSize - stepSize
      BY <1>3, <2>1 DEF Inv, TypeOK
    <3> QED
      BY <2>1, <3>1 DEF Shifted
  <2> QED
    BY <1>2, <1>4, <2>1, <2>2 DEF Inv, TypeOK
<1> QED
  BY <1>4, <1>5, <1>6, <1>7 DEF Content

LEMMA StreamStep ==
  ASSUME Inv, Content, [Next]_vars
  PROVE  [Stream!Next]_Stream!bsVars /\ Content'
<1>1. ASSUME NEW n \in 1..MaxFrames, NEW gap \in Gaps, HandleData(n, gap)
      PROVE  [Stream!Next]_Stream!bsVars /\ Content'
  <2>1. /\ avail = 0 /\ avail' = n
        /\ UNCHANGED <<sizes, plugbuf, framesInPlugBuf, totalFrames, blocks, block>>
    BY <1>1 DEF HandleData
  <2>2. Stream!Receive
    BY <2>1 DEF Stream!Receive, Inv, TypeOK, LastWindow, Window, sizes
  <2> QED
    BY <2>1, <2>2 DEF Stream!Next, Content, BlockIsWindow, Window, sizes
<1>2. CASE CopyPart
  <2>1. ToCopy = avail /\ ToCopy \in 1..avail /\ framesInPlugBuf + ToCopy <= blockSize
    BY <1>2, CopyBounds DEF CopyPart, Inv
  <2>2. /\ plugbuf' = Filled(ToCopy) /\ framesInPlugBuf' = framesInPlugBuf + ToCopy
        /\ totalFrames' + avail' = totalFrames + avail
        /\ UNCHANGED <<numChan, blockSize, stepSize, blocks, block>>
    BY <1>2, <2>1 DEF CopyPart, sizes, Inv, TypeOK
  <2>3. Content'
    <3> SUFFICES ASSUME numChan = 2 PROVE Content'
      BY <2>2 DEF Content
    <3>1. \A i \in 0..(framesInPlugBuf + ToCopy - 1) : Filled(ToCopy)[i] = blocks * stepSize + i + 1
      BY <2>1, FilledContent
    <3>2. \A i \in 0..(framesInPlugBuf' - 1) : plugbuf'[i] = blocks' * stepSize' + i + 1
      <4>1. blocks' * stepSize' = blocks * stepSize /\ framesInPlugBuf' = framesInPlugBuf + ToCopy
        BY <2>2
      <4>2. plugbuf' = Filled(ToCopy)
        BY <2>2
      <4> DEFINE q == blocks * stepSize
      <4>3. \A i \in 0..(framesInPlugBuf + ToCopy - 1) : Filled(ToCopy)[i] = q + i + 1
        BY <3>1
      <4>4. blocks' * stepSize' = q /\ q \in Nat /\ framesInPlugBuf \in Nat /\ ToCopy \in Nat
        BY <2>1, <4>1, NextWindow DEF Inv, TypeOK
      <4> HIDE DEF q
      <4>5. ASSUME NEW i \in 0..(framesInPlugBuf' - 1)
            PROVE  plugbuf'[i] = blocks' * stepSize' + i + 1
        <5>1. i \in 0..(framesInPlugBuf + ToCopy - 1)
          BY <4>1, <4>4
        <5>2. Filled(ToCopy)[i] = q + i + 1
          BY <4>3, <5>1
        <5> QED
          BY <4>2, <4>4, <5>2
      <4> QED
        BY <4>5
    <3>3. BlockIsWindow'
      BY <2>2 DEF Content, BlockIsWindow, Window
    <3> QED
      BY <3>2, <3>3 DEF Content
  <2> QED
    BY <2>2, <2>3 DEF Stream!bsVars, LastWindow, Window
<1>3. CASE Process
  <2>1. LastWindow' = Window(blocks) /\ Content'
    <3>1. CASE numChan = 2
      <4>1. block'.frames = Window(blocks) /\ Content' /\ numChan' = 2
        BY <1>3, <3>1, ProcessContent DEF Process, sizes
      <4> QED
        BY <4>1 DEF LastWindow
    <3>2. CASE numChan # 2
      <4>1. numChan' # 2 /\ blocks' # 0 /\ blocks' - 1 = blocks
            /\ blockSize' = blockSize /\ stepSize' = stepSize
        BY <1>3, <3>2 DEF Process, sizes, Inv, TypeOK
      <4>2. LastWindow' = [i \in 0..(blockSize - 1) |-> (blocks' - 1) * stepSize + i + 1]
        BY <4>1 DEF LastWindow, Window
      <4> QED
        BY <4>1, <4>2 DEF Window, Content
    <3> QED
      BY <3>1, <3>2
  <2>2. /\ ToCopy \in 1..avail /\ framesInPlugBuf + ToCopy = blockSize
        /\ UNCHANGED <<blockSize, stepSize>> /\ blocks' = blocks + 1
        /\ totalFrames' + avail' = totalFrames + avail
    <3>1. avail \in Nat /\ totalFrames \in Nat /\ avail > 0 /\ TypeOK
      BY <1>3 DEF Process, Inv, TypeOK
    <3>2. ToCopy \in 1..avail /\ framesInPlugBuf + ToCopy = blockSize
      BY <1>3, <3>1, CopyBounds DEF Process
    <3>3. /\ UNCHANGED <<blockSize, stepSize>> /\ blocks' = blocks + 1
          /\ totalFrames' = totalFrames + ToCopy /\ avail' = avail - ToCopy
      BY <1>3 DEF Process, sizes
    <3> QED
      BY <3>1, <3>2, <3>3
  <2> DEFINE q == blocks * stepSize
  <2>3. q \in Nat /\ totalFrames = q + framesInPlugBuf
    BY NextWindow DEF Inv, Counts
  <2> HIDE DEF q
  <2>4. q + blockSize <= totalFrames + avail
    BY <2>2, <2>3 DEF Inv, TypeOK
  <2>5. Stream!Emit
    BY <2>1, <2>2, <2>4 DEF Stream!Emit, Stream!WindowOf, Window, q
  <2> QED
    BY <2>1, <2>5 DEF Stream!Next
<1>4. CASE Crash \/ UNCHANGED vars
  BY <1>4 DEF Crash, vars, sizes, Stream!bsVars, Content, BlockIsWindow, LastWindow, Window
<1> QED
  BY <1>1, <1>2, <1>3, <1>4 DEF Next

(***************************************************************************)
(* The plugin of a stereo device sees its stream as consecutive windows,   *)
(* that of a mono device gets as many blocks (ImplementsStream).           *)
(***************************************************************************)
THEOREM StreamImplemented == Spec => ImplementsStream
<1>1. Init => Stream!Init
  BY SizesSound DEF Init, Stream!Init, LastWindow
<1>2. Inv /\ Content /\ [Next]_vars => [Stream!Next]_Stream!bsVars /\ Content'
  BY StreamStep
<1> QED
  BY <1>1, <1>2, InitInv, NextInv, PTL DEF Spec, Stream!Spec, ImplementsStream

-----------------------------------------------------------------------------
\* The assumption is cited from here on where it is needed.
HIDE PluginRunnerAssumption

(***************************************************************************)
(* VampHost: a command line that follows the synopsis, word by word.       *)
(***************************************************************************)
Vocabulary ==
  {"-a", "parname=parval", "-s", "library:plugin", "library:plugin:output", "infile", "1",
   "-o", "out.txt"}

LEMMA OneWord == ASSUME NEW a \in Vocabulary
  PROVE <<a>> \in Seq(Vocabulary) /\ Len(<<a>>) = 1 /\ <<a>>[1] = a
OBVIOUS

LEMMA TwoWords == ASSUME NEW a \in Vocabulary, NEW b \in Vocabulary
  PROVE <<a, b>> \in Seq(Vocabulary) /\ Len(<<a, b>>) = 2 /\ <<a, b>>[1] = a /\ <<a, b>>[2] = b
OBVIOUS

LEMMA Joined ==
  ASSUME NEW r \in Seq(Vocabulary), NEW t \in Seq(Vocabulary)
  PROVE  /\ r \o t \in Seq(Vocabulary) /\ Len(r \o t) = Len(r) + Len(t)
         /\ Len(r) \in Nat /\ Len(t) \in Nat
         /\ \A i \in 1..Len(r) : (r \o t)[i] = r[i]
         /\ \A i \in 1..Len(t) : (r \o t)[Len(r) + i] = t[i]
<1>1. /\ r \o t \in Seq(Vocabulary) /\ Len(r \o t) = Len(r) + Len(t)
      /\ \A i \in 1..(Len(r) + Len(t)) :
           (r \o t)[i] = IF i <= Len(r) THEN r[i] ELSE t[i - Len(r)]
  BY ConcatProperties
<1>2. Len(r) \in Nat /\ Len(t) \in Nat
  BY LenProperties
<1> QED
  BY <1>1, <1>2

LEMMA Line ==
  ASSUME NEW w \in [params : Nat, frames : BOOLEAN, named : BOOLEAN, output : {-1, 1},
                    toFile : BOOLEAN]
  PROVE  LET s == IF w.frames THEN 1 ELSE 0
             n == IF w.output = 1 THEN 1 ELSE 0
             o == IF w.toFile THEN 2 ELSE 0
             L == Previous!Words(w)
             b == 2 * w.params + s + 1
         IN  /\ L \in Seq(Vocabulary) /\ Len(L) = b + 1 + n + o
             /\ \A j \in 1..w.params : L[2 * j - 1] = "-a" /\ L[2 * j] = "parname=parval"
             /\ w.frames => L[2 * w.params + 1] = "-s"
             /\ L[b] = (IF w.named THEN "library:plugin:output" ELSE "library:plugin")
             /\ w.output = 1 => L[b + 2] = "1"
             /\ w.toFile => L[b + 2 + n] = "-o"
<1> DEFINE s == IF w.frames THEN 1 ELSE 0
           n == IF w.output = 1 THEN 1 ELSE 0
           o == IF w.toFile THEN 2 ELSE 0
           A == [k \in 1..(2 * w.params) |-> IF k % 2 = 1 THEN "-a" ELSE "parname=parval"]
           S == IF w.frames THEN <<"-s">> ELSE <<>>
           l == IF w.named THEN "library:plugin:output" ELSE "library:plugin"
           P == <<l, "infile">>
           N == IF w.output = 1 THEN <<"1">> ELSE <<>>
           O == IF w.toFile THEN <<"-o", "out.txt">> ELSE <<>>
           b == 2 * w.params + s + 1
<1>1. /\ w.params \in Nat /\ w.frames \in BOOLEAN /\ w.named \in BOOLEAN /\ w.toFile \in BOOLEAN
      /\ s \in Nat /\ n \in Nat /\ o \in Nat
  OBVIOUS
<1>2. A \in Seq(Vocabulary) /\ Len(A) = 2 * w.params
  <2>1. A \in [1..(2 * w.params) -> Vocabulary] /\ 2 * w.params \in Nat
    BY <1>1 DEF Vocabulary
  <2> QED
    BY <2>1
<1>3. \A j \in 1..w.params : A[2 * j - 1] = "-a" /\ A[2 * j] = "parname=parval"
  <2> SUFFICES ASSUME NEW j \in 1..w.params
               PROVE  A[2 * j - 1] = "-a" /\ A[2 * j] = "parname=parval"
    OBVIOUS
  <2>1. /\ 2 * j - 1 \in 1..(2 * w.params) /\ 2 * j \in 1..(2 * w.params)
        /\ (2 * j - 1) % 2 = 1 /\ (2 * j) % 2 = 0
    BY <1>1
  <2> QED
    BY <2>1
<1>4. S \in Seq(Vocabulary) /\ Len(S) = s /\ (w.frames => S[1] = "-s")
  BY OneWord, EmptySeq DEF Vocabulary
<1>5. P \in Seq(Vocabulary) /\ Len(P) = 2 /\ P[1] = l
  BY TwoWords DEF Vocabulary
<1>6. N \in Seq(Vocabulary) /\ Len(N) = n /\ (w.output = 1 => N[1] = "1")
  BY OneWord, EmptySeq DEF Vocabulary
<1>7. O \in Seq(Vocabulary) /\ Len(O) = o /\ (w.toFile => O[1] = "-o")
  <2>1. CASE w.toFile
    BY <2>1, TwoWords DEF Vocabulary
  <2>2. CASE ~w.toFile
    BY <2>2, EmptySeq
  <2> QED
    BY <2>1, <2>2
<1> DEFINE L == Previous!Words(w)
<1>8. L = A \o S \o P \o N \o O
  BY DEF Previous!Words
<1> HIDE DEF A, S, P, N, O, l, s, n, o
<1> DEFINE AS == A \o S   ASP == AS \o P   ASPN == ASP \o N
<1>21. /\ A \in Seq(Vocabulary) /\ S \in Seq(Vocabulary) /\ P \in Seq(Vocabulary)
       /\ N \in Seq(Vocabulary) /\ O \in Seq(Vocabulary)
  BY <1>2, <1>4, <1>5, <1>6, <1>7
<1>22. /\ Len(A) = 2 * w.params /\ Len(S) = s /\ Len(P) = 2 /\ Len(N) = n /\ Len(O) = o
       /\ 2 * w.params \in Nat /\ b \in Nat /\ b >= 1 /\ b - 1 = 2 * w.params + s
  BY <1>1, <1>2, <1>4, <1>5, <1>6, <1>7
<1>9. /\ AS \in Seq(Vocabulary) /\ Len(AS) = Len(A) + Len(S)
      /\ \A i \in 1..Len(A) : AS[i] = A[i]
      /\ \A i \in 1..Len(S) : AS[Len(A) + i] = S[i]
  BY <1>21, Joined
<1> HIDE DEF AS, b
<1>10. /\ ASP \in Seq(Vocabulary) /\ Len(ASP) = Len(AS) + Len(P)
       /\ \A i \in 1..Len(AS) : ASP[i] = AS[i]
       /\ \A i \in 1..Len(P) : ASP[Len(AS) + i] = P[i]
  BY <1>9, <1>21, Joined
<1> HIDE DEF ASP
<1>11. /\ ASPN \in Seq(Vocabulary) /\ Len(ASPN) = Len(ASP) + Len(N)
       /\ \A i \in 1..Len(ASP) : ASPN[i] = ASP[i]
       /\ \A i \in 1..Len(N) : ASPN[Len(ASP) + i] = N[i]
  BY <1>10, <1>21, Joined
<1> HIDE DEF ASPN
<1>12. /\ L \in Seq(Vocabulary) /\ Len(L) = Len(ASPN) + Len(O)
       /\ \A i \in 1..Len(ASPN) : L[i] = ASPN[i]
       /\ \A i \in 1..Len(O) : L[Len(ASPN) + i] = O[i]
  <2>1. L = ASPN \o O
    BY <1>8 DEF ASPN, ASP, AS
  <2> HIDE DEF L
  <2> QED
    BY <1>11, <1>21, <2>1, Joined
<1> HIDE DEF L
<1>13. /\ b \in Nat /\ b >= 1 /\ Len(A) = 2 * w.params /\ Len(AS) = b - 1
       /\ Len(ASP) = b + 1 /\ Len(ASPN) = b + 1 + n /\ Len(L) = b + 1 + n + o
       /\ Len(S) = s
  <2>1. /\ Len(AS) = Len(A) + Len(S) /\ Len(ASP) = Len(AS) + Len(P)
        /\ Len(ASPN) = Len(ASP) + Len(N) /\ Len(L) = Len(ASPN) + Len(O)
    BY <1>9, <1>10, <1>11, <1>12
  <2>2. Len(AS) = b - 1 /\ s \in Nat /\ n \in Nat /\ o \in Nat
    BY <1>1, <1>22, <2>1
  <2>3. Len(ASP) = b + 1
    BY <1>22, <2>1, <2>2
  <2>4. Len(ASPN) = b + 1 + n
    BY <1>22, <2>1, <2>2, <2>3
  <2> QED
    BY <1>22, <2>1, <2>2, <2>3, <2>4
<1>14. /\ \A i \in 1..(b + 1) : L[i] = ASP[i]
       /\ \A i \in 1..(b - 1) : L[i] = AS[i]
       /\ \A i \in 1..(2 * w.params) : L[i] = A[i]
  <2>1. \A i \in 1..(b + 1) : i \in 1..Len(ASPN) /\ i \in 1..Len(ASP)
    BY <1>1, <1>13
  <2>2. \A i \in 1..(b - 1) : i \in 1..(b + 1) /\ i \in 1..Len(AS)
    BY <1>13
  <2>3. \A i \in 1..(2 * w.params) : i \in 1..(b - 1) /\ i \in 1..Len(A)
    BY <1>1, <1>13, <1>22
  <2> QED
    BY <1>9, <1>10, <1>11, <1>12, <2>1, <2>2, <2>3
<1>16. ASSUME NEW j \in 1..w.params
       PROVE  L[2 * j - 1] = "-a" /\ L[2 * j] = "parname=parval"
  <2>1. 2 * j - 1 \in 1..(2 * w.params) /\ 2 * j \in 1..(2 * w.params)
    BY <1>1
  <2> QED
    BY <1>3, <1>14, <2>1
<1>17. ASSUME w.frames PROVE L[2 * w.params + 1] = "-s"
  <2>1. Len(S) = 1 /\ b - 1 = 2 * w.params + 1
    <3>1. s = 1
      BY <1>17 DEF s
    <3> QED
      BY <1>22, <3>1
  <2>2. 2 * w.params + 1 \in 1..(b - 1) /\ 1 \in 1..Len(S)
    BY <1>1, <1>13, <2>1
  <2> QED
    BY <1>4, <1>9, <1>13, <1>14, <1>17, <2>2
<1>18. L[b] = l
  <2>1. b \in 1..(b + 1) /\ 1 \in 1..Len(P) /\ b = Len(AS) + 1
    BY <1>5, <1>13
  <2> QED
    BY <1>5, <1>10, <1>14, <2>1
<1>19. ASSUME w.output = 1 PROVE L[b + 2] = "1"
  <2>1. 1 \in 1..Len(N) /\ b + 2 = Len(ASP) + 1 /\ b + 2 \in 1..Len(ASPN)
    BY <1>6, <1>13, <1>19 DEF n
  <2> QED
    BY <1>6, <1>11, <1>12, <1>19, <2>1
<1>20. ASSUME w.toFile PROVE L[b + 2 + n] = "-o"
  <2>1. 1 \in 1..Len(O) /\ b + 2 + n = Len(ASPN) + 1
    BY <1>1, <1>7, <1>13, <1>20 DEF o
  <2> QED
    BY <1>7, <1>12, <1>20, <2>1
<1> QED
  BY <1>12, <1>13, <1>16, <1>17, <1>18, <1>19, <1>20 DEF b, s, n, o, l, L

\* What main makes of a line that follows the synopsis.
Understood ==
  [params |-> (Previous!AfterAssignments - 1) \div 2, frames |-> Previous!useFrames,
   named |-> Previous!named, output |-> IF Previous!HasNumber THEN 1 ELSE -1,
   toFile |-> Previous!argc = Previous!AfterNumber + 2]

LEMMA LineUnderstood ==
  ASSUME wish \in Previous!Wishes, argv = Previous!Words(wish), ~(wish.params > 0 /\ wish.frames)
  PROVE  ~Previous!NullWord /\ ~Previous!Usage /\ Understood = wish
<1> DEFINE p == wish.params
           s == IF wish.frames THEN 1 ELSE 0
           n == IF wish.output = 1 THEN 1 ELSE 0
           o == IF wish.toFile THEN 2 ELSE 0
           b == 2 * p + s + 1
           l == IF wish.named THEN "library:plugin:output" ELSE "library:plugin"
<1>1. /\ wish \in [params : Nat, frames : BOOLEAN, named : BOOLEAN, output : {-1, 1}, toFile : BOOLEAN]
      /\ wish.named => wish.output = -1
  BY HostAssumption DEF Previous!Wishes
<1>2. /\ argv \in Seq(Vocabulary) /\ Len(argv) = b + 1 + n + o
      /\ \A j \in 1..p : argv[2 * j - 1] = "-a" /\ argv[2 * j] = "parname=parval"
      /\ wish.frames => argv[2 * p + 1] = "-s"
      /\ argv[b] = l
      /\ wish.output = 1 => argv[b + 2] = "1"
      /\ wish.toFile => argv[b + 2 + n] = "-o"
  BY <1>1, Line
<1>3. /\ p \in Nat /\ s \in {0, 1} /\ n \in {0, 1} /\ o \in {0, 2} /\ b \in Nat /\ b >= 1
      /\ b = 2 * p + s + 1 /\ (s = 1 => p = 0) /\ (s = 1 <=> wish.frames)
      /\ (n = 1 <=> wish.output = 1) /\ (o = 2 <=> wish.toFile)
      /\ wish.output \in {-1, 1} /\ wish.frames \in BOOLEAN /\ wish.toFile \in BOOLEAN
      /\ wish.named \in BOOLEAN
  BY <1>1
<1>4. l # "-a" /\ l # "-s" /\ l # "null" /\ (l = "library:plugin:output" <=> wish.named)
      /\ l \in {"library:plugin", "library:plugin:output"}
  OBVIOUS
<1>5. DOMAIN argv = 1..Len(argv)
  BY <1>2, LenProperties
<1> HIDE DEF p, s, n, o, b, l
<1>6. /\ \A j \in 1..p : Previous!Word(2 * j - 1) = "-a" /\ Previous!Word(2 * j) = "parname=parval"
      /\ wish.frames => Previous!Word(2 * p + 1) = "-s"
      /\ Previous!Word(b) = l
      /\ ~wish.frames => Previous!Word(2 * p + 1) = l
  <2>1. ASSUME NEW j \in 1..p
        PROVE  2 * j - 1 \in 1..Len(argv) /\ 2 * j \in 1..Len(argv)
    BY <1>2, <1>3
  <2>2. 2 * p + 1 \in 1..Len(argv) /\ b \in 1..Len(argv)
    BY <1>2, <1>3
  <2>3. ~wish.frames => b = 2 * p + 1
    BY <1>3
  <2> QED
    BY <1>2, <1>5, <2>1, <2>2, <2>3 DEF Previous!Word
<1>7. Previous!Word(2 * p + 1) # "-a"
  BY <1>3, <1>4, <1>6
<1>8. Previous!AfterAssignments = 2 * p + 1 /\ Previous!Assigned = 0..p
  <2>1. ASSUME NEW k \in 0..Len(argv)
        PROVE  k \in Previous!Assigned <=> k <= p
    <3>1. CASE k <= p
      <4>1. \A j \in 1..k : j \in 1..p
        BY <1>3, <3>1
      <4> QED
        BY <1>6, <3>1, <4>1 DEF Previous!Assigned
    <3>2. CASE ~(k <= p)
      <4>1. p + 1 \in 1..k /\ 2 * (p + 1) - 1 = 2 * p + 1
        BY <1>2, <1>3, <3>2
      <4> QED
        BY <1>7, <3>2, <4>1 DEF Previous!Assigned
    <3> QED
      BY <3>1, <3>2
  <2>2. p \in 0..Len(argv) /\ p + 1 \in 0..Len(argv) /\ Len(argv) \in Nat
    BY <1>2, <1>3
  <2>3. Previous!Assigned \subseteq 0..Len(argv)
    BY DEF Previous!Assigned
  <2>4. Previous!Assigned = 0..p
    <3>1. \A k \in 0..p : k \in 0..Len(argv) /\ k <= p
      BY <1>3, <2>2
    <3>2. \A k \in 0..Len(argv) : k <= p => k \in 0..p
      BY <1>3, <2>2
    <3> QED
      BY <2>1, <2>3, <3>1, <3>2
  <2>5. \A k \in Previous!Assigned : k + 1 \notin Previous!Assigned <=> k = p
    BY <1>3, <2>4
  <2>6. p \in Previous!Assigned
    BY <1>3, <2>4
  <2>7. (CHOOSE k \in Previous!Assigned : k + 1 \notin Previous!Assigned) = p
    BY <2>5, <2>6
  <2> QED
    BY <2>4, <2>7 DEF Previous!AfterAssignments
<1>9. ~Previous!BadAssignment
  <2>1. \A k \in Previous!Assigned \ {0} : k \in 1..p
    BY <1>3, <1>8
  <2> QED
    BY <1>6, <2>1 DEF Previous!BadAssignment
<1>10. Previous!useFrames = wish.frames /\ Previous!base = b
  <2>1. Previous!useFrames <=> wish.frames
    BY <1>4, <1>6, <1>8 DEF Previous!useFrames
  <2>2. wish.frames => b = 2
    BY <1>3
  <2>3. ~wish.frames => b = 2 * p + 1
    BY <1>3
  <2> QED
    BY <1>3, <1>8, <2>1, <2>2, <2>3 DEF Previous!base, Previous!useFrames
<1>11. Previous!HasNumber <=> n = 1
  <2>1. CASE n = 1
    <3>1. b + 2 \in 1..Len(argv)
      BY <1>2, <1>3, <2>1
    <3> QED
      BY <1>2, <1>3, <1>5, <1>10, <2>1, <3>1 DEF Previous!HasNumber, Previous!Word
  <2>2. CASE n = 0 /\ o = 2
    <3>1. b + 2 + n = b + 2 /\ b + 2 \in 1..Len(argv)
      BY <1>2, <1>3, <2>2
    <3> QED
      BY <1>2, <1>3, <1>5, <1>10, <2>2, <3>1 DEF Previous!HasNumber, Previous!Word
  <2>3. CASE n = 0 /\ o = 0
    <3>1. b + 2 \notin 1..Len(argv)
      BY <1>2, <1>3, <2>3
    <3> QED
      BY <1>5, <1>10, <2>3, <3>1 DEF Previous!HasNumber, Previous!Word
  <2> QED
    BY <1>3, <2>1, <2>2, <2>3
<1>12. Previous!AfterNumber = b + 2 + n /\ Previous!argc = b + 2 + n + o
  BY <1>2, <1>3, <1>10, <1>11 DEF Previous!AfterNumber, Previous!argc
<1>13. Previous!named <=> wish.named
  BY <1>4, <1>6, <1>10 DEF Previous!named
<1>14. ~Previous!NullWord
  <2>1. 2 * p + 1 < b + 2 + n + o /\ b + 1 < b + 2 + n + o
    BY <1>3
  <2> QED
    BY <1>3, <1>8, <1>10, <1>12, <2>1 DEF Previous!NullWord
<1>15. ~Previous!Usage
  <2>1. ~(Previous!argc < 3)
    BY <1>3, <1>12
  <2>2. Previous!argc = Previous!AfterNumber + 2 => Previous!Word(Previous!AfterNumber) = "-o"
    <3> SUFFICES ASSUME o = 2 PROVE Previous!Word(b + 2 + n) = "-o"
      BY <1>3, <1>12
    <3>1. b + 2 + n \in 1..Len(argv)
      BY <1>2, <1>3
    <3> QED
      BY <1>2, <1>3, <1>5, <3>1 DEF Previous!Word
  <2>3. Previous!argc \in {Previous!AfterNumber, Previous!AfterNumber + 2}
    BY <1>3, <1>12
  <2>4. Previous!Word(Previous!base) \in {"library:plugin", "library:plugin:output"}
    BY <1>4, <1>6, <1>10
  <2>5. ~(Previous!named /\ Previous!HasNumber)
    BY <1>1, <1>3, <1>11, <1>13
  <2> QED
    BY <1>9, <2>1, <2>2, <2>3, <2>4, <2>5 DEF Previous!Usage
<1>16. /\ (Previous!AfterAssignments - 1) \div 2 = wish.params
       /\ (IF Previous!HasNumber THEN 1 ELSE -1) = wish.output
       /\ (Previous!argc = Previous!AfterNumber + 2) = wish.toFile
       /\ Previous!named = wish.named /\ Previous!useFrames = wish.frames
  <2>1. (2 * p + 1 - 1) \div 2 = p
    BY <1>3
  <2>2. (IF Previous!HasNumber THEN 1 ELSE -1) = wish.output
    BY <1>3, <1>11
  <2>3. Previous!argc = Previous!AfterNumber + 2 <=> wish.toFile
    BY <1>3, <1>12
  <2>4. Previous!named \in BOOLEAN /\ (Previous!argc = Previous!AfterNumber + 2) \in BOOLEAN
    BY DEF Previous!named
  <2> QED
    BY <1>3, <1>8, <1>10, <1>13, <2>1, <2>2, <2>3, <2>4 DEF p
<1>17. Understood = wish
  BY <1>1, <1>16 DEF Understood
<1> QED
  BY <1>14, <1>15, <1>17

-----------------------------------------------------------------------------
(***************************************************************************)
(* How far the run of the host has come: the line is what was typed, and   *)
(* the plugin has all of the file up to pos.                               *)
(***************************************************************************)
HostInv ==
  /\ wish \in Previous!Wishes
  /\ plugin.pref \in Preferred /\ plugin.spectral \in BOOLEAN
  /\ length \in Nat /\ pos \in Nat /\ hostBlocks \in Nat
  /\ code \in {"main", "run"} => pos = 0 /\ hostBlocks = 0
  /\ hostBlocks = 0 => pos = 0
  /\ code \in {"main", "run", "exit 1", "exit 2", "crash"} => hostBlocks = 0
  /\ code \in {"main", "run", "exit 1", "exit 2", "crash", "loop", "exit 0"}
  /\ Previous!UnderstoodAsMeant
  /\ \A f \in 1..length : f <= pos => f \in seen
  /\ code = "exit 0" /\ sound => pos >= length

\* A block of the host is at least as long as its step.
LEMMA HostSizes ==
  ASSUME HostInv
  PROVE  /\ Previous!stepSize \in Nat \ {0}
         /\ Previous!blockSize \in Nat \ {0} /\ Previous!stepSize <= Previous!blockSize
<1>1. /\ plugin.pref \in Preferred /\ plugin.pref[1] \in Nat \ {1} /\ plugin.pref[2] \in Nat
      /\ DefaultBlock \in Nat \ {0, 1}
  BY PluginRunnerAssumption, HostAssumption DEF HostInv
<1>2. Previous!BlockWanted \in Nat \ {0, 1}
  BY <1>1 DEF Previous!BlockWanted
<1>3. Previous!stepSize \in Nat \ {0}
  <2>1. Previous!BlockWanted \div 2 \in Nat \ {0}
    BY <1>2
  <2> QED
    BY <1>1, <1>2, <2>1 DEF Previous!stepSize
<1> QED
  BY <1>2, <1>3 DEF Previous!blockSize

LEMMA HostInit == Previous!Init => HostInv
<1> SUFFICES ASSUME Previous!Init PROVE HostInv
  OBVIOUS
<1>1. /\ wish \in Previous!Wishes /\ plugin \in [pref : Preferred, spectral : BOOLEAN]
      /\ length = 0 /\ pos = 0 /\ hostBlocks = 0 /\ code = "main"
  BY DEF Previous!Init
<1>2. plugin.pref \in Preferred /\ plugin.spectral \in BOOLEAN
  BY <1>1
<1>3. Previous!UnderstoodAsMeant
  BY <1>1 DEF Previous!UnderstoodAsMeant
<1> QED
  BY <1>1, <1>2, <1>3 DEF HostInv

LEMMA MainInv == ASSUME HostInv, Previous!Main PROVE HostInv'
<1>1. UNCHANGED <<wish, argv, plugin, length, pos, hostbuf, hostBlocks, seen, sound>> /\ code = "main"
  BY DEF Previous!Main
<1>2. \/ code' = "crash" /\ Previous!NullWord
      \/ code' = "exit 2" /\ Previous!Usage
      \/ code' = "run" /\ request' = Understood
  BY DEF Previous!Main, Understood
<1>3. Previous!UnderstoodAsMeant'
  <2> SUFFICES ASSUME argv = Previous!Words(wish), ~(wish.params > 0 /\ wish.frames)
               PROVE  code' \notin {"exit 2", "crash"} /\ request' = wish
    BY <1>1 DEF Previous!UnderstoodAsMeant, Previous!Complete, Previous!Words
  <2>1. ~Previous!NullWord /\ ~Previous!Usage /\ Understood = wish
    BY LineUnderstood DEF HostInv
  <2> QED
    BY <1>2, <2>1
<1>4. /\ wish \in Previous!Wishes /\ plugin.pref \in Preferred /\ plugin.spectral \in BOOLEAN
      /\ length \in Nat /\ pos = 0 /\ hostBlocks = 0
      /\ \A f \in 1..length : f <= pos => f \in seen
  BY <1>1 DEF HostInv
<1> QED
  BY <1>1, <1>2, <1>3, <1>4 DEF HostInv, Previous!Wishes

LEMMA HostStep == ASSUME HostInv, [Previous!Next]_Previous!hostVars PROVE HostInv'
<1>1. CASE Previous!Main
  BY <1>1, MainInv
<1>2. CASE Previous!Prepare
  <2>1. /\ UNCHANGED <<wish, argv, request, plugin, pos, hostbuf, hostBlocks, seen, sound>>
        /\ code = "run" /\ code' \in {"loop", "exit 1"}
    BY <1>2 DEF Previous!Prepare
  <2>3. length' \in Nat
    <3>1. MaxFrames \in Nat /\ length \in Nat
      BY PluginRunnerAssumption DEF HostInv
    <3>2. length' = length \/ length' \in 0..MaxFrames
      BY <1>2 DEF Previous!Prepare
    <3> QED
      BY <3>1, <3>2
  <2>2. Previous!UnderstoodAsMeant'
    BY <2>1 DEF HostInv, Previous!UnderstoodAsMeant, Previous!Complete, Previous!Words
  <2>4. pos = 0 /\ hostBlocks = 0
    BY <2>1 DEF HostInv
  <2>5. \A f \in 1..length' : f <= pos' => f \in seen'
    <3>1. pos' = 0
      BY <2>1, <2>4
    <3>2. \A f \in 1..length' : ~(f <= 0)
      BY <2>3
    <3> QED
      BY <3>1, <3>2
  <2>6. /\ wish' \in Previous!Wishes /\ plugin'.pref \in Preferred /\ plugin'.spectral \in BOOLEAN
    BY <2>1 DEF HostInv
  <2>7. Previous!Wishes' = Previous!Wishes
    BY DEF Previous!Wishes
  <2> QED
    BY <2>1, <2>2, <2>3, <2>4, <2>5, <2>6, <2>7 DEF HostInv
<1>3. CASE Previous!Process
  <2>1. /\ UNCHANGED <<wish, argv, request, plugin, length, sound, code>>
        /\ code = "loop" /\ pos < length /\ pos' = pos + Previous!stepSize
        /\ hostBlocks' = hostBlocks + 1
        /\ seen' = seen \cup {Previous!Read[j] : j \in DOMAIN Previous!Read}
    BY <1>3 DEF Previous!Process
  <2>2. Previous!UnderstoodAsMeant'
    BY <2>1 DEF HostInv, Previous!UnderstoodAsMeant, Previous!Complete, Previous!Words
  <2>3. /\ Previous!stepSize \in Nat /\ Previous!blockSize \in Nat
        /\ Previous!stepSize <= Previous!blockSize /\ pos \in Nat /\ length \in Nat
        /\ hostBlocks \in Nat
    BY HostSizes DEF HostInv
  <2>4. ASSUME NEW f \in 1..length, f <= pos' PROVE f \in seen'
    <3>1. CASE f <= pos
      BY <2>1, <3>1 DEF HostInv
    <3>2. CASE f > pos
      <4> DEFINE j == f - pos - 1
      <4>1. j \in 0..(Previous!blockSize - 1) /\ pos + j < length /\ pos + j + 1 = f
        BY <2>1, <2>3, <2>4, <3>2
      <4> HIDE DEF j
      <4>2. j \in DOMAIN Previous!Read /\ Previous!Read[j] = f
        BY <4>1 DEF Previous!Read
      <4> QED
        BY <2>1, <4>2
    <3> QED
      BY <2>3, <3>1, <3>2
  <2>5. pos' \in Nat /\ hostBlocks' \in Nat /\ hostBlocks' # 0
    BY <2>1, <2>3
  <2> QED
    BY <2>1, <2>2, <2>4, <2>5 DEF HostInv, Previous!Wishes
<1>4. CASE Previous!ReadError
  <2>1. /\ UNCHANGED <<wish, argv, request, plugin, length, pos, hostbuf, hostBlocks, seen>>
        /\ code = "loop" /\ code' = "exit 0" /\ sound' = FALSE
    BY <1>4 DEF Previous!ReadError
  <2>2. Previous!UnderstoodAsMeant'
    BY <2>1 DEF HostInv, Previous!UnderstoodAsMeant, Previous!Complete, Previous!Words
  <2> QED
    BY <2>1, <2>2 DEF HostInv, Previous!Wishes
<1>5. CASE Previous!Finish
  <2>1. /\ UNCHANGED <<wish, argv, request, plugin, length, pos, hostbuf, hostBlocks, seen, sound>>
        /\ code = "loop" /\ code' = "exit 0" /\ pos >= length
    BY <1>5 DEF Previous!Finish
  <2>2. Previous!UnderstoodAsMeant'
    BY <2>1 DEF HostInv, Previous!UnderstoodAsMeant, Previous!Complete, Previous!Words
  <2> QED
    BY <2>1, <2>2 DEF HostInv, Previous!Wishes
<1>6. CASE UNCHANGED Previous!hostVars
  BY <1>6 DEF Previous!hostVars, HostInv, Previous!UnderstoodAsMeant, Previous!Complete,
              Previous!Words, Previous!Wishes
<1> QED
  BY <1>1, <1>2, <1>3, <1>4, <1>5, <1>6 DEF Previous!Next

LEMMA HostInvariance == Previous!Spec => []HostInv
BY HostInit, HostStep, PTL DEF Previous!Spec

(***************************************************************************)
(* The host understands every line that follows its synopsis (without -a   *)
(* and -s together) as it is meant, and when it has ended well the plugin  *)
(* has been given every frame of the file, whatever the numbers of         *)
(* parameters and frames and the sizes the plugin prefers                  *)
(* (vamp-host.cpp, main and runPlugin).                                    *)
(***************************************************************************)
THEOREM HostIsFaithful == Previous!Spec => []HostFaithful
<1>1. HostInv => HostFaithful
  <2> SUFFICES ASSUME HostInv PROVE Previous!UnderstoodAsMeant /\ Previous!WholeFileSeen
    BY DEF HostFaithful, Previous!HostFaithful
  <2>1. /\ length \in Nat /\ pos \in Nat
        /\ \A f \in 1..length : f <= pos => f \in seen
        /\ code = "exit 0" /\ sound => pos >= length
    BY DEF HostInv
  <2>2. Previous!WholeFileSeen
    <3>1. ASSUME pos >= length PROVE \A f \in 1..length : f <= pos
      <4>1. length \in Nat /\ pos \in Nat
        BY <2>1
      <4> QED
        BY <3>1, <4>1
    <3> QED
      BY <2>1, <3>1 DEF Previous!WholeFileSeen
  <2> QED
    BY <2>2 DEF HostInv
<1> QED
  BY <1>1, HostInvariance, PTL

-----------------------------------------------------------------------------
\* The host has handed over the windows before pos.
Started == code \in {"loop", "exit 0"}

HostStream == HostInv /\ pos = hostBlocks * Previous!stepSize

Delivered == IF Started THEN length + Previous!blockSize ELSE 0

FileWindow == IF hostBlocks = 0 THEN <<>> ELSE [j \in DOMAIN hostbuf |-> Previous!Numbered(j)]

LEMMA DeliveredIs ==
  ASSUME HostInv
  PROVE  Delivered = IF code \in {"main", "run", "exit 1", "exit 2", "crash"} THEN 0
                     ELSE length + Previous!blockSize
BY DEF HostInv, Delivered, Started

\* The refinement mapping changes with Delivered, hostBlocks and FileWindow only.
LEMMA SameSizes ==
  ASSUME plugin' = plugin
  PROVE  Previous!stepSize' = Previous!stepSize /\ Previous!blockSize' = Previous!blockSize
BY DEF Previous!stepSize, Previous!blockSize, Previous!BlockWanted

LEMMA HostStreamInit == Previous!Init => HostStream /\ Previous!FileStream!Init
<1> SUFFICES ASSUME Previous!Init PROVE HostStream /\ Previous!FileStream!Init
  OBVIOUS
<1>1. HostInv /\ pos = 0 /\ hostBlocks = 0 /\ code = "main"
  BY HostInit DEF Previous!Init
<1>2. /\ Previous!stepSize \in Nat \ {0}
      /\ Previous!blockSize \in Nat \ {0} /\ Previous!stepSize <= Previous!blockSize
  BY <1>1, HostSizes
<1> QED
  BY <1>1, <1>2 DEF HostStream, Previous!FileStream!Init

LEMMA HostStreamStep ==
  ASSUME HostStream, HostInv', [Previous!Next]_Previous!hostVars
  PROVE  HostStream' /\ [Previous!FileStream!Next]_Previous!FileStream!bsVars
<1>1. /\ Previous!stepSize \in Nat \ {0} /\ Previous!blockSize \in Nat \ {0}
      /\ Previous!stepSize <= Previous!blockSize
      /\ pos \in Nat /\ length \in Nat /\ hostBlocks \in Nat /\ pos = hostBlocks * Previous!stepSize
  BY HostSizes DEF HostStream, HostInv
<1>2. plugin' = plugin
  BY DEF Previous!Next, Previous!Main, Previous!Prepare, Previous!Process, Previous!ReadError,
         Previous!Finish, Previous!hostVars
<1>3. Previous!stepSize' = Previous!stepSize /\ Previous!blockSize' = Previous!blockSize
  BY <1>2, SameSizes
<1>4. CASE Previous!Process
  <2>1. /\ code = "loop" /\ code' = "loop" /\ pos < length /\ length' = length
        /\ hostbuf' = Previous!Read /\ hostBlocks' = hostBlocks + 1
        /\ pos' = pos + Previous!stepSize
    BY <1>4 DEF Previous!Process
  <2>2. pos' = hostBlocks' * Previous!stepSize'
    <3>1. \A b, t \in Nat : (b + 1) * t = b * t + t
      OBVIOUS
    <3> QED
      BY <1>1, <1>3, <2>1, <3>1
  <2>3. hostBlocks * Previous!stepSize + Previous!blockSize <= length + Previous!blockSize
    BY <1>1, <2>1
  <2>4. [j \in DOMAIN hostbuf' |-> Previous!Numbered(j)']
          = [i \in 0..(Previous!blockSize - 1) |-> hostBlocks * Previous!stepSize + i + 1]
    <3>1. hostbuf' = [j \in 0..(Previous!blockSize - 1) |-> IF pos + j < length THEN pos + j + 1 ELSE 0]
      BY <2>1 DEF Previous!Read
    <3>2. ASSUME NEW j \in 0..(Previous!blockSize - 1)
          PROVE  Previous!Numbered(j)' = pos + j + 1
      <4>1. pos' - Previous!stepSize' + j + 1 = pos + j + 1
        BY <1>1, <1>3, <2>1
      <4>2. Previous!Numbered(j)' = IF hostbuf'[j] = 0 /\ pos + j + 1 > length THEN pos + j + 1 ELSE hostbuf'[j]
        BY <2>1, <4>1 DEF Previous!Numbered
      <4> QED
        BY <1>1, <3>1, <4>2
    <3> QED
      BY <1>1, <3>1, <3>2
  <2>5. hostBlocks' # 0
    BY <1>1, <2>1
  <2>6. Previous!FileStream!Emit
    BY <1>3, <2>1, <2>3, <2>4, <2>5 DEF Previous!FileStream!Emit, Previous!FileStream!WindowOf
  <2> QED
    BY <2>2, <2>6 DEF HostStream, Previous!FileStream!Next
<1>5. CASE Previous!Prepare
  <2>1. /\ pos' = pos /\ hostBlocks' = hostBlocks /\ hostbuf' = hostbuf
        /\ code = "run" /\ code' \in {"loop", "exit 1"}
    BY <1>5 DEF Previous!Prepare
  <2>2. hostBlocks = 0 /\ length' \in Nat
    BY <2>1 DEF HostStream, HostInv
  <2>3. length' + Previous!blockSize \in Nat /\ length' + Previous!blockSize > 0
    <3>1. \A a \in Nat, b \in Nat \ {0} : a + b \in Nat /\ a + b > 0
      OBVIOUS
    <3> QED
      BY <1>1, <2>2, <3>1
  <2>4. CASE code' = "loop"
    <3>1. Previous!FileStream!Receive
      BY <1>3, <2>1, <2>2, <2>3, <2>4 DEF Previous!FileStream!Receive
    <3> QED
      BY <1>1, <1>3, <2>1, <3>1 DEF HostStream, Previous!FileStream!Next
  <2>5. CASE code' = "exit 1"
    <3>1. UNCHANGED Previous!FileStream!bsVars
      BY <1>3, <2>1, <2>2, <2>5 DEF Previous!FileStream!bsVars
    <3> QED
      BY <1>1, <1>3, <2>1, <3>1 DEF HostStream
  <2> QED
    BY <2>1, <2>4, <2>5
<1>6. CASE Previous!Main \/ Previous!ReadError \/ Previous!Finish \/ UNCHANGED Previous!hostVars
  <2>1. /\ pos' = pos /\ hostBlocks' = hostBlocks /\ hostbuf' = hostbuf /\ length' = length
        /\ (Started' <=> Started)
    <3>1. CASE Previous!Main
      BY <3>1 DEF Previous!Main, Started
    <3>2. CASE Previous!ReadError
      BY <3>2 DEF Previous!ReadError, Started
    <3>3. CASE Previous!Finish
      BY <3>3 DEF Previous!Finish, Started
    <3>4. CASE UNCHANGED Previous!hostVars
      BY <3>4 DEF Previous!hostVars, Started
    <3> QED
      BY <1>6, <3>1, <3>2, <3>3, <3>4
  <2>2. Delivered' = Delivered
    BY <1>3, <2>1 DEF Delivered
  <2>3. FileWindow' = FileWindow
    BY <1>3, <2>1 DEF FileWindow, Previous!Numbered
  <2>4. UNCHANGED Previous!FileStream!bsVars
    BY <1>3, <2>1, <2>2, <2>3, DeliveredIs DEF Previous!FileStream!bsVars, FileWindow, HostStream,
       Delivered, Started, HostInv
  <2> QED
    BY <1>1, <1>3, <2>1, <2>4 DEF HostStream
<1> QED
  BY <1>4, <1>5, <1>6 DEF Previous!Next

(***************************************************************************)
(* The host, too, feeds its plugin with the overlapping windows of its     *)
(* stream, the file and silence after it, one after the other              *)
(* (vamp-host.cpp, the loop of runPlugin).                                 *)
(***************************************************************************)
THEOREM HostStreamImplemented == Previous!Spec => HostImplementsStream
BY HostStreamInit, HostStreamStep, HostInvariance, PTL
   DEF HostImplementsStream, Previous!ImplementsStream, Previous!Spec, Previous!FileStream!Spec
=============================================================================
