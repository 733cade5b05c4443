------------------------ MODULE DownsamplingProofs -------------------------
(***************************************************************************)
(* Proofs about Downsampling for every factor, number of channels and way  *)
(* of cutting the stream into calls.                                       *)
(***************************************************************************)
EXTENDS Downsampling, TLAPS

LEMMA Settings == MaxShort \in Nat \ {0} /\ Factors \subseteq Nat /\ PluginFactor \in 1..MaxShort
BY DownsamplingAssumption

USE Settings

-----------------------------------------------------------------------------
\* Numbers that fit are their own int16_t, and no int16_t is larger than MaxShort.
LEMMA Remainder ==
  ASSUME NEW n \in Nat \ {0}, NEW x \in Int
  PROVE  x % n \in 0..(n - 1) /\ (x \in 0..(n - 1) => x % n = x)
OBVIOUS

LEMMA ShortIs ==
  ASSUME NEW x \in Int
  PROVE  /\ Short(x) \in (-MaxShort - 1)..MaxShort
         /\ x \in 0..MaxShort => Short(x) = x
<1> DEFINE n == 2 * (MaxShort + 1)  y == x + MaxShort + 1
<1>1. n \in Nat \ {0} /\ y \in Int
  OBVIOUS
<1> HIDE DEF n, y
<1>2. y % n \in 0..(n - 1) /\ (y \in 0..(n - 1) => y % n = y)
  BY <1>1, Remainder
<1>3. Short(x) = (y % n) - MaxShort - 1
  BY DEF Short, y, n
<1>4. x \in 0..MaxShort => y \in 0..(n - 1) /\ y - MaxShort - 1 = x
  BY DEF y, n
<1>5. n - 1 - MaxShort - 1 = MaxShort
  BY DEF n
<1> QED
  BY <1>1, <1>2, <1>3, <1>4, <1>5

\* One more place is one factor more.
LEMMA Steps ==
  ASSUME NEW s \in Nat
  PROVE  /\ 0 * s = 0 /\ 1 * s = s
         /\ \A k \in Nat : k * s \in Nat /\ (k + 1) * s = k * s + s
         /\ \A j, k \in Nat : j < k => k * s >= j * s + s
         /\ \A j, k \in Nat : j <= k => (k - j) * s = k * s - j * s
<1>1. \A k \in Nat : k * s \in Nat /\ (k + 1) * s = k * s + s
  OBVIOUS
<1>2. ASSUME NEW j \in Nat, NEW k \in Nat, j <= k PROVE (k - j) * s = k * s - j * s
  OBVIOUS
<1>3. ASSUME NEW j \in Nat, NEW k \in Nat, j < k PROVE k * s >= j * s + s
  <2> DEFINE e == k - j - 1
  <2>1. e \in Nat /\ k = (j + 1) + e
    BY <1>3
  <2>2. k * s = (j + 1) * s + e * s
    BY <2>1
  <2>3. e * s \in Nat /\ (j + 1) * s = j * s + s /\ j * s \in Nat
    BY <1>1, <2>1
  <2> HIDE DEF e
  <2> QED
    BY <2>2, <2>3
<1> QED
  BY <1>1, <1>2, <1>3

-----------------------------------------------------------------------------
(***************************************************************************)
(* With l the last frame kept before the call, s the factor and m the      *)
(* frames kept since: the counter n of a channel that has come to frame f, *)
(* the m samples kept in its part b of the buffer, and those not yet       *)
(* looked at, from place j on.                                             *)
(***************************************************************************)
Follows(n, l, s, f, m) ==
  /\ f - (l + m * s) \in 0..(s - 1)
  /\ s > 1 => n = s - (f - (l + m * s))

Chosen(b, c, l, s, m) == \A k \in 0..(m - 1) : b[k] = Sample(l + (k + 1) * s, c)

Unread(b, c, f, a, j) == \A k \in j..(a - 1) : b[k] = Sample(f + 1 + k, c)

\* Between two calls.
Resting == \A c \in 1..numChan : Follows(downSampleCount[c], last, Spacing, frames, 0)

\* In the loop: the channel at work, those to come, and those that are done.
Looping ==
  /\ Follows(downSampleCount[chan], last, Spacing, frames - avail + i, downSampleAvail)
  /\ Chosen(sampleBuf[chan], chan, last, Spacing, downSampleAvail)
  /\ Unread(sampleBuf[chan], chan, frames - avail, avail, i)
  /\ \A c \in 1..numChan : c > chan =>
       /\ Follows(downSampleCount[c], last, Spacing, frames - avail, 0)
       /\ Unread(sampleBuf[c], c, frames - avail, avail, 0)
  /\ \A c \in 1..numChan : c < chan => \E m \in 0..avail :
       /\ Follows(downSampleCount[c], last, Spacing, frames, m)
       /\ Chosen(sampleBuf[c], c, last, Spacing, m)

(***************************************************************************)
(* After it, with as many samples for each channel, those of frames from i *)
(* on not demodulated yet, and the demodulated ones in the places before   *)
(* place i, which are places of frames that have been taken.               *)
(***************************************************************************)
Reduced ==
  /\ i <= downSampleAvail
  /\ ~(numChan = 2 /\ demodFMForRaw) => i = 0
  /\ \A c \in 1..numChan :
       /\ Follows(downSampleCount[c], last, Spacing, frames, downSampleAvail)
       /\ \A k \in i..(downSampleAvail - 1) :
            sampleBuf[c][k] = Sample(last + (k + 1) * Spacing, c)
  /\ \A p \in 0..(i - 1) : Interleaved(p) = Sample(last + (p + 1) * Spacing, 0)

Data ==
  /\ pc = "idle" => Resting
  /\ pc = "loop" => Looping
  /\ pc \in {"demod", "hand"} => Reduced
  /\ pc = "hand" /\ numChan = 2 /\ demodFMForRaw => i = downSampleAvail

IInv == TypeOK /\ (pc = "loop" => downSampleFactor > 1) /\ (configured => Data)

LEMMA Spaced ==
  ASSUME TypeOK
  PROVE  /\ Spacing \in Nat \ {0} /\ Spacing <= MaxShort
         /\ Spacing > 1 => Spacing = downSampleFactor
BY DEF TypeOK, Spacing

-----------------------------------------------------------------------------
LEMMA InitInv == Init => IInv
<1> SUFFICES ASSUME Init PROVE IInv
  OBVIOUS
<1>1. numChan \in {1, 2}
  BY DownsamplingAssumption DEF Init
<1>2. downSampleCount \in [1..2 -> (-MaxShort - 1)..MaxShort]
  <2>1. Leftover \subseteq (-MaxShort - 1)..MaxShort /\ downSampleCount \in [1..2 -> Leftover]
    BY DownsamplingAssumption DEF Init
  <2> QED
    BY <2>1
<1>3. downSampleFactor \in (-MaxShort - 1)..MaxShort
  BY DEF Init
<1>4. asked \in [Listeners -> Factors \cup {-1}]
  BY DEF Init
<1>5. sampleBuf \in [1..2 -> [0..(avail - 1) -> Samples]]
  <2>1. 0..(0 - 1) = {}
    OBVIOUS
  <2>2. <<>> \in [{} -> Samples]
    OBVIOUS
  <2> QED
    BY <2>1, <2>2 DEF Init
<1>6. MaxFrames \in Nat
  BY DownsamplingAssumption
<1>7. /\ configured = FALSE /\ demodFMForRaw = FALSE
      /\ frames = 0 /\ last = 0 /\ avail = 0
      /\ pc = "idle" /\ chan = 1 /\ i = 0 /\ downSampleAvail = 0
  BY DEF Init
<1>8. TypeOK
  <2>1. /\ frames \in 0..MaxFrames /\ last \in 0..MaxFrames /\ avail \in 0..frames
        /\ chan \in 1..numChan /\ i \in 0..avail /\ downSampleAvail \in 0..avail
    BY <1>1, <1>6, <1>7
  <2>2. configured \in BOOLEAN /\ demodFMForRaw \in BOOLEAN
    BY <1>7
  <2>3. pc \in {"idle", "loop", "demod", "hand", "crashed"} /\ pc # "loop"
    BY <1>7
  <2> QED
    BY <1>1, <1>2, <1>3, <1>4, <1>5, <2>1, <2>2, <2>3 DEF TypeOK
<1> QED
  BY <1>7, <1>8 DEF IInv

\* Commands, and the ways to crash.
LEMMA CommandInv ==
  ASSUME IInv,
         \/ \E l \in Listeners, f \in Factors : AddRawListener(l, f)
         \/ \E l \in Listeners : RemoveRawListener(l)
         \/ \E on \in BOOLEAN : SetDemodFMForRaw(on)
         \/ \E n \in 1..MaxFrames : Overrun(n)
         \/ DivideByZero
  PROVE  IInv'
<1>1. /\ UNCHANGED <<numChan, frames, avail, sampleBuf, chan, i, downSampleAvail>>
      /\ pc = "idle" /\ pc' \in {"idle", "crashed"}
  BY DEF AddRawListener, RemoveRawListener, SetDemodFMForRaw, Overrun, DivideByZero, setting
<1>2. TypeOK
  BY DEF IInv
<1>3. asked' \in [Listeners -> Factors \cup {-1}] /\ demodFMForRaw' \in BOOLEAN
  BY <1>2 DEF TypeOK, AddRawListener, RemoveRawListener, SetDemodFMForRaw, Overrun,
     DivideByZero, setting
<1>4. CASE UNCHANGED <<downSampleFactor, downSampleCount, configured, last>>
  <2>1. TypeOK'
    BY <1>1, <1>2, <1>3, <1>4 DEF TypeOK
  <2>2. configured => (Resting /\ Resting')
    BY <1>1, <1>4 DEF IInv, Data, Resting, Spacing
  <2>3. configured' => Data'
    BY <1>1, <1>4, <2>2 DEF Data
  <2> QED
    BY <1>1, <2>1, <2>3 DEF IInv
<1>5. ASSUME NEW f \in Factors, downSampleFactor' = Short(f), downSampleCount' = FullCounts(f),
             configured' = TRUE, last' = frames, pc' = "idle"
      PROVE  IInv'
  <2>1. Short(f) \in (-MaxShort - 1)..MaxShort
    BY ShortIs
  <2>2. downSampleCount' = [c \in 1..2 |-> Short(f)]
    BY <1>5 DEF FullCounts
  <2>3. TypeOK'
    BY <1>1, <1>2, <1>3, <1>5, <2>1, <2>2 DEF TypeOK
  <2>4. Spacing' = IF Short(f) > 1 THEN Short(f) ELSE 1
    BY <1>5 DEF Spacing
  <2>5. Resting'
    <3> DEFINE s == Spacing'
    <3>1. s \in Nat \ {0} /\ (s > 1 => s = Short(f)) /\ 0 * s = 0
      BY <2>1, <2>4
    <3>2. frames \in Nat /\ numChan \in {1, 2}
      BY <1>2, DownsamplingAssumption DEF TypeOK
    <3> HIDE DEF s
    <3>3. ASSUME NEW c \in 1..numChan
          PROVE  Follows(downSampleCount'[c], frames, s, frames, 0)
      <4>1. downSampleCount'[c] = Short(f)
        BY <2>2, <3>2
      <4> QED
        BY <3>1, <3>2, <4>1 DEF Follows
    <3> QED
      BY <1>1, <1>5, <3>3 DEF Resting, s
  <2>6. Data'
    BY <1>5, <2>5 DEF Data
  <2> QED
    BY <1>5, <2>3, <2>6 DEF IInv
<1> QED
  BY <1>1, <1>4, <1>5 DEF AddRawListener, RemoveRawListener, SetDemodFMForRaw, Overrun,
     DivideByZero, setting

-----------------------------------------------------------------------------
LEMMA GetFramesInv == ASSUME IInv, NEW n \in 1..MaxFrames, GetFrames(n) PROVE IInv'
<1>1. /\ pc = "idle" /\ frames + n <= MaxFrames /\ frames' = frames + n /\ avail' = n
      /\ chan' = 1 /\ i' = 0
      /\ UNCHANGED <<numChan, downSampleFactor, configured, asked, demodFMForRaw,
                     downSampleCount, last>>
      /\ sampleBuf' = [c \in 1..2 |-> [k \in 0..(n - 1) |-> Sample(frames + 1 + k, c)]]
  BY DEF GetFrames, setting
<1>2. \/ downSampleFactor > 1 /\ pc' = "loop" /\ downSampleAvail' = 0
      \/ ~(downSampleFactor > 1) /\ pc' = "demod" /\ downSampleAvail' = n
  BY DEF GetFrames
<1>3. TypeOK /\ (configured => Data)
  BY DEF IInv
<1>4. n \in Nat \ {0} /\ MaxFrames \in Nat /\ frames \in Nat /\ numChan \in {1, 2} /\ last \in Nat
  BY <1>3, DownsamplingAssumption DEF TypeOK
<1>5. \A c \in 1..2 : \A k \in 0..(n - 1) : Sample(frames + 1 + k, c) \in Samples
  <2>1. ASSUME NEW c \in 1..2, NEW k \in 0..(n - 1) PROVE Sample(frames + 1 + k, c) \in Samples
    <3>1. frames + 1 + k \in 1..MaxFrames
      BY <1>1, <1>4
    <3> QED
      BY <3>1 DEF Sample, Samples
  <2> QED
    BY <2>1
<1>6. sampleBuf' \in [1..2 -> [0..(avail' - 1) -> Samples]]
  BY <1>1, <1>5
<1>7. TypeOK'
  BY <1>1, <1>2, <1>3, <1>4, <1>6 DEF TypeOK
<1>8. /\ Spacing' = Spacing /\ Spacing \in Nat \ {0} /\ 0 * Spacing = 0
      /\ Spacing = IF downSampleFactor > 1 THEN downSampleFactor ELSE 1
  <2>1. Spacing' = Spacing /\ Spacing = IF downSampleFactor > 1 THEN downSampleFactor ELSE 1
    BY <1>1 DEF Spacing
  <2>2. Spacing \in Nat \ {0}
    BY <1>3, Spaced
  <2> QED
    BY <2>1, <2>2
<1>9. ASSUME NEW c \in 1..numChan
      PROVE  /\ \A k \in 0..(n - 1) : sampleBuf'[c][k] = Sample(frames + 1 + k, c)
             /\ configured => Follows(downSampleCount[c], last, Spacing, frames, 0)
  <2>1. c \in 1..2
    BY <1>4
  <2> QED
    BY <1>1, <1>3, <2>1 DEF Data, Resting
<1>10. ASSUME configured PROVE Data'
  <2>1. CASE downSampleFactor > 1 /\ pc' = "loop" /\ downSampleAvail' = 0
    <3>1. frames' - avail' = frames /\ frames' - avail' + i' = frames
      BY <1>1, <1>4
    <3>2. ASSUME NEW c \in 1..numChan
          PROVE  /\ Follows(downSampleCount[c], last, Spacing, frames, 0)
                 /\ Unread(sampleBuf'[c], c, frames, n, 0)
      BY <1>9, <1>10, <3>2 DEF Unread
    <3>3. Chosen(sampleBuf'[1], 1, last, Spacing, 0)
      BY DEF Chosen
    <3>4. 1 \in 1..numChan /\ \A c \in 1..numChan : ~(c < 1)
      BY <1>4
    <3>5. Looping'
      BY <1>1, <1>8, <2>1, <3>1, <3>2, <3>3, <3>4 DEF Looping
    <3> QED
      BY <2>1, <3>5 DEF Data
  <2>2. CASE ~(downSampleFactor > 1) /\ pc' = "demod" /\ downSampleAvail' = n
    <3>1. Spacing = 1
      BY <1>8, <2>2
    <3>2. last = frames
      <4>1. 1 \in 1..numChan
        BY <1>4
      <4>2. frames - (last + 0 * Spacing) \in 0..(Spacing - 1)
        BY <1>9, <1>10, <4>1 DEF Follows
      <4> QED
        BY <1>4, <3>1, <4>2
    <3>3. ASSUME NEW c \in 1..numChan
          PROVE  /\ Follows(downSampleCount[c], last, 1, frames + n, n)
                 /\ Chosen(sampleBuf'[c], c, last, 1, n)
      <4>1. Follows(downSampleCount[c], last, 1, frames + n, n)
        BY <1>4, <3>2 DEF Follows
      <4>2. \A k \in 0..(n - 1) : last + (k + 1) * 1 = frames + 1 + k
        BY <1>4, <3>2
      <4> QED
        BY <1>9, <4>1, <4>2 DEF Chosen
    <3>4. 0 <= n /\ 0..(0 - 1) = {}
      BY <1>4
    <3>5. /\ i' = 0 /\ frames' = frames + n /\ Spacing' = 1
          /\ UNCHANGED <<numChan, last, downSampleCount>>
      BY <1>1, <1>8, <3>1
    <3>6. /\ \A c \in 1..numChan : Follows(downSampleCount[c], last, 1, frames + n, n)
          /\ \A c \in 1..numChan : \A k \in 0..(n - 1) :
               sampleBuf'[c][k] = Sample(last + (k + 1) * 1, c)
      BY <3>3 DEF Chosen
    <3>7. Reduced'
      BY <2>2, <3>4, <3>5, <3>6 DEF Reduced
    <3> QED
      BY <2>2, <3>7 DEF Data
  <2> QED
    BY <1>2, <2>1, <2>2
<1> QED
  BY <1>1, <1>2, <1>7, <1>10 DEF IInv

\* What the loop does in an iteration with the counter n of its channel.
LEMMA CountDown ==
  ASSUME NEW s \in 2..MaxShort, NEW n, NEW l \in Int, NEW f \in Int, NEW m \in Nat,
         Follows(n, l, s, f, m)
  PROVE  /\ Decremented(n) # 0 => Follows(Decremented(n), l, s, f + 1, m)
         /\ Decremented(n) = 0 => f + 1 = l + (m + 1) * s /\ Follows(s, l, s, f + 1, m + 1)
<1> DEFINE p == m * s
<1>1. p \in Int /\ (m + 1) * s = p + s
  BY Steps
<1>2. f - (l + p) \in 0..(s - 1) /\ n = s - (f - (l + p))
  BY DEF Follows
<1>3. n - 1 \in 0..MaxShort /\ n \in Int
  <2> HIDE DEF p
  <2> QED
    BY <1>1, <1>2
<1>4. Decremented(n) = n - 1
  BY <1>3, ShortIs DEF Decremented
<1>5. ASSUME n - 1 # 0 PROVE Follows(n - 1, l, s, f + 1, m)
  <2>1. (f + 1) - (l + p) \in 0..(s - 1) /\ n - 1 = s - ((f + 1) - (l + p))
    <3> HIDE DEF p
    <3> QED
      BY <1>1, <1>2, <1>5
  <2> QED
    BY <2>1 DEF Follows
<1>6. ASSUME n - 1 = 0 PROVE f + 1 = l + (m + 1) * s /\ Follows(s, l, s, f + 1, m + 1)
  <2>1. f + 1 = l + (m + 1) * s
    <3> HIDE DEF p
    <3> QED
      BY <1>1, <1>2, <1>6
  <2>2. (f + 1) - (l + (m + 1) * s) = 0
    BY <2>1
  <2> QED
    BY <2>1, <2>2 DEF Follows
<1> QED
  BY <1>4, <1>5, <1>6

LEMMA SkipInv == ASSUME IInv, Skip PROVE IInv'
<1>1. /\ pc = "loop" /\ i < avail /\ Decremented(downSampleCount[chan]) # 0
      /\ downSampleCount' =
           [downSampleCount EXCEPT ![chan] = Decremented(downSampleCount[chan])]
      /\ i' = i + 1
      /\ UNCHANGED <<numChan, downSampleFactor, configured, asked, demodFMForRaw, frames, last,
                     avail, sampleBuf, pc, chan, downSampleAvail>>
  BY DEF Skip, setting
<1>2. TypeOK /\ (configured => Looping) /\ downSampleFactor > 1
  BY <1>1 DEF IInv, Data
<1>3. /\ chan \in 1..2 /\ chan \in 1..numChan /\ downSampleCount \in [1..2 -> Int]
      /\ frames \in Nat /\ avail \in Nat /\ i \in Nat /\ last \in Int /\ downSampleAvail \in Nat
      /\ numChan \in {1, 2}
  BY <1>2, DownsamplingAssumption DEF TypeOK
<1>4. Decremented(downSampleCount[chan]) \in (-MaxShort - 1)..MaxShort
  BY <1>3, ShortIs DEF Decremented
<1>5. TypeOK'
  <2>1. downSampleCount' \in [1..2 -> (-MaxShort - 1)..MaxShort]
    BY <1>1, <1>2, <1>4 DEF TypeOK
  <2>2. i' \in 0..avail /\ downSampleAvail <= i'
    BY <1>1, <1>2, <1>3 DEF TypeOK
  <2> QED
    BY <1>1, <1>2, <2>1, <2>2 DEF TypeOK
<1>6. Spacing \in 2..MaxShort /\ Spacing' = Spacing
  BY <1>1, <1>2, Spaced DEF Spacing
<1>7. ASSUME configured PROVE Looping'
  <2>1. /\ downSampleCount'[chan] = Decremented(downSampleCount[chan])
        /\ \A c \in 1..numChan : c # chan => downSampleCount'[c] = downSampleCount[c]
    BY <1>1, <1>3
  <2>2. frames - avail + i \in Int /\ frames - avail + i' = (frames - avail + i) + 1
    BY <1>1, <1>3
  <2>3. Follows(downSampleCount'[chan], last, Spacing, frames - avail + i', downSampleAvail)
    <3>1. Follows(downSampleCount[chan], last, Spacing, frames - avail + i, downSampleAvail)
      BY <1>2, <1>7 DEF Looping
    <3> QED
      BY <1>1, <1>3, <1>6, <2>1, <2>2, <3>1, CountDown
  <2>4. Unread(sampleBuf[chan], chan, frames - avail, avail, i')
    BY <1>1, <1>2, <1>3, <1>7 DEF Looping, Unread
  <2>5. \A c \in 1..numChan : (c > chan => c # chan) /\ (c < chan => c # chan)
    BY <1>3
  <2> QED
    BY <1>1, <1>2, <1>6, <1>7, <2>1, <2>3, <2>4, <2>5 DEF Looping
<1> QED
  BY <1>1, <1>2, <1>5, <1>7 DEF IInv, Data

LEMMA KeepInv == ASSUME IInv, Keep PROVE IInv'
<1>1. /\ pc = "loop" /\ i < avail /\ Decremented(downSampleCount[chan]) = 0
      /\ downSampleCount' = [downSampleCount EXCEPT ![chan] = Reload]
      /\ sampleBuf' = [sampleBuf EXCEPT ![chan][downSampleAvail] = sampleBuf[chan][i]]
      /\ downSampleAvail' = downSampleAvail + 1
      /\ i' = i + 1
      /\ UNCHANGED <<numChan, downSampleFactor, configured, asked, demodFMForRaw, frames, last,
                     avail, pc, chan>>
  BY DEF Keep, setting
<1>2. TypeOK /\ (configured => Looping) /\ downSampleFactor > 1
  BY <1>1 DEF IInv, Data
<1>3. /\ chan \in 1..2 /\ chan \in 1..numChan /\ downSampleCount \in [1..2 -> Int]
      /\ frames \in Nat /\ avail \in Nat /\ i \in Nat /\ last \in Int /\ downSampleAvail \in Nat
      /\ numChan \in {1, 2} /\ downSampleAvail <= i /\ i < avail
      /\ sampleBuf \in [1..2 -> [0..(avail - 1) -> Samples]]
  BY <1>1, <1>2, DownsamplingAssumption DEF TypeOK
<1>4. downSampleAvail \in 0..(avail - 1) /\ i \in 0..(avail - 1) /\ sampleBuf[chan][i] \in Samples
  BY <1>3
<1>5. /\ sampleBuf' \in [1..2 -> [0..(avail - 1) -> Samples]]
      /\ sampleBuf'[chan][downSampleAvail] = sampleBuf[chan][i]
      /\ \A k \in 0..(avail - 1) : k # downSampleAvail => sampleBuf'[chan][k] = sampleBuf[chan][k]
      /\ \A c \in 1..2 : c # chan => sampleBuf'[c] = sampleBuf[c]
  <2> DEFINE b == [sampleBuf[chan] EXCEPT ![downSampleAvail] = sampleBuf[chan][i]]
  <2>1. sampleBuf[chan] \in [0..(avail - 1) -> Samples]
    BY <1>3
  <2>2. /\ b \in [0..(avail - 1) -> Samples] /\ b[downSampleAvail] = sampleBuf[chan][i]
        /\ \A k \in 0..(avail - 1) : k # downSampleAvail => b[k] = sampleBuf[chan][k]
    BY <1>4, <2>1
  <2>3. sampleBuf' = [sampleBuf EXCEPT ![chan] = b]
    BY <1>1
  <2> HIDE DEF b
  <2> QED
    BY <1>3, <2>2, <2>3
<1>6. TypeOK'
  <2>1. downSampleCount' \in [1..2 -> (-MaxShort - 1)..MaxShort]
    <3>1. Reload \in (-MaxShort - 1)..MaxShort
      BY <1>2 DEF Reload, TypeOK
    <3> QED
      BY <1>1, <1>2, <3>1 DEF TypeOK
  <2>2. i' \in 0..avail /\ downSampleAvail' <= i' /\ downSampleAvail' \in 0..avail
    BY <1>1, <1>3
  <2> QED
    BY <1>1, <1>2, <1>5, <2>1, <2>2 DEF TypeOK
<1>7. Spacing \in 2..MaxShort /\ Spacing' = Spacing /\ Reload = Spacing
  BY <1>1, <1>2, Spaced DEF Spacing, Reload
<1>8. ASSUME configured PROVE Looping'
  <2> DEFINE m == downSampleAvail
  <2>1. /\ downSampleCount'[chan] = Spacing
        /\ \A c \in 1..numChan : c # chan => downSampleCount'[c] = downSampleCount[c]
    BY <1>1, <1>3, <1>7
  <2>2. frames - avail + i \in Int /\ frames - avail + i' = (frames - avail + i) + 1
        /\ frames - avail + 1 + i = (frames - avail + i) + 1
    BY <1>1, <1>3
  <2>3. /\ (frames - avail + i) + 1 = last + (m + 1) * Spacing
        /\ Follows(Spacing, last, Spacing, (frames - avail + i) + 1, m + 1)
    <3>1. Follows(downSampleCount[chan], last, Spacing, frames - avail + i, m)
      BY <1>2, <1>8 DEF Looping
    <3> QED
      BY <1>1, <1>3, <1>7, <2>2, <3>1, CountDown
  <2>4. Chosen(sampleBuf'[chan], chan, last, Spacing, m + 1)
    <3>1. sampleBuf[chan][i] = Sample(last + (m + 1) * Spacing, chan)
      <4>1. Unread(sampleBuf[chan], chan, frames - avail, avail, i)
        BY <1>2, <1>8 DEF Looping
      <4>2. i \in i..(avail - 1)
        BY <1>3
      <4>3. sampleBuf[chan][i] = Sample(frames - avail + 1 + i, chan)
        BY <4>1, <4>2 DEF Unread
      <4> QED
        BY <2>2, <2>3, <4>3
    <3>2. \A k \in 0..(m - 1) : sampleBuf[chan][k] = Sample(last + (k + 1) * Spacing, chan)
      BY <1>2, <1>8 DEF Looping, Chosen
    <3>3. \A k \in 0..((m + 1) - 1) : k = m \/ (k \in 0..(m - 1) /\ k # m /\ k \in 0..(avail - 1))
      BY <1>3
    <3> QED
      BY <1>5, <3>1, <3>2, <3>3 DEF Chosen
  <2>5. Unread(sampleBuf'[chan], chan, frames - avail, avail, i')
    <3>1. \A k \in i'..(avail - 1) : k \in i..(avail - 1) /\ k \in 0..(avail - 1) /\ k # m
      BY <1>1, <1>3
    <3> QED
      BY <1>2, <1>5, <1>8, <3>1 DEF Looping, Unread
  <2>6. \A c \in 1..numChan : (c > chan => c # chan) /\ (c < chan => c # chan) /\ c \in 1..2
    BY <1>3
  <2>7. \A c \in 1..numChan : c # chan => sampleBuf'[c] = sampleBuf[c]
    BY <1>5, <2>6
  <2> HIDE DEF m
  <2>8. downSampleAvail' = m + 1
    BY <1>1 DEF m
  <2> QED
    BY <1>1, <1>2, <1>7, <1>8, <2>1, <2>2, <2>3, <2>4, <2>5, <2>6, <2>7, <2>8 DEF Looping
<1> QED
  BY <1>1, <1>2, <1>6, <1>8 DEF IInv, Data

LEMMA NextChannelInv == ASSUME IInv, NextChannel PROVE IInv'
<1>1. /\ pc = "loop" /\ i = avail
      /\ \/ chan < numChan /\ chan' = chan + 1 /\ i' = 0 /\ downSampleAvail' = 0 /\ pc' = "loop"
         \/ ~(chan < numChan) /\ pc' = "demod" /\ i' = 0 /\ UNCHANGED <<chan, downSampleAvail>>
      /\ UNCHANGED <<numChan, downSampleFactor, configured, asked, demodFMForRaw, frames, last,
                     avail, sampleBuf, downSampleCount>>
  BY DEF NextChannel, setting, FirstPlace
<1>2. TypeOK /\ (configured => Looping) /\ downSampleFactor > 1
  BY <1>1 DEF IInv, Data
<1>3. /\ chan \in 1..2 /\ chan \in 1..numChan /\ numChan \in {1, 2}
      /\ frames \in Nat /\ avail \in Nat /\ last \in Int /\ downSampleAvail \in 0..avail
  BY <1>2, DownsamplingAssumption DEF TypeOK
<1>4. TypeOK'
  BY <1>1, <1>2, <1>3 DEF TypeOK
<1>5. Spacing \in Nat \ {0} /\ Spacing' = Spacing
  BY <1>1, <1>2, Spaced DEF Spacing
<1>6. ASSUME configured
      PROVE  /\ Follows(downSampleCount[chan], last, Spacing, frames, downSampleAvail)
             /\ Chosen(sampleBuf[chan], chan, last, Spacing, downSampleAvail)
             /\ \A c \in 1..numChan : c > chan =>
                  /\ Follows(downSampleCount[c], last, Spacing, frames - avail, 0)
                  /\ Unread(sampleBuf[c], c, frames - avail, avail, 0)
             /\ \A c \in 1..numChan : c < chan => \E m \in 0..avail :
                  /\ Follows(downSampleCount[c], last, Spacing, frames, m)
                  /\ Chosen(sampleBuf[c], c, last, Spacing, m)
  <2>1. frames - avail + i = frames
    BY <1>1, <1>3
  <2> QED
    BY <1>2, <1>6, <2>1 DEF Looping
<1>7. CASE chan < numChan /\ chan' = chan + 1 /\ i' = 0 /\ downSampleAvail' = 0 /\ pc' = "loop"
  <2>1. ASSUME configured PROVE Looping'
    <3>1. chan = 1 /\ chan' = 2 /\ numChan = 2
      BY <1>3, <1>7
    <3>2. frames - avail + i' = frames - avail
      BY <1>3, <1>7
    <3>3. \A c \in 1..numChan : ~(c > 2) /\ (c < 2 => c = 1)
      BY <3>1
    <3>4. 2 \in 1..numChan /\ 2 > chan
      BY <3>1
    <3>5. Chosen(sampleBuf[2], 2, last, Spacing, 0)
      BY DEF Chosen
    <3> QED
      BY <1>1, <1>3, <1>5, <1>6, <1>7, <2>1, <3>1, <3>2, <3>3, <3>4, <3>5 DEF Looping
  <2> QED
    BY <1>1, <1>2, <1>4, <1>7, <2>1 DEF IInv, Data
<1>8. CASE ~(chan < numChan) /\ pc' = "demod" /\ i' = 0 /\ UNCHANGED <<chan, downSampleAvail>>
  <2>1. ASSUME configured PROVE Reduced'
    <3>1. ASSUME NEW c \in 1..numChan
          PROVE  /\ Follows(downSampleCount[c], last, Spacing, frames, downSampleAvail)
                 /\ Chosen(sampleBuf[c], c, last, Spacing, downSampleAvail)
      <4>1. CASE c = chan
        BY <1>6, <2>1, <4>1
      <4>2. CASE c # chan
        <5>1. c < chan
          BY <1>3, <1>8, <4>2
        <5>2. PICK m \in 0..avail : /\ Follows(downSampleCount[c], last, Spacing, frames, m)
                                    /\ Chosen(sampleBuf[c], c, last, Spacing, m)
          BY <1>6, <2>1, <5>1
        <5>3. m = downSampleAvail
          <6> DEFINE d == downSampleAvail  s == Spacing  p == m * s  q == d * s
          <6>1. m \in Nat /\ d \in Nat /\ s \in Nat
            BY <1>3, <1>5
          <6>2. /\ p \in Nat /\ q \in Nat
                /\ m < d => q >= p + s
                /\ d < m => p >= q + s
            BY <6>1, Steps
          <6>3. frames - (last + p) \in 0..(s - 1) /\ frames - (last + q) \in 0..(s - 1)
            BY <1>6, <2>1, <5>2 DEF Follows
          <6> HIDE DEF p, q, s, d
          <6>4. ~(m < d) /\ ~(d < m)
            BY <1>3, <6>1, <6>2, <6>3
          <6>5. m = d
            BY <6>1, <6>4
          <6> QED
            BY <6>5 DEF d
        <5> QED
          BY <5>2, <5>3
      <4> QED
        BY <4>1, <4>2
    <3>2. 0 <= downSampleAvail /\ 0..(0 - 1) = {}
      BY <1>3
    <3> QED
      BY <1>1, <1>5, <1>8, <3>1, <3>2 DEF Reduced, Chosen
  <2> QED
    BY <1>1, <1>4, <1>8, <2>1 DEF IInv, Data
<1> QED
  BY <1>1, <1>7, <1>8

LEMMA DemodulateInv == ASSUME IInv, Demodulate PROVE IInv'
<1>1. /\ pc = "demod" /\ pc' = "demod" /\ numChan = 2 /\ demodFMForRaw
      /\ i < downSampleAvail /\ i' = i + 1
      /\ UNCHANGED <<numChan, downSampleFactor, configured, asked, demodFMForRaw, frames,
                     avail, downSampleCount, chan, last, downSampleAvail>>
  BY DEF Demodulate, setting
<1>2. TypeOK /\ (configured => Reduced)
  BY <1>1 DEF IInv, Data
<1>3. /\ frames \in Nat /\ avail \in Nat /\ last \in Nat
      /\ downSampleAvail \in 0..avail /\ downSampleAvail \in Nat /\ i \in 0..(avail - 1)
      /\ sampleBuf \in [1..2 -> [0..(avail - 1) -> Samples]]
  BY <1>1, <1>2, DownsamplingAssumption DEF TypeOK
<1> DEFINE c0 == (i % 2) + 1  k0 == i \div 2  s0 == Demodulated(sampleBuf[1][i], sampleBuf[2][i])
<1>4. /\ c0 \in 1..2 /\ k0 \in 0..(avail - 1) /\ k0 <= i
      /\ \A p \in 0..(i - 1) : /\ (p % 2) + 1 \in 1..2 /\ p \div 2 \in 0..(avail - 1)
                               /\ ~((p % 2) + 1 = c0 /\ p \div 2 = k0)
  BY <1>3
<1>5. sampleBuf' = [sampleBuf EXCEPT ![c0][k0] = s0]
  <2>1. /\ ((2 * i) % 2) + 1 = 1 /\ (2 * i) \div 2 = i
        /\ ((2 * i + 1) % 2) + 1 = 2 /\ (2 * i + 1) \div 2 = i
    BY <1>3
  <2>2. Interleaved(2 * i) = sampleBuf[1][i] /\ Interleaved(2 * i + 1) = sampleBuf[2][i]
    BY <2>1 DEF Interleaved
  <2> QED
    BY <2>2 DEF Demodulate, Turn
<1>6. s0 \in Samples
  <2>1. sampleBuf[1][i] \in Samples /\ 1 \in 1..2
    BY <1>3
  <2>2. sampleBuf[1][i].frame \in 1..MaxFrames
    BY <2>1 DEF Samples
  <2> QED
    BY <2>2 DEF Demodulated, Sample, Samples
<1> HIDE DEF s0
<1>7. /\ sampleBuf' \in [1..2 -> [0..(avail - 1) -> Samples]]
      /\ sampleBuf'[c0][k0] = s0
      /\ \A c \in 1..2 : \A k \in 0..(avail - 1) :
           ~(c = c0 /\ k = k0) => sampleBuf'[c][k] = sampleBuf[c][k]
  <2> HIDE DEF c0, k0
  <2>1. sampleBuf' = [sampleBuf EXCEPT ![c0] = [sampleBuf[c0] EXCEPT ![k0] = s0]]
    BY <1>5
  <2>2. sampleBuf[c0] \in [0..(avail - 1) -> Samples]
    BY <1>3, <1>4
  <2>3. [sampleBuf[c0] EXCEPT ![k0] = s0] \in [0..(avail - 1) -> Samples]
    BY <1>6, <2>2
  <2> QED
    BY <1>3, <1>4, <2>1, <2>2, <2>3
<1>8. TypeOK'
  <2>1. i' \in 0..avail'
    BY <1>1, <1>3
  <2> QED
    BY <1>1, <1>2, <1>7, <2>1 DEF TypeOK
<1>9. ASSUME configured PROVE Reduced'
  <2> DEFINE s == Spacing  d == downSampleAvail
  <2>1. Spacing' = s /\ Reduced /\ s \in Nat \ {0}
    BY <1>1, <1>2, <1>9, Spaced DEF Spacing
  <2>2. ASSUME NEW c \in 1..2, NEW k \in (i + 1)..(d - 1)
        PROVE  sampleBuf'[c][k] = Sample(last + (k + 1) * s, c)
    <3>1. k \in i..(d - 1) /\ k \in 0..(avail - 1) /\ k # k0
      BY <1>3, <1>4
    <3>2. sampleBuf'[c][k] = sampleBuf[c][k]
      BY <1>7, <3>1
    <3> QED
      BY <1>1, <2>1, <3>1, <3>2 DEF Reduced
  <2>3. ASSUME NEW p \in 0..i PROVE Interleaved(p)' = Sample(last + (p + 1) * s, 0)
    <3>1. Interleaved(p)' = sampleBuf'[(p % 2) + 1][p \div 2]
      BY DEF Interleaved
    <3>2. CASE p = i
      <4>1. i \in i..(d - 1) /\ 1 \in 1..2 /\ 2 \in 1..2
        BY <1>1, <1>3
      <4>2. /\ sampleBuf[1][i] = Sample(last + (i + 1) * s, 1)
            /\ sampleBuf[2][i] = Sample(last + (i + 1) * s, 2)
        BY <1>1, <2>1, <4>1 DEF Reduced
      <4>3. \A f, c : Sample(f, c).frame = f
        BY DEF Sample
      <4>4. s0 = Sample(last + (i + 1) * s, 0)
        BY <4>2, <4>3 DEF s0, Demodulated
      <4> QED
        BY <1>7, <3>1, <3>2, <4>4
    <3>3. CASE p # i
      <4>1. p \in 0..(i - 1)
        BY <1>3, <3>3
      <4>2. sampleBuf'[(p % 2) + 1][p \div 2] = sampleBuf[(p % 2) + 1][p \div 2]
        BY <1>4, <1>7, <4>1
      <4>3. Interleaved(p) = Sample(last + (p + 1) * s, 0)
        BY <2>1, <4>1 DEF Reduced
      <4> QED
        BY <3>1, <4>2, <4>3 DEF Interleaved
    <3> QED
      BY <3>2, <3>3
  <2>4. i' <= d /\ \A p : p \in 0..(i' - 1) => p \in 0..i
    BY <1>1, <1>3
  <2>5. \A c \in 1..2 : Follows(downSampleCount[c], last, s, frames, d)
    BY <1>1, <2>1 DEF Reduced
  <2> HIDE DEF s, d, c0, k0
  <2>6. /\ i' <= downSampleAvail'
        /\ \A c \in 1..numChan' :
             /\ Follows(downSampleCount'[c], last', s, frames', downSampleAvail')
             /\ \A k \in i'..(downSampleAvail' - 1) :
                  sampleBuf'[c][k] = Sample(last' + (k + 1) * s, c)
        /\ \A p \in 0..(i' - 1) : Interleaved(p)' = Sample(last' + (p + 1) * s, 0)
    BY <1>1, <2>2, <2>3, <2>4, <2>5 DEF d
  <2> QED
    BY <1>1, <2>1, <2>6 DEF Reduced
<1> QED
  BY <1>1, <1>8, <1>9 DEF IInv, Data

LEMMA EndDemodulationInv == ASSUME IInv, EndDemodulation PROVE IInv'
<1>1. /\ pc = "demod" /\ pc' = "hand" /\ ~(numChan = 2 /\ demodFMForRaw /\ i < downSampleAvail)
      /\ UNCHANGED <<numChan, downSampleFactor, configured, asked, demodFMForRaw, frames, i,
                     avail, sampleBuf, downSampleCount, chan, last, downSampleAvail>>
  BY DEF EndDemodulation, setting
<1>2. TypeOK /\ (configured => Reduced)
  BY <1>1 DEF IInv, Data
<1>3. TypeOK'
  BY <1>1, <1>2 DEF TypeOK
<1>4. ASSUME configured PROVE Reduced'
  BY <1>1, <1>2, <1>4 DEF Reduced, Interleaved, Spacing
<1>5. configured /\ numChan = 2 /\ demodFMForRaw => i = downSampleAvail
  BY <1>1, <1>2, DownsamplingAssumption DEF TypeOK, Reduced
<1> QED
  BY <1>1, <1>3, <1>4, <1>5 DEF IInv, Data

LEMMA HandOverInv == ASSUME IInv, HandOver PROVE IInv'
<1>1. /\ pc = "hand" /\ pc' = "idle" /\ avail' = 0 /\ downSampleAvail' = 0 /\ chan' = 1 /\ i' = 0
      /\ sampleBuf' = [c \in 1..2 |-> <<>>]
      /\ last' = IF downSampleAvail = 0 THEN last ELSE LastHanded.frame
      /\ UNCHANGED <<numChan, downSampleFactor, configured, asked, demodFMForRaw,
                     downSampleCount, frames>>
  BY DEF HandOver, setting
<1>2. TypeOK /\ (configured => Reduced)
  BY <1>1 DEF IInv, Data
<1>3. /\ sampleBuf \in [1..2 -> [0..(avail - 1) -> Samples]] /\ avail \in Nat
      /\ downSampleAvail \in 0..avail /\ numChan \in {1, 2} /\ last \in 0..MaxFrames
      /\ frames \in Nat /\ last \in Nat /\ i \in Nat
  BY <1>2, DownsamplingAssumption DEF TypeOK
<1>4. sampleBuf' \in [1..2 -> [0..(avail' - 1) -> Samples]]
  <2>1. 0..(0 - 1) = {}
    OBVIOUS
  <2>2. <<>> \in [{} -> Samples]
    OBVIOUS
  <2> QED
    BY <1>1, <2>1, <2>2
<1>5. last' \in 0..MaxFrames
  <2>1. CASE downSampleAvail # 0
    <3> DEFINE p == downSampleAvail - 1
    <3>1. p \in 0..(avail - 1) /\ (p % 2) + 1 \in 1..2 /\ p \div 2 \in 0..(avail - 1) /\ 1 \in 1..2
      BY <1>3, <2>1
    <3>2. LastHanded \in Samples
      BY <1>3, <3>1 DEF LastHanded, Interleaved
    <3>3. LastHanded.frame \in 1..MaxFrames
      BY <3>2 DEF Samples
    <3> QED
      BY <1>1, <2>1, <3>3
  <2> QED
    BY <1>1, <1>3, <2>1
<1>6. TypeOK'
  <2>1. avail' \in 0..frames /\ chan' \in 1..numChan /\ i' \in 0..avail' /\ downSampleAvail' \in 0..avail'
    BY <1>1, <1>2, DownsamplingAssumption DEF TypeOK
  <2> QED
    BY <1>1, <1>2, <1>4, <1>5, <2>1 DEF TypeOK
<1>7. ASSUME configured PROVE Resting'
  <2> DEFINE s == Spacing  d == downSampleAvail
  <2>1. s \in Nat \ {0} /\ Spacing' = s /\ 0 * s = 0 /\ d \in Nat /\ d * s \in Nat /\ Reduced
    BY <1>1, <1>2, <1>3, <1>7, Spaced, Steps DEF Spacing
  <2>2. last' = last + d * s
    <3>1. CASE d = 0
      BY <1>1, <1>3, <2>1, <3>1
    <3>2. CASE d # 0
      <4>1. d - 1 \in 0..(d - 1) /\ (d - 1) + 1 = d /\ 1 \in 1..numChan
        BY <1>3, <2>1, <3>2
      <4>2. \A f, c : Sample(f, c).frame = f
        BY DEF Sample
      <4>3. LastHanded.frame = last + ((d - 1) + 1) * s
        <5>1. CASE numChan = 2 /\ demodFMForRaw
          <6>1. i = d
            BY <1>1, <1>7, <5>1 DEF IInv, Data
          <6>2. Interleaved(d - 1) = Sample(last + ((d - 1) + 1) * s, 0)
            BY <2>1, <4>1, <6>1 DEF Reduced
          <6> QED
            BY <4>2, <5>1, <6>2 DEF LastHanded
        <5>2. CASE ~(numChan = 2 /\ demodFMForRaw)
          <6>1. i = 0
            BY <2>1, <5>2 DEF Reduced
          <6>2. sampleBuf[1][d - 1] = Sample(last + ((d - 1) + 1) * s, 1)
            BY <2>1, <4>1, <6>1 DEF Reduced
          <6> QED
            BY <4>2, <5>2, <6>2 DEF LastHanded
        <5> QED
          BY <5>1, <5>2
      <4> QED
        BY <1>1, <3>2, <4>1, <4>3
    <3> QED
      BY <3>1, <3>2
  <2>3. ASSUME NEW c \in 1..numChan PROVE Follows(downSampleCount[c], last', s, frames, 0)
    <3>1. Follows(downSampleCount[c], last, s, frames, d)
      BY <2>1 DEF Reduced
    <3>2. last' + 0 * s = last + d * s
      BY <1>3, <2>1, <2>2
    <3> HIDE DEF s, d
    <3> QED
      BY <3>1, <3>2 DEF Follows
  <2> QED
    BY <1>1, <2>1, <2>3 DEF Resting
<1> QED
  BY <1>1, <1>6, <1>7 DEF IInv, Data

LEMMA StutterInv == ASSUME IInv, UNCHANGED vars PROVE IInv'
<1>1. UNCHANGED <<numChan, downSampleFactor, configured, asked, demodFMForRaw, downSampleCount,
                  frames, last, avail, sampleBuf, pc, chan, i, downSampleAvail>>
  BY DEF vars, setting
<1>2. TypeOK' /\ (pc' = "loop" => downSampleFactor' > 1)
  BY <1>1 DEF IInv, TypeOK
<1>3. configured' => Data'
  BY <1>1 DEF IInv, Data, Resting, Looping, Reduced, Interleaved, Spacing
<1> QED
  BY <1>2, <1>3 DEF IInv

LEMMA Invariance == Spec => []IInv
<1>1. IInv /\ [Next]_vars => IInv'
  BY CommandInv, GetFramesInv, SkipInv, KeepInv, NextChannelInv, DemodulateInv, EndDemodulationInv,
     HandOverInv, StutterInv DEF Next
<1> QED
  BY <1>1, InitInv, PTL DEF Spec

-----------------------------------------------------------------------------
(***************************************************************************)
(* The loop of handleEvents writes into the buffer it reads from, but      *)
(* never beyond the frame it has read; counters and factors are int16_t,   *)
(* whatever memory held before (DevMinder.cpp:203-239).                    *)
(***************************************************************************)
THEOREM TypeCorrect == Spec => []TypeOK
<1>1. IInv => TypeOK
  BY DEF IInv
<1> QED
  BY <1>1, Invariance, PTL

(***************************************************************************)
(* Once a raw listener has been added, what is kept are the frames a       *)
(* factor apart, from call to call and in both channels alike, for every   *)
(* factor and however the stream is cut (DevMinder.cpp:203-239, 65-76).    *)
(***************************************************************************)
THEOREM StreamDownsampled == Spec => []Downsampled
<1>1. ASSUME IInv, configured, pc = "demod", i = 0, NEW c \in 1..numChan
      PROVE  /\ \A k \in 0..(downSampleAvail - 1) :
                  sampleBuf[c][k] = Sample(KeptBefore(c, k) + Spacing, c)
             /\ frames - KeptBefore(c, downSampleAvail) \in 0..(Spacing - 1)
  <2> DEFINE s == Spacing  d == downSampleAvail
  <2>1. Reduced /\ TypeOK
    BY <1>1 DEF IInv, Data
  <2>2. s \in Nat \ {0} /\ d \in Nat /\ last \in Int
    BY <2>1, Spaced, DownsamplingAssumption DEF TypeOK
  <2>3. \A k \in 0..(d - 1) : sampleBuf[c][k] = Sample(last + (k + 1) * s, c)
    BY <1>1, <2>1 DEF Reduced
  <2>4. frames - (last + d * s) \in 0..(s - 1)
    BY <2>1 DEF Reduced, Follows
  <2>5. ASSUME NEW k \in 0..d PROVE KeptBefore(c, k) = last + k * s
    <3>1. CASE k = 0
      BY <2>2, <3>1, Steps DEF KeptBefore
    <3>2. CASE k # 0
      <4>1. k - 1 \in 0..(d - 1) /\ (k - 1) + 1 = k
        BY <2>2, <3>2
      <4>2. sampleBuf[c][k - 1].frame = last + k * s
        <5>1. sampleBuf[c][k - 1] = Sample(last + k * s, c)
          BY <2>3, <4>1
        <5>2. \A f, e : Sample(f, e).frame = f
          BY DEF Sample
        <5> QED
          BY <5>1, <5>2
      <4> QED
        BY <3>2, <4>2 DEF KeptBefore
    <3> QED
      BY <3>1, <3>2
  <2>6. ASSUME NEW k \in 0..(d - 1) PROVE KeptBefore(c, k) + s = last + (k + 1) * s
    <3> DEFINE p == k * s
    <3>1. k \in 0..d /\ k \in Nat
      BY <2>2
    <3>2. p \in Nat /\ (k + 1) * s = p + s /\ KeptBefore(c, k) = last + p
      BY <2>2, <2>5, <3>1, Steps
    <3> HIDE DEF p
    <3> QED
      BY <2>2, <3>2
  <2>7. d \in 0..d
    BY <2>2
  <2> QED
    BY <2>3, <2>4, <2>5, <2>6, <2>7
<1>2. IInv => Downsampled
  BY <1>1 DEF Downsampled, EveryFactorth, NothingSkipped
<1> QED
  BY <1>2, Invariance, PTL

(***************************************************************************)
(* Demodulation in place reads each sample before it is overwritten: the   *)
(* buffer then begins with one sample for each frame kept, in order        *)
(* (DevMinder.cpp:240-257).                                                *)
(***************************************************************************)
THEOREM InPlaceInOrder == Spec => []DemodulatedInOrder
<1>1. ASSUME IInv, configured, pc = "hand", numChan = 2, demodFMForRaw
      PROVE  \A p \in 0..(downSampleAvail - 1) :
               Interleaved(p) = Sample(last + (p + 1) * Spacing, 0)
  <2>1. Reduced /\ i = downSampleAvail
    BY <1>1 DEF IInv, Data
  <2> QED
    BY <2>1 DEF Reduced
<1>2. IInv => DemodulatedInOrder
  BY <1>1 DEF DemodulatedInOrder
<1> QED
  BY <1>2, Invariance, PTL

=============================================================================
