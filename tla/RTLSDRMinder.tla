---------------------------- MODULE RTLSDRMinder ----------------------------
(***************************************************************************)
(* RTLSDRMinder: the choice of the hardware rate, and taking apart the     *)
(* byte stream of rtl_tcp (hw_handleEvents and hw_getFrames).              *)
(*                                                                         *)
(* The stream is a sequence of segments, each a header with the size of    *)
(* the segment and the time of its first sample, and samples of one byte,  *)
(* two for a frame.  It arrives cut in pieces anywhere.  Time is counted   *)
(* in samples, that is in half frames.                                     *)
(***************************************************************************)
EXTENDS Integers

CONSTANTS
  Rates,      (* rates asked for                                            *)
  HdrSize,    (* sizeof(stream_segment_hdr_t)                               *)
  Segments,   (* bound: segments in the stream                              *)
  Streams,    (* what rtl_tcp may send: where segments begin, and their times *)
  Reads,      (* numbers of bytes FIONREAD may report                       *)
  NumChan,    (* channels the device was opened with                        *)
  BufSize     (* capacity of sampleBuf at first (RTLSDR_FRAMES * numChan)   *)

\* Segments are not empty; between two of them samples may be lost.
Sent(s) ==
  /\ s \in [start : [0..Segments -> Nat], ts : [0..Segments -> Nat]]
  /\ s.start[0] = 0
  /\ \A j, k \in 0..Segments : j < k => s.start[k] > s.start[j] + HdrSize
  /\ \A k \in 0..(Segments - 1) :
       s.ts[k + 1] >= s.ts[k] + s.start[k + 1] - s.start[k] - HdrSize

ASSUME RTLSDRAssumption ==
  /\ Rates \subseteq {r \in Nat : 0 < r /\ r <= 3200000}
  /\ HdrSize \in Nat \ {0}
  /\ Segments \in Nat \ {0}
  /\ \A s \in Streams : Sent(s)
  /\ Reads \subseteq Nat \ {0}
  /\ NumChan \in {1, 2}
  /\ BufSize \in Nat

VARIABLES
  rate, hwRate,
  tries,             \* history: rates tried
  stream,            \* what is sent; never changes
  pos,               \* number of bytes received
  header,            \* header of the current segment; not yet whole while segi < HdrSize
  segi, bytesAvail,
  capacity,          \* of sampleBuf, in samples
  pc,                \* "rate": in getHWRateForRate; "idle"; "loop": in hw_getFrames
  sampleBytesCopied,
  stampSum, numTSest,   \* stampSum: frameTimestamp until it is divided by numTSest
  first              \* history: the true time of the first sample of the call

frameVars == <<pos, header, segi, bytesAvail, capacity, sampleBytesCopied, stampSum,
               numTSest, first>>
rates == <<rate, hwRate, tries>>
vars == <<rates, stream, pc, frameVars>>

-----------------------------------------------------------------------------
\* The rates the hardware can sample at.
Legal(r) == (225001 <= r /\ r <= 300000) \/ (900001 <= r /\ r <= 3200000)

Torn == [size |-> 0, ts |-> 0]

Init ==
  /\ rate \in Rates /\ hwRate = rate /\ tries = 1
  /\ stream \in Streams /\ pos = 0
  /\ header = Torn /\ segi = 0 /\ bytesAvail = 0
  /\ capacity = BufSize
  /\ pc = "rate"
  /\ sampleBytesCopied = 0 /\ stampSum = 0 /\ numTSest = 0 /\ first = 0

\* Mutant of NextRate: doubling.
NextRateDouble == 2 * hwRate

NextRate == hwRate + rate

\* An iteration of getHWRateForRate.
TryRate ==
  /\ pc = "rate"
  /\ IF Legal(hwRate) THEN pc' = "idle" /\ UNCHANGED <<hwRate, tries>>
                      ELSE pc' = pc /\ hwRate' = NextRate /\ tries' = tries + 1
  /\ UNCHANGED <<rate, stream, frameVars>>

-----------------------------------------------------------------------------
MinOf(a, b) == IF a < b THEN a ELSE b

\* Mutant of FramesIn: rounded down.
FramesInDown(n) == n \div 2

\* The frames hw_handleEvents makes of a number of bytes.
FramesIn(n) == (n + 1) \div 2

\* The time of the first sample, if the header of its segment was read before.
EntryEstimate == header.ts + segi - HdrSize

\* hw_handleEvents, the growth of sampleBuf and the beginning of hw_getFrames.
HandleEvents(n) ==
  /\ pc = "idle" /\ pos + n <= stream.start[Segments]
  /\ bytesAvail' = n
  /\ capacity' = IF FramesIn(n) * NumChan > capacity
                 THEN FramesIn(n) * NumChan ELSE capacity
  /\ IF segi >= HdrSize THEN stampSum' = EntryEstimate /\ numTSest' = 1
                        ELSE UNCHANGED <<stampSum, numTSest>>
  /\ pc' = "loop"
  /\ UNCHANGED <<rates, stream, pos, header, segi, sampleBytesCopied, first>>

HdrBytes == MinOf(HdrSize - segi, bytesAvail)

\* Mutant of DataBytes: size does not include the header.
DataBytesLong == MinOf(header.size + HdrSize - segi, bytesAvail)

DataBytes == MinOf(header.size - segi, bytesAvail)

\* What HdrSize bytes from place p on say if they are taken for a header.
HeaderAt(p) ==
  IF \E k \in 0..(Segments - 1) : stream.start[k] = p
  THEN LET k == CHOOSE k \in 0..(Segments - 1) : stream.start[k] = p
       IN  [size |-> stream.start[k + 1] - p, ts |-> stream.ts[k]]
  ELSE Torn

\* Mutant of Estimate: the samples already copied are forgotten.
EstimateRaw(h) == h.ts

\* The time of the first sample of the call, from a header met on the way.
Estimate(h) == h.ts - sampleBytesCopied

\* An iteration that reads of the header.
ReadHeader ==
  /\ pc = "loop" /\ bytesAvail > 0 /\ HdrBytes > 0
  /\ bytesAvail' = bytesAvail - HdrBytes
  /\ pos' = pos + HdrBytes
  /\ segi' = segi + HdrBytes
  /\ IF segi' = HdrSize
     THEN /\ header' = HeaderAt(pos - segi)
          /\ stampSum' = stampSum + Estimate(header')
          /\ numTSest' = numTSest + 1
     ELSE header' = Torn /\ UNCHANGED <<stampSum, numTSest>>
  /\ UNCHANGED <<rates, stream, pc, capacity, sampleBytesCopied, first>>

\* The segment of stream s that place p is in, and the true time of the sample there.
SegmentOf(s, p) ==
  CHOOSE k \in 0..(Segments - 1) : s.start[k] <= p /\ p < s.start[k + 1]
TimeAt(s, p) ==
  s.ts[SegmentOf(s, p)] + p - s.start[SegmentOf(s, p)] - HdrSize

\* An iteration that reads samples.
ReadData ==
  /\ pc = "loop" /\ bytesAvail > 0 /\ HdrBytes <= 0 /\ DataBytes > 0
  /\ bytesAvail' = bytesAvail - DataBytes
  /\ pos' = pos + DataBytes
  /\ sampleBytesCopied' = sampleBytesCopied + DataBytes
  /\ segi' = IF segi + DataBytes = header.size THEN 0 ELSE segi + DataBytes
  /\ first' = IF sampleBytesCopied = 0 THEN TimeAt(stream, pos) ELSE first
  /\ UNCHANGED <<rates, stream, pc, header, capacity, stampSum, numTSest>>

\* hw_getFrames returns sampleBytesCopied / 2 frames with the average of the
\* estimates; its local variables end here.
Return ==
  /\ pc = "loop" /\ bytesAvail = 0
  /\ pc' = "idle"
  /\ sampleBytesCopied' = 0 /\ stampSum' = 0 /\ numTSest' = 0 /\ first' = 0
  /\ UNCHANGED <<rates, stream, pos, header, segi, bytesAvail, capacity>>

Next ==
  \/ TryRate \/ ReadHeader \/ ReadData \/ Return
  \/ \E n \in Reads : HandleEvents(n)

Spec == Init /\ [][Next]_vars

-----------------------------------------------------------------------------
\* The variables stay in their domains; no more is copied than sampleBuf holds.
TypeOK ==
  /\ rate \in Rates /\ hwRate \in Nat /\ tries \in Nat \ {0}
  /\ stream \in Streams
  /\ pos \in Nat /\ segi \in Nat /\ bytesAvail \in Nat
  /\ header \in [size : Nat, ts : Nat]
  /\ capacity \in Nat /\ sampleBytesCopied \in 0..capacity
  /\ pc \in {"rate", "idle", "loop"}
  /\ stampSum \in Int /\ numTSest \in Nat /\ first \in Nat

(***************************************************************************)
(* hwRate is the "minimum sampling rate that is an integer multiple of     *)
(* desired rate" (RTLSDRMinder.hpp:74), and the search for it ends within  *)
(* what the hardware can do.                                               *)
(***************************************************************************)
RateMinimal ==
  /\ hwRate = tries * rate
  /\ \A m \in 1..(tries - 1) : ~Legal(m * rate)
  /\ hwRate <= 3200000
  /\ pc # "rate" => Legal(hwRate)

(***************************************************************************)
(* However the stream is cut, the code knows where in which segment it is, *)
(* so no header is taken for samples and no sample for a header.           *)
(***************************************************************************)
Framed ==
  pos < stream.start[Segments] =>
    /\ segi = pos - stream.start[SegmentOf(stream, pos)]
    /\ segi >= HdrSize => header = HeaderAt(stream.start[SegmentOf(stream, pos)])

(***************************************************************************)
(* If no samples are lost the timestamp of a call is the time of its first *)
(* sample; else it is no earlier, and late by no more than what was lost   *)
(* during the call.                                                        *)
(***************************************************************************)
LatestEstimate ==
  (IF segi >= HdrSize THEN header.ts + segi - HdrSize ELSE TimeAt(stream, pos - segi - 1) + 1)
    - sampleBytesCopied

StampBounds ==
  pc = "loop" /\ sampleBytesCopied > 0 =>
    /\ numTSest > 0
    /\ stampSum >= numTSest * first
    /\ stampSum <= numTSest * LatestEstimate

\* What is true only if the numbers of bytes read are even (see README): a call
\* ends between two frames.
FramesWhole == pc = "loop" /\ bytesAvail = 0 => sampleBytesCopied % 2 = 0
=============================================================================
