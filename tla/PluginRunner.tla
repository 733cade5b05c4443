---------------------------- MODULE PluginRunner ----------------------------
(***************************************************************************)
(* PluginRunner::loadPlugin and handleData (PluginRunner.cpp): frames from *)
(* a device arrive in pieces of any size and are given to the plugin in    *)
(* overlapping blocks, each with the time of its first frame.              *)
(*                                                                         *)
(* Frames are numbered from 1 as the device delivers them; a sample is     *)
(* modelled by the number of its frame.  Time is counted in frame periods. *)
(* One step is one iteration of the loop of handleData.                    *)
(***************************************************************************)
EXTENDS Integers, Sequences

CONSTANTS
  Preferred,      (* pairs <<block size, step size>> a plugin may prefer, 0: any *)
  DefaultBlock,   (* block size for a plugin without preference (1024)            *)
  ChannelNums,    (* numbers of channels a device may have                        *)
  MaxFrames,      (* bound: frames delivered by the device                        *)
  Gaps            (* frames the device may lose before a call (stop and start)    *)

ASSUME PluginRunnerAssumption ==
  /\ Preferred \subseteq Nat \X Nat
  /\ DefaultBlock \in Nat \ {0}
  /\ ChannelNums \subseteq {1, 2}
  /\ MaxFrames \in Nat
  /\ Gaps \subseteq Nat

VARIABLES
  numChan,           \* channels of the device; never changes
  blockSize, stepSize,
  plugbuf,           \* 0..blockSize-1 -> frame, 0 for memory no frame was copied to
  framesInPlugBuf,
  totalFrames,
  avail,             \* frames of the current call still to be copied, 0 between calls
  chunk,             \* frames of the current call
  frameTimestamp,    \* of the first frame in plugbuf, while a call is under way
  times,             \* history: when the hardware took each frame
  blocks,            \* history: number of calls of process()
  block,             \* history: the last of them
  alive

sizes == <<numChan, blockSize, stepSize>>
vars  == <<sizes, plugbuf, framesInPlugBuf, totalFrames, avail, chunk,
           frameTimestamp, times, blocks, block, alive>>

-----------------------------------------------------------------------------
\* The block size loadPlugin starts from.
BlockWanted(pref) == IF pref[1] = 0 THEN DefaultBlock ELSE pref[1]

StepFor(pref) == IF pref[2] = 0 THEN BlockWanted(pref) ELSE pref[2]

\* A step longer than the block makes the block longer.
BlockFor(pref) ==
  IF StepFor(pref) > BlockWanted(pref) THEN StepFor(pref) ELSE BlockWanted(pref)

Init ==
  /\ numChan \in ChannelNums
  /\ \E pref \in Preferred :
       /\ blockSize = BlockFor(pref)
       /\ stepSize = StepFor(pref)
  /\ plugbuf = [i \in 0..(blockSize - 1) |-> 0]
  /\ framesInPlugBuf = 0
  /\ totalFrames = 0
  /\ avail = 0
  /\ chunk = 0
  /\ frameTimestamp = 0
  /\ times = <<>>
  /\ blocks = 0
  /\ block = [frames |-> <<>>, stamp |-> 0]
  /\ alive = TRUE

\* Mutant of EntryStamp: the frames already in the buffer are forgotten.
EntryStampRaw(ts) == ts

\* The time of the first frame in the buffer, from that of the first new one.
EntryStamp(ts) == ts - framesInPlugBuf

(***************************************************************************)
(* DevMinder::handleEvents calls handleData with n frames, the first taken *)
(* at time ts; frames are consecutive within a call.                       *)
(***************************************************************************)
HandleData(n, gap) ==
  LET ts == IF times = <<>> THEN gap ELSE times[Len(times)] + 1 + gap IN
  /\ alive /\ avail = 0
  /\ Len(times) + n <= MaxFrames
  /\ avail' = n
  /\ chunk' = n
  /\ times' = times \o [i \in 1..n |-> ts + i - 1]
  /\ frameTimestamp' = EntryStamp(ts)
  /\ UNCHANGED <<sizes, plugbuf, framesInPlugBuf, totalFrames, blocks, block, alive>>

(***************************************************************************)
(* The device passes src0 = &sampleBuf[0] and step = 2 whatever its number *)
(* of channels: the k-th frame copied in a call (from 0) is frame k of the *)
(* call on a stereo device and frame 2k on a mono device, where the second *)
(* half comes from beyond the new samples.                                 *)
(***************************************************************************)
Seen(k) ==
  LET i == IF numChan = 2 THEN k ELSE 2 * k
  IN  IF i < chunk THEN Len(times) - chunk + i + 1 ELSE 0

\* Mutant of ToCopy: all that is there, whatever the room in the buffer.
ToCopyAll == avail

ToCopy == IF avail < blockSize - framesInPlugBuf THEN avail ELSE blockSize - framesInPlugBuf

\* plugbuf after n more frames have been copied.
Filled(n) ==
  [i \in 0..(blockSize - 1) |->
     IF i \in framesInPlugBuf..(framesInPlugBuf + n - 1)
     THEN Seen(chunk - avail + i - framesInPlugBuf) ELSE plugbuf[i]]

\* Mutant of Shifted: the overlap is not moved to the front.
Unshifted(buf) == buf

\* memmove of the overlap to the front; the rest of the buffer stays.
Shifted(buf) ==
  [i \in 0..(blockSize - 1) |-> IF i < blockSize - stepSize THEN buf[i + stepSize] ELSE buf[i]]

\* Mutant of Kept: no overlap between blocks.
KeptNone == 0

\* Frames that stay in the buffer for the next block.
Kept == IF stepSize < blockSize THEN blockSize - stepSize ELSE 0

NextStamp(ts) == IF stepSize < blockSize THEN ts + stepSize ELSE ts + blockSize

(***************************************************************************)
(* An iteration that leaves the block incomplete, and one that completes   *)
(* it: process() is called and the buffer shifted.                         *)
(***************************************************************************)
CopyPart ==
  /\ alive /\ avail > 0
  /\ framesInPlugBuf + ToCopy # blockSize
  /\ plugbuf' = Filled(ToCopy)
  /\ framesInPlugBuf' = framesInPlugBuf + ToCopy
  /\ totalFrames' = totalFrames + ToCopy
  /\ avail' = avail - ToCopy
  /\ UNCHANGED <<sizes, chunk, frameTimestamp, times, blocks, block, alive>>

Process ==
  /\ alive /\ avail > 0
  /\ framesInPlugBuf + ToCopy = blockSize
  /\ block' = [frames |-> Filled(ToCopy), stamp |-> frameTimestamp]
  /\ blocks' = blocks + 1
  /\ plugbuf' = IF stepSize < blockSize THEN Shifted(Filled(ToCopy)) ELSE Filled(ToCopy)
  /\ framesInPlugBuf' = Kept
  /\ frameTimestamp' = NextStamp(frameTimestamp)
  /\ totalFrames' = totalFrames + ToCopy
  /\ avail' = avail - ToCopy
  /\ UNCHANGED <<sizes, chunk, times, alive>>

(***************************************************************************)
(* The device's src1 is never NULL, so with one channel the copy of the    *)
(* second goes through plugbuf[1], which does not exist.  That is          *)
(* undefined: it may go unnoticed or end the process.                      *)
(***************************************************************************)
Crash ==
  /\ alive /\ avail > 0 /\ numChan = 1
  /\ alive' = FALSE
  /\ UNCHANGED <<sizes, plugbuf, framesInPlugBuf, totalFrames, avail, chunk,
                 frameTimestamp, times, blocks, block>>

Next ==
  \/ CopyPart \/ Process \/ Crash
  \/ \E n \in 1..MaxFrames, gap \in Gaps : HandleData(n, gap)

Spec == Init /\ [][Next]_vars

-----------------------------------------------------------------------------
\* The variables stay in their domains; plugbuf is never filled past its end.
TypeOK ==
  /\ numChan \in {1, 2}
  /\ blockSize \in Nat \ {0}
  /\ stepSize \in 1..blockSize
  /\ plugbuf \in [0..(blockSize - 1) -> Nat]
  /\ framesInPlugBuf \in 0..(blockSize - 1)
  /\ totalFrames \in Nat
  /\ avail \in Nat
  /\ chunk \in Nat
  /\ frameTimestamp \in Int
  /\ times \in Seq(Nat)
  /\ blocks \in Nat
  /\ alive \in BOOLEAN

\* The frames of block n.
Window(n) == [i \in 0..(blockSize - 1) |-> n * stepSize + i + 1]

\* The last block; on a mono device, where the samples are wrong, the one it should be.
LastWindow == IF numChan = 2 \/ blocks = 0 THEN block.frames ELSE Window(blocks - 1)

(***************************************************************************)
(* The plugin of a stereo device sees its stream as consecutive            *)
(* overlapping windows, however it arrives; that of a mono device is given *)
(* as many blocks, as early (handleData against BlockStream).              *)
(***************************************************************************)
Stream ==
  INSTANCE BlockStream WITH delivered <- totalFrames + avail,
                            emitted <- blocks, window <- LastWindow

ImplementsStream == Stream!Spec

(***************************************************************************)
(* The last block handed to the plugin is its window (only true of stereo  *)
(* devices, see README).                                                   *)
(***************************************************************************)
BlockIsWindow == blocks > 0 => block.frames = Window(blocks - 1)

(***************************************************************************)
(* Every block is stamped so that its newest frame, just received, has the *)
(* time the hardware took it; a loss of data between stop and start is     *)
(* reflected from the first block that contains newer frames.              *)
(***************************************************************************)
StampOfNewest ==
  blocks > 0 =>
    block.stamp + blockSize - 1 = times[(blocks - 1) * stepSize + blockSize]

\* From one block to the next time advances by a step or, after a loss, by more.
StampsAdvance ==
  [][blocks' > blocks /\ blocks > 0 => block'.stamp >= block.stamp + stepSize]_vars

(***************************************************************************)
(* No complete block is withheld: when handleData has returned, every      *)
(* window that is complete has been handed over, and no other.             *)
(***************************************************************************)
NothingWithheld ==
  avail = 0 => /\ blocks * stepSize + blockSize > totalFrames
               /\ blocks > 0 => (blocks - 1) * stepSize + blockSize <= totalFrames
=============================================================================
