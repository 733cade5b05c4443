---------------------------- MODULE Downsampling ----------------------------
(***************************************************************************)
(* The data path of DevMinder::handleEvents: the frames of a call are      *)
(* downsampled in the buffer, one channel after the other and with         *)
(* counters that run on from call to call, demodulated if that is asked    *)
(* for, and handed to raw listeners and plugins; and the commands that     *)
(* change it.                                                              *)
(*                                                                         *)
(* Frames are numbered from 1; a sample is the frame and the channel it    *)
(* was taken from, channel 0 for a demodulated one.  Place k of channel c  *)
(* is place k * numChan + c - 1 of sampleBuf.  No caller asks for          *)
(* averaging (downSampleUseAvg), whose loop takes the same steps.          *)
(***************************************************************************)
EXTENDS Integers

CONSTANTS
  Listeners,    (* labels of raw listeners                                  *)
  Factors,      (* hwRate / rate for the rates listeners ask for, rounded   *)
                (* down: 0 for a rate above that of the hardware            *)
  PluginFactor, (* hwRate / rate for the rate given to open                 *)
  ChannelNums,  (* numbers of channels considered                           *)
  Leftover,     (* what memory may hold where a counter is not initialized  *)
  MaxShort,     (* largest int16_t                                          *)
  Alsa,         (* is it a sound card?                                      *)
  BufferFrames, (* frames there is room for in sampleBuf                    *)
  MaxFrames     (* bound: frames delivered by the device                    *)

ASSUME DownsamplingAssumption ==
  /\ MaxShort \in Nat \ {0}
  /\ Factors \subseteq Nat
  /\ PluginFactor \in 1..MaxShort
  /\ ChannelNums \subseteq {1, 2}
  /\ Leftover \subseteq (-MaxShort - 1)..MaxShort
  /\ Alsa \in BOOLEAN
  /\ BufferFrames \in Nat /\ MaxFrames \in Nat

VARIABLES
  numChan,
  downSampleFactor,
  downSampleCount,   \* per channel
  configured,        \* a listener has been added: the counters have been set
  asked,             \* per listener: the factor it asked for, -1: not listening
  demodFMForRaw,
  frames,            \* number of frames delivered so far
  last,              \* the last frame kept by earlier calls, or the frame before
                     \* the counters were set
  avail,             \* frames of the current call
  sampleBuf,         \* per channel: place 0..avail-1 -> sample
  pc,                \* "idle", "loop", "demod", "hand"; "crashed" with the server
  chan, i,           \* the loops: channel, and next frame to be looked at
  downSampleAvail    \* frames kept in this channel and call

setting == <<numChan, downSampleFactor, configured, asked, demodFMForRaw>>
vars == <<setting, downSampleCount, frames, last, avail, sampleBuf, pc, chan, i,
          downSampleAvail>>

Sample(f, c) == [frame |-> f, chan |-> c]

\* n as int16_t, the type of downSampleFactor and downSampleCount.
Short(n) == ((n + MaxShort + 1) % (2 * (MaxShort + 1))) - MaxShort - 1

-----------------------------------------------------------------------------
Init ==
  /\ numChan \in ChannelNums
  /\ downSampleFactor = PluginFactor
  /\ downSampleCount \in [1..2 -> Leftover]
  /\ configured = FALSE
  /\ asked = [l \in Listeners |-> -1]
  /\ demodFMForRaw = FALSE
  /\ frames = 0 /\ last = 0 /\ avail = 0
  /\ sampleBuf = [c \in 1..2 |-> <<>>]
  /\ pc = "idle" /\ chan = 1 /\ i = 0 /\ downSampleAvail = 0

FullCounts(f) == [c \in 1..2 |-> Short(f)]

\* addRawListener: the first listener decides about the factor and restarts the count.
AddRawListener(l, f) ==
  /\ pc = "idle"
  /\ asked' = [asked EXCEPT ![l] = f]
  /\ IF \A m \in Listeners \ {l} : asked[m] = -1
     THEN /\ downSampleFactor' = Short(f)
          /\ downSampleCount' = FullCounts(f)
          /\ configured' = TRUE
          /\ last' = frames
     ELSE UNCHANGED <<downSampleFactor, downSampleCount, configured, last>>
  /\ UNCHANGED <<numChan, demodFMForRaw, frames, avail, sampleBuf, pc, chan, i,
                 downSampleAvail>>

(***************************************************************************)
(* A division by zero ends the server: hwRate / rate for a rate of 0, and  *)
(* hwRate / downSampleFactor, for the WAV header of rawStream, for a rate  *)
(* above that of the hardware.                                             *)
(***************************************************************************)
DivideByZero ==
  /\ pc = "idle"
  /\ pc' = "crashed"
  /\ UNCHANGED <<setting, downSampleCount, frames, last, avail, sampleBuf, chan, i,
                 downSampleAvail>>

\* removeRawListener, or the listener is found to have gone.
RemoveRawListener(l) ==
  /\ pc = "idle"
  /\ asked' = [asked EXCEPT ![l] = -1]
  /\ UNCHANGED <<numChan, downSampleFactor, configured, demodFMForRaw, downSampleCount,
                 frames, last, avail, sampleBuf, pc, chan, i, downSampleAvail>>

SetDemodFMForRaw(on) ==
  /\ pc = "idle"
  /\ demodFMForRaw' = on
  /\ UNCHANGED <<numChan, downSampleFactor, configured, asked, downSampleCount, frames,
                 last, avail, sampleBuf, pc, chan, i, downSampleAvail>>

-----------------------------------------------------------------------------
\* hw_getFrames has put n > 0 frames into the buffer.
GetFrames(n) ==
  /\ pc = "idle"
  /\ frames + n <= MaxFrames /\ n <= BufferFrames
  /\ frames' = frames + n
  /\ avail' = n
  /\ sampleBuf' = [c \in 1..2 |-> [k \in 0..(n - 1) |-> Sample(frames + 1 + k, c)]]
  /\ chan' = 1 /\ i' = 0
  /\ IF downSampleFactor > 1
     THEN pc' = "loop" /\ downSampleAvail' = 0
     ELSE pc' = "demod" /\ downSampleAvail' = n
  /\ UNCHANGED <<setting, downSampleCount, last>>

(***************************************************************************)
(* AlsaMinder::hw_getFrames copies 2 * n pairs of samples if the device    *)
(* has two channels.  Past the end of the buffer that is undefined: it may *)
(* go unnoticed or end the process.                                        *)
(***************************************************************************)
Overrun(n) ==
  /\ pc = "idle" /\ Alsa /\ numChan = 2
  /\ frames + n <= MaxFrames /\ n <= BufferFrames
  /\ n * numChan > BufferFrames
  /\ pc' = "crashed"
  /\ UNCHANGED <<setting, downSampleCount, frames, last, avail, sampleBuf, chan, i,
                 downSampleAvail>>

\* Mutant of FirstPlace: the second channel goes on where the first has ended.
FirstPlaceKept == downSampleAvail

\* Where a channel of the loop begins to write.
FirstPlace == 0

\* --downSampleCount[chan].
Decremented(n) == Short(n - 1)

\* Mutant of Reload: the frame just kept is counted again.
ReloadEarly == Short(downSampleFactor - 1)

Reload == downSampleFactor

\* An iteration that skips a frame, and one that keeps it.
Skip ==
  /\ pc = "loop" /\ i < avail
  /\ Decremented(downSampleCount[chan]) # 0
  /\ downSampleCount' =
       [downSampleCount EXCEPT ![chan] = Decremented(downSampleCount[chan])]
  /\ i' = i + 1
  /\ UNCHANGED <<setting, frames, last, avail, sampleBuf, pc, chan, downSampleAvail>>

Keep ==
  /\ pc = "loop" /\ i < avail
  /\ Decremented(downSampleCount[chan]) = 0
  /\ downSampleCount' = [downSampleCount EXCEPT ![chan] = Reload]
  /\ sampleBuf' = [sampleBuf EXCEPT ![chan][downSampleAvail] = sampleBuf[chan][i]]
  /\ downSampleAvail' = downSampleAvail + 1
  /\ i' = i + 1
  /\ UNCHANGED <<setting, frames, last, avail, pc, chan>>

NextChannel ==
  /\ pc = "loop" /\ i = avail
  /\ IF chan < numChan
     THEN chan' = chan + 1 /\ i' = 0 /\ downSampleAvail' = FirstPlace /\ pc' = pc
     ELSE pc' = "demod" /\ i' = 0 /\ UNCHANGED <<chan, downSampleAvail>>
  /\ UNCHANGED <<setting, downSampleCount, frames, last, avail, sampleBuf>>

-----------------------------------------------------------------------------
\* The sample at place p of the interleaved buffer of a stereo device.
Interleaved(p) == sampleBuf[(p % 2) + 1][p \div 2]

(***************************************************************************)
(* The change of the angle of a frame, from its two samples: they must be  *)
(* those of one frame for it to mean anything (channel 3 if they are not). *)
(***************************************************************************)
Demodulated(a, b) ==
  Sample(a.frame, IF a = Sample(a.frame, 1) /\ b = Sample(a.frame, 2) THEN 0 ELSE 3)

\* Mutant of Turn: from the last frame to the first.
TurnBackwards == downSampleAvail - 1 - i

\* The frame an iteration of the demodulation takes, and the place it writes.
Turn == i

(***************************************************************************)
(* An iteration of the demodulation, in place: frame i takes up the places *)
(* 2 * i and 2 * i + 1, and its demodulated sample place i.                *)
(***************************************************************************)
Demodulate ==
  /\ pc = "demod" /\ numChan = 2 /\ demodFMForRaw
  /\ i < downSampleAvail
  /\ sampleBuf' =
       [sampleBuf EXCEPT ![(Turn % 2) + 1][Turn \div 2] =
          Demodulated(Interleaved(2 * Turn), Interleaved(2 * Turn + 1))]
  /\ i' = i + 1
  /\ UNCHANGED <<setting, downSampleCount, frames, last, avail, pc, chan,
                 downSampleAvail>>

\* The end of the loop, or none of it.
EndDemodulation ==
  /\ pc = "demod"
  /\ ~(numChan = 2 /\ demodFMForRaw /\ i < downSampleAvail)
  /\ pc' = "hand"
  /\ UNCHANGED <<setting, downSampleCount, frames, last, avail, sampleBuf, chan, i,
                 downSampleAvail>>

\* The last of the samples handed over, one for each frame kept or one per channel.
LastHanded ==
  IF numChan = 2 /\ demodFMForRaw THEN Interleaved(downSampleAvail - 1)
                                  ELSE sampleBuf[1][downSampleAvail - 1]

(***************************************************************************)
(* queueOutput of the listeners and handleData of the plugins.  What the   *)
(* buffer holds is not used again.                                         *)
(***************************************************************************)
HandOver ==
  /\ pc = "hand"
  /\ pc' = "idle"
  /\ last' = IF downSampleAvail = 0 THEN last ELSE LastHanded.frame
  /\ avail' = 0 /\ downSampleAvail' = 0 /\ chan' = 1 /\ i' = 0
  /\ sampleBuf' = [c \in 1..2 |-> <<>>]
  /\ UNCHANGED <<setting, downSampleCount, frames>>

Next ==
  \/ \E l \in Listeners, f \in Factors : AddRawListener(l, f)
  \/ \E l \in Listeners : RemoveRawListener(l)
  \/ \E on \in BOOLEAN : SetDemodFMForRaw(on)
  \/ \E n \in 1..MaxFrames : GetFrames(n) \/ Overrun(n)
  \/ DivideByZero
  \/ Skip \/ Keep \/ NextChannel
  \/ Demodulate \/ EndDemodulation \/ HandOver

Spec == Init /\ [][Next]_vars

-----------------------------------------------------------------------------
Samples == [frame : 1..MaxFrames, chan : 0..3]

(***************************************************************************)
(* The variables stay in their domains; the place written is never beyond  *)
(* the one read, so nothing is overwritten before it is read.              *)
(***************************************************************************)
TypeOK ==
  /\ numChan \in {1, 2}
  /\ downSampleFactor \in (-MaxShort - 1)..MaxShort
  /\ downSampleCount \in [1..2 -> (-MaxShort - 1)..MaxShort]
  /\ configured \in BOOLEAN
  /\ asked \in [Listeners -> Factors \cup {-1}]
  /\ demodFMForRaw \in BOOLEAN
  /\ frames \in 0..MaxFrames /\ last \in 0..MaxFrames /\ avail \in 0..frames
  /\ sampleBuf \in [1..2 -> [0..(avail - 1) -> Samples]]
  /\ pc \in {"idle", "loop", "demod", "hand", "crashed"}
  /\ chan \in 1..numChan
  /\ i \in 0..avail /\ downSampleAvail \in 0..avail
  /\ pc = "loop" => downSampleAvail <= i

\* Frames kept in this call, as the place before place 0 would hold them.
KeptBefore(c, k) == IF k = 0 THEN last ELSE sampleBuf[c][k - 1].frame

\* A factor that is not above 1 leaves everything as it is.
Spacing == IF downSampleFactor > 1 THEN downSampleFactor ELSE 1

\* What is kept are, in both channels alike, the frames a factor apart.
EveryFactorth ==
  configured /\ pc = "demod" /\ i = 0 =>
    \A c \in 1..numChan : \A k \in 0..(downSampleAvail - 1) :
      sampleBuf[c][k] = Sample(KeptBefore(c, k) + Spacing, c)

\* No frame that should be kept is left out at the end of a call.
NothingSkipped ==
  configured /\ pc = "demod" /\ i = 0 =>
    \A c \in 1..numChan :
      frames - KeptBefore(c, downSampleAvail) \in 0..(Spacing - 1)

(***************************************************************************)
(* Once the counters are set, downsampling goes on from call to call,      *)
(* however the stream is cut, and is the same for both channels            *)
(* (downSampleAvail "works the same for all channels").                    *)
(***************************************************************************)
Downsampled == EveryFactorth /\ NothingSkipped

(***************************************************************************)
(* After demodulation the beginning of the buffer holds one sample for     *)
(* each frame kept since the last call, in order, each computed from both  *)
(* samples of its frame, although each iteration writes into the buffer    *)
(* that later ones read.                                                   *)
(***************************************************************************)
DemodulatedInOrder ==
  configured /\ pc = "hand" /\ numChan = 2 /\ demodFMForRaw =>
    \A p \in 0..(downSampleAvail - 1) :
      Interleaved(p) =
        Sample(last + (p + 1) * Spacing, 0)

\* What is not true in general (see README):

\* The channels agree before any listener has been added, too.
ChannelsAgree ==
  pc = "demod" /\ i = 0 /\ numChan = 2 =>
    \A k \in 0..(downSampleAvail - 1) : sampleBuf[1][k].frame = sampleBuf[2][k].frame

\* Demodulation "does not change the data seen by plugins" (help, VampAlsaHost.cpp:377).
PluginsSeeSamples ==
  pc = "hand" /\ numChan = 2 =>
    \A c \in 1..2 : \A k \in 0..(downSampleAvail - 1) : sampleBuf[c][k].chan = c

\* rate is the "sampling rate to supply plugins with" (DevMinder.hpp:29).
PluginsGetTheirRate == downSampleFactor = PluginFactor

\* Every listener gets the rate it asked for, which its WAV header names.
ListenersGetTheirRate == \A l \in Listeners : asked[l] \in {-1, downSampleFactor}

\* Nor does a listener that is alone.
LoneListenerGetsItsRate ==
  \A l \in Listeners :
    (\A m \in Listeners \ {l} : asked[m] = -1) => asked[l] \in {-1, downSampleFactor}

\* No rate and no amount of data ends the server.
NeverCrashes == pc # "crashed"

\* Listeners get whole frames of this call's: demodulated, nothing else is left.
ListenersGetOneKind ==
  pc = "hand" /\ numChan = 2 =>
    \A c \in 1..2 : \A k \in 0..(downSampleAvail - 1) :
      sampleBuf[c][k].chan = 0 <=> demodFMForRaw
=============================================================================
