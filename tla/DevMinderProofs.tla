-------------------------- MODULE DevMinderProofs --------------------------
(***************************************************************************)
(* Proofs about DevMinder, for every set of kinds and every length of a    *)
(* stall: pcm is never used while it is closed, a device reported as       *)
(* running is watched, and an ALSA device that is stopped is silent.       *)
(***************************************************************************)
EXTENDS DevMinder, TLAPS

(***************************************************************************)
(* The inductive invariant.  A slot that is not about to be rebuilt        *)
(* belongs to an open pcm; what is reported as running should be running,  *)
(* so that hw_getNumPollFDs has descriptors for it; and only a pcm that    *)
(* was started successfully can get into the states in which it streams or *)
(* can be recovered.                                                       *)
(***************************************************************************)
SlotHasPcm ==
  server = "up" /\ kind = "alsa" /\ slot /\ ~regen /\ alive => handle # "null"

RunningIsWanted == ~stopped => shouldBeRunning

StreamingIsStarted ==
  kind = "alsa" /\ handle \in {"running", "broken"} => ~stopped

GoneIsClosed == ~alive => handle = "null" /\ ~slot

IInv ==
  /\ TypeOK
  /\ NoNullPcm
  /\ SlotHasPcm
  /\ RunningIsWatched
  /\ RunningIsWanted
  /\ StreamingIsStarted
  /\ GoneIsClosed

USE DevMinderAssumption

-----------------------------------------------------------------------------
\* hw_open leaves a handle of its kind, on failure, too, and never one that streams
\* on ALSA; if it succeeds there is a handle.
LEMMA OpenSound ==
  ASSUME TypeOK, NEW o \in OpenSucceeds \cup OpenFails
  PROVE  /\ o[1] \in Handles /\ o[1] # "broken"
         /\ kind = "rtlsdr" => o[1] # "setup"
         /\ kind = "alsa" => o[1] # "running"
         /\ o[2] \in {"unset", "ok"}
         /\ o \in OpenSucceeds => o[1] # "null"
BY DEF OpenSucceeds, OpenFails, TypeOK, Handles

\* Preparing and starting never closes pcm, and what streams was set up.
LEMMA PreparedSound ==
  ASSUME NEW h \in Handles, NEW g \in Prepared(h)
  PROVE  /\ g \in Handles
         /\ g = "null" <=> h = "null"
         /\ h \in {"null", "half"} => g = h
BY DEF Prepared, Handles

LEMMA InitInv == Init => IInv
<1>1. Init => FlagsOK
  BY Zenon DEF Init, FlagsOK
<1> QED
  BY <1>1 DEF Init, IInv, TypeOK, Handles, NoNullPcm, SlotHasPcm, RunningIsWatched,
       RunningIsWanted, StreamingIsStarted, GoneIsClosed

(***************************************************************************)
(* The flags stay Boolean: every step assigns them truth values.           *)
(***************************************************************************)
LEMMA FlagsInv == FlagsOK /\ [Next]_vars => FlagsOK'
<1> USE DEF FlagsOK
<1>1. FlagsOK /\ BeginRound => FlagsOK'
  BY Zenon DEF BeginRound, device
<1>2. FlagsOK /\ EndRound => FlagsOK'
  BY Zenon DEF EndRound, Removed, world
<1>3. FlagsOK /\ EnterCommands => FlagsOK'
  BY Zenon DEF EnterCommands, device, world
<1>13. FlagsOK /\ LeaveCommands => FlagsOK'
  BY Zenon DEF LeaveCommands, device, world
<1>10. FlagsOK /\ OtherRegen => FlagsOK'
  BY Zenon DEF OtherRegen, device, world
<1>11. FlagsOK /\ Throw => FlagsOK'
  BY Zenon DEF Throw, device, round
<1>4. FlagsOK /\ (Open \/ Start) => FlagsOK'
  BY Zenon DEF Open, Start, world
<1>5. FlagsOK /\ (Stop \/ Close) => FlagsOK'
  BY Zenon DEF Stop, Close, StopDevice, world
<1>6. FlagsOK /\ HandleEvents => FlagsOK'
  BY Zenon DEF HandleEvents, Served, Failed, StopDevice
<1>7. FlagsOK /\ Tick => FlagsOK'
  BY Zenon DEF Tick, round, world
<1>14. FlagsOK /\ HardwareError => FlagsOK'
  BY Zenon DEF HardwareError, round, world
<1>12. FlagsOK /\ Jump => FlagsOK'
  BY Zenon DEF Jump, device, round
<1>8. FlagsOK /\ Plug => FlagsOK'
  <2>1. Plug => present' \in BOOLEAN
    BY SMT DEF Plug
  <2> QED
    BY <2>1, Zenon DEF Plug, round
<1>9. FlagsOK /\ UNCHANGED vars => FlagsOK'
  BY Zenon DEF vars, device, round, world
<1> QED
  BY <1>1, <1>2, <1>3, <1>4, <1>5, <1>6, <1>7, <1>8, <1>9, <1>10, <1>11, <1>12, <1>13, <1>14,
  Zenon   DEF Next, Command

\* At the start of a round slots are rebuilt for what has a handle and is wanted.
LEMMA BeginRoundInv == IInv /\ FlagsOK' /\ BeginRound => IInv'
<1> SUFFICES ASSUME IInv, FlagsOK', BeginRound PROVE IInv'
  OBVIOUS
<1> USE DEF BeginRound, device
<1>1. TypeOK'
  BY DEF IInv, TypeOK, Handles
<1>2. NoNullPcm' /\ SlotHasPcm' /\ RunningIsWanted' /\ StreamingIsStarted'
  BY DEF IInv, TypeOK, NoNullPcm, SlotHasPcm, RunningIsWanted, StreamingIsStarted, HasFDs
<1>3. RunningIsWatched'
  BY DEF IInv, TypeOK, RunningIsWatched, RunningIsWanted, HasFDs
<1>4. GoneIsClosed'
  BY DEF IInv, GoneIsClosed
<1> QED
  BY <1>1, <1>2, <1>3, <1>4 DEF IInv

LEMMA EndRoundInv == IInv /\ FlagsOK' /\ EndRound => IInv'
BY DEF IInv, TypeOK, Handles, NoNullPcm, SlotHasPcm, RunningIsWatched,
       RunningIsWanted, StreamingIsStarted, GoneIsClosed, EndRound, Removed, world

\* Steps that touch nothing but the place in the round or a request for slots.
LEMMA RoundInv ==
  IInv /\ FlagsOK' /\ (EnterCommands \/ LeaveCommands \/ OtherRegen \/ Throw) => IInv'
BY DEF IInv, TypeOK, Handles, NoNullPcm, SlotHasPcm, RunningIsWatched,
       RunningIsWanted, StreamingIsStarted, GoneIsClosed, EnterCommands, LeaveCommands,
       OtherRegen, Throw, device, round, world

LEMMA OpenInv == IInv /\ FlagsOK' /\ Open => IInv'
<1> SUFFICES ASSUME IInv, FlagsOK', Open PROVE IInv'
  OBVIOUS
<1>1. PICK o \in OpenSucceeds \cup OpenFails : handle' = o[1] /\ numFD' = o[2]
  BY DEF Open
<1>2. TypeOK
  BY DEF IInv
<1>3. /\ handle' \in Handles /\ handle' # "broken"
      /\ kind = "rtlsdr" => handle' # "setup"
      /\ kind = "alsa" => handle' # "running"
      /\ numFD' \in {"unset", "ok"}
  BY <1>1, <1>2, OpenSound
<1> QED
  BY <1>3 DEF IInv, TypeOK, Handles, NoNullPcm, SlotHasPcm, RunningIsWatched,
       RunningIsWanted, StreamingIsStarted, GoneIsClosed, Open, world

(***************************************************************************)
(* start: either nothing happens to the handle, or it is opened in vain,   *)
(* or it is prepared and started and the device reported as running.       *)
(***************************************************************************)
LEMMA StartInv == IInv /\ FlagsOK' /\ Start => IInv'
<1> SUFFICES ASSUME IInv, FlagsOK', Start PROVE IInv'
  OBVIOUS
<1> USE DEF IInv, Start, world
<1>1. CASE Running /\ UNCHANGED <<handle, numFD, stopped, hasError, last, age>>
  BY <1>1 DEF TypeOK, Handles, NoNullPcm, SlotHasPcm, RunningIsWatched,
       RunningIsWanted, StreamingIsStarted, GoneIsClosed, Running
<1>2. CASE /\ \E o \in OpenFails : handle' = o[1] /\ numFD' = o[2]
           /\ UNCHANGED <<stopped, hasError, last, age>>
           /\ handle = "null"
  <2>1. PICK o \in OpenFails : handle' = o[1] /\ numFD' = o[2]
    BY <1>2
  <2>2. /\ handle' \in Handles /\ handle' # "broken"
        /\ kind = "rtlsdr" => handle' # "setup"
        /\ kind = "alsa" => handle' # "running"
        /\ numFD' \in {"unset", "ok"}
    BY <2>1, OpenSound
  <2> QED
    BY <1>2, <2>2 DEF TypeOK, Handles, NoNullPcm, SlotHasPcm, RunningIsWatched,
         RunningIsWanted, StreamingIsStarted, GoneIsClosed
<1>3. CASE /\ \E o \in (IF handle = "null" THEN OpenSucceeds ELSE {<<handle, numFD>>}) :
                /\ numFD' = o[2]
                /\ handle' \in (IF kind = "alsa" THEN Prepared(o[1]) ELSE {o[1]})
           /\ hasError' = (kind = "alsa" /\ handle' # "running")
           /\ stopped' = FALSE
           /\ last' = clock /\ age' = 0
  <2>1. PICK o \in (IF handle = "null" THEN OpenSucceeds ELSE {<<handle, numFD>>}) :
                /\ numFD' = o[2]
                /\ handle' \in (IF kind = "alsa" THEN Prepared(o[1]) ELSE {o[1]})
    BY <1>3
  <2>2. /\ o[1] \in Handles /\ (kind = "rtlsdr" => o[1] # "setup")
        /\ o[1] # "null" /\ o[2] \in {"unset", "ok"}
    <3>1. CASE handle = "null"
      BY <2>1, <3>1, OpenSound DEF Handles
    <3>2. CASE handle # "null"
      BY <2>1, <3>2 DEF TypeOK
    <3> QED
      BY <3>1, <3>2
  <2>3. /\ handle' \in Handles /\ (kind = "rtlsdr" => handle' # "setup")
        /\ handle' # "null" /\ numFD' \in {"unset", "ok"}
    BY <2>1, <2>2, PreparedSound
  <2> QED
    BY <1>3, <2>3 DEF TypeOK, Handles, NoNullPcm, SlotHasPcm, RunningIsWatched,
         RunningIsWanted, StreamingIsStarted, GoneIsClosed
<1> QED
  BY <1>1, <1>2, <1>3

LEMMA StopInv == IInv /\ FlagsOK' /\ (Stop \/ Close) => IInv'
BY DEF IInv, TypeOK, Handles, NoNullPcm, SlotHasPcm, RunningIsWatched, RunningIsWanted,
       StreamingIsStarted, GoneIsClosed, Stop, Close, StopDevice, AfterStop, world

(***************************************************************************)
(* The turn of the device: because of SlotHasPcm it never finds pcm        *)
(* closed; afterwards it is as before, stopped, or recovered.              *)
(***************************************************************************)
LEMMA HandleEventsInv == IInv /\ FlagsOK' /\ HandleEvents => IInv'
<1> SUFFICES ASSUME IInv, FlagsOK', HandleEvents PROVE IInv'
  OBVIOUS
<1> USE DEF HandleEvents
<1>1. ~(kind = "alsa" /\ handle = "null")
  BY DEF IInv, SlotHasPcm
<1>2. CASE \E a \in Answers \ {"error"} : Served(a)
  <2>1. PICK a \in Answers \ {"error"} : Served(a)
    BY <1>2
  <2>2. a \in {"none", "data"} /\ got' \in {-1, 0, 1}
    BY <2>1 DEF Answers, Served, Counts
  <2>3. CASE StopDevice /\ last' = clock /\ age' = 0
    <3>1. TypeOK'
      <4>1. answer' = a
        BY <2>1 DEF Served
      <4>2. handle' \in Handles /\ (kind = "rtlsdr" => handle' # "setup")
        BY <2>3 DEF IInv, TypeOK, Handles, StopDevice, AfterStop
      <4>3. last' \in {"never", "before", "after"} /\ age' \in 0..(MaxQuiet + 1)
        BY <2>3 DEF IInv, TypeOK
      <4> QED
        BY <1>1, <2>2, <4>1, <4>2, <4>3 DEF IInv, TypeOK
    <3>2. NoNullPcm' /\ SlotHasPcm' /\ RunningIsWatched'
      BY <1>1, <2>3 DEF IInv, NoNullPcm, SlotHasPcm, RunningIsWatched, StopDevice
    <3>3. RunningIsWanted' /\ StreamingIsStarted' /\ GoneIsClosed'
      BY <1>1, <2>3 DEF IInv, RunningIsWanted, StreamingIsStarted, GoneIsClosed,
           StopDevice, AfterStop
    <3> QED
      BY <3>1, <3>2, <3>3 DEF IInv
  <2>4. CASE UNCHANGED <<handle, shouldBeRunning, stopped, regen>>
    BY <1>1, <2>1, <2>2, <2>4 DEF IInv, TypeOK, Handles, NoNullPcm, SlotHasPcm, RunningIsWatched,
       RunningIsWanted, StreamingIsStarted, GoneIsClosed, Served
  <2> QED
    BY <2>1, <2>3, <2>4 DEF Served
<1>3. CASE Failed /\ "error" \in Answers
  <2>1. kind = "alsa" /\ handle \in {"half", "broken"}
    BY <1>3 DEF Answers
  <2>2. /\ handle' \in Handles /\ handle' # "null"
        /\ handle = "half" => handle' = "half"
    BY <1>3, <2>1, PreparedSound DEF Failed, Handles
  <2> QED
    BY <1>1, <1>3, <2>1, <2>2 DEF IInv, TypeOK, Handles, NoNullPcm, SlotHasPcm,
       RunningIsWatched, RunningIsWanted, StreamingIsStarted, GoneIsClosed, Failed
<1> QED
  BY <1>1, <1>2, <1>3

LEMMA WorldInv == IInv /\ FlagsOK' /\ (Tick \/ Jump \/ Plug \/ HardwareError) => IInv'
BY DEF IInv, TypeOK, Handles, NoNullPcm, SlotHasPcm, RunningIsWatched, RunningIsWanted,
       StreamingIsStarted, GoneIsClosed, Tick, Jump, Plug, HardwareError, device, round,
       world

LEMMA StutterInv == IInv /\ FlagsOK' /\ UNCHANGED vars => IInv'
BY DEF IInv, TypeOK, Handles, NoNullPcm, SlotHasPcm, RunningIsWatched, RunningIsWanted,
       StreamingIsStarted, GoneIsClosed, vars, device, round, world

\* Every reachable state satisfies the inductive invariant.
THEOREM Invariance == Spec => []IInv
<1>1. IInv /\ [Next]_vars => FlagsOK'
  BY FlagsInv DEF IInv, TypeOK
<1>2. IInv /\ [Next]_vars => IInv'
  BY <1>1, BeginRoundInv, EndRoundInv, RoundInv, OpenInv, StartInv, StopInv, HandleEventsInv,
     WorldInv, StutterInv DEF Next, Command
<1> QED
  BY <1>2, InitInv, PTL DEF Spec

\* The variables stay in their domains (TypeOK).
THEOREM TypeCorrect == Spec => []TypeOK
BY Invariance, PTL DEF IInv

(***************************************************************************)
(* handleEvents never meets a closed pcm, however commands, errors,        *)
(* stalls and rebuilt slots follow each other (NoNullPcm).                 *)
(***************************************************************************)
THEOREM PcmOpenWhenUsed == Spec => []NoNullPcm
BY Invariance, PTL DEF IInv

(***************************************************************************)
(* A device reported as running has a slot in pollfds, or will once slots  *)
(* are rebuilt (RunningIsWatched).                                         *)
(***************************************************************************)
THEOREM RunningWatched == Spec => []RunningIsWatched
BY Invariance, PTL DEF IInv

\* A device is handled in a round by the step HandleEvents and by no other.
LEMMA OnlyItsTurn == [Next]_vars /\ handled' /\ ~handled => HandleEvents
BY DEF Next, Command, BeginRound, EndRound, Throw, EnterCommands, Open, Start, Stop,
   Close, LeaveCommands, OtherRegen, Tick, Jump, Plug, HardwareError, vars, round

(***************************************************************************)
(* An ALSA device that is stopped delivers nothing (StoppedIsSilent):      *)
(* frames are counted only after the answer "data", which only a streaming *)
(* pcm gives, and such a pcm was started and not stopped since.            *)
(***************************************************************************)
THEOREM SilentWhenStopped == Spec => StoppedIsSilent
<1>1. IInv /\ HandleEvents /\ got' > 0 /\ kind = "alsa" => ~stopped
  <2> SUFFICES ASSUME IInv, HandleEvents, got' > 0, kind = "alsa" PROVE ~stopped
    OBVIOUS
  <2>1. handle # "null"
    BY DEF IInv, SlotHasPcm, HandleEvents
  <2>2. CASE Failed
    BY <2>2 DEF Failed
  <2>3. CASE \E a \in Answers \ {"error"} : Served(a)
    <3>1. PICK a \in Answers \ {"error"} : Served(a)
      BY <2>3
    <3>2. a = "data"
      BY <3>1 DEF Served, Counts
    <3>3. handle = "running"
      BY <3>1, <3>2 DEF Answers
    <3> QED
      BY <3>3 DEF IInv, StreamingIsStarted
  <2> QED
    BY <2>1, <2>2, <2>3 DEF HandleEvents
<1>2. IInv /\ [Next]_vars => [handled' /\ ~handled /\ got' > 0 /\ kind = "alsa" => ~stopped]_vars
  BY <1>1, OnlyItsTurn
<1> QED
  BY <1>2, Invariance, PTL DEF Spec, StoppedIsSilent

(***************************************************************************)
(* handleEvents stops a device only after more than MaxQuiet ticks without *)
(* data, whenever the clock is set (OnlySilenceStops).                     *)
(***************************************************************************)
THEOREM SilenceStops == Spec => OnlySilenceStops
<1>1. HandleEvents /\ shouldBeRunning /\ ~shouldBeRunning' => age > MaxQuiet
  <2> SUFFICES ASSUME HandleEvents, shouldBeRunning, ~shouldBeRunning' PROVE age > MaxQuiet
    OBVIOUS
  <2>1. PICK a \in Answers \ {"error"} : Served(a)
    BY DEF HandleEvents, Failed
  <2>2. Overdue(IF a = "data" THEN clock ELSE last, IF a = "data" THEN 0 ELSE age)
    BY <2>1 DEF Served
  <2> QED
    BY <2>2 DEF Overdue
<1>2. [Next]_vars => [handled' /\ ~handled /\ shouldBeRunning /\ ~shouldBeRunning' => age > MaxQuiet]_vars
  BY <1>1, OnlyItsTurn
<1> QED
  BY <1>2, PTL DEF Spec, OnlySilenceStops
=============================================================================
