------------------------------ MODULE DevMinder ------------------------------
(***************************************************************************)
(* The life of one device (DevMinder, AlsaMinder, RTLSDRMinder): open,     *)
(* start, stop and close by commands, its turn in each round, errors and   *)
(* silence of the hardware, and the stall timer.                           *)
(*                                                                         *)
(* The handle is pcm for ALSA and rtltcp for rtl_tcp: "null"; "half", a    *)
(* pcm without parameters or a socket that is not connected; "setup", a    *)
(* pcm that is not started; "running"; "broken", a pcm in an error state   *)
(* or a connection whose other end is closed.  What the library does with  *)
(* it is external.  Time is real time; the clock the program reads may     *)
(* once jump from before second 1000000000 to after it.                    *)
(***************************************************************************)
EXTENDS Integers

CONSTANTS
  Kinds,      (* kinds of device considered                                *)
  MaxQuiet,   (* MAX_DEV_QUIET_TIME, in ticks                              *)
  Recent      (* the 2 seconds of RTLSDRMinder::hw_running, in ticks       *)

ASSUME DevMinderAssumption ==
  /\ Kinds \subseteq {"alsa", "rtlsdr"}
  /\ MaxQuiet \in Nat \ {0}
  /\ Recent \in 1..MaxQuiet

VARIABLES
  kind,              \* of the device; never changes
  alive, closing,    \* registered; to be removed at the end of the round
  handle, numFD,     \* numFD: whether the number of descriptors is set ("ok") or not
  shouldBeRunning, stopped, hasError,
  last, age,         \* lastDataReceived: before or after the jump, and ticks since then
  answer,            \* of the latest hw_handleEvents: "none", "data", "error"
  got,               \* sign of what its latest turn has added to totalFrames
  slot, deaf,        \* indexInPollFD >= 0; its descriptors were not filled in
  regen, phase, handled, timedOut,   \* the round
  clock,             \* "before" or "after" the jump
  present,           \* the sound card is plugged in, rtl_tcp is there
  server             \* "up" or why it ended

device == <<alive, closing, handle, numFD, shouldBeRunning, stopped, hasError,
            last, age, answer, got>>
round  == <<slot, deaf, regen, phase, handled, timedOut>>
world  == <<clock, present, server>>
vars   == <<kind, device, round, world>>

Handles == {"null", "half", "setup", "running", "broken"}

-----------------------------------------------------------------------------
(***************************************************************************)
(* hw_open: the handle it leaves and whether numFD is set, if it succeeds  *)
(* and if it fails, which does not take back what was done.                *)
(***************************************************************************)
OpenSucceeds ==
  IF present THEN {<<IF kind = "alsa" THEN "setup" ELSE "running", "ok">>} ELSE {}

OpenFails ==
  IF kind = "alsa"
  THEN {<<"null", numFD>>}
         \cup (IF present THEN {<<"half", numFD>>, <<"setup", numFD>>, <<"setup", "unset">>}
                          ELSE {})
  ELSE {<<"null", "ok">>, <<"half", "ok">>}
         \cup (IF present THEN {<<"running", "ok">>} ELSE {})

\* hw_running
Running ==
  handle = "running" /\ (kind = "rtlsdr" => last = clock /\ age < Recent)

\* What snd_pcm_prepare and snd_pcm_start may make of a handle.
Prepared(h) ==
  IF h \in {"setup", "running", "broken"}
  THEN {"broken"} \cup (IF present THEN {"running"} ELSE {}) ELSE {h}

\* Mutants of HasFDs: without looking at pcm; only while data is streaming.
HasFDsNoPcm   == IF kind = "alsa" THEN shouldBeRunning ELSE handle # "null"
HasFDsRunning == handle = "running" /\ (kind = "alsa" => shouldBeRunning)

\* hw_getNumPollFDs is positive, or, if numFD is not set, may be.
HasFDs == handle # "null" /\ (kind = "alsa" => shouldBeRunning)

-----------------------------------------------------------------------------
\* Before the first open; the clock may or may not have been set.
Init ==
  /\ kind \in Kinds
  /\ alive = FALSE /\ closing = FALSE
  /\ handle = "null" /\ numFD = "unset"
  /\ shouldBeRunning = FALSE /\ stopped = TRUE /\ hasError = FALSE
  /\ last = "never" /\ age = 0 /\ answer = "none" /\ got = 0
  /\ slot = FALSE /\ deaf = FALSE /\ regen = TRUE
  /\ phase = "top" /\ handled = FALSE /\ timedOut = FALSE
  /\ clock \in {"before", "after"} /\ present \in BOOLEAN /\ server = "up"

-----------------------------------------------------------------------------
(***************************************************************************)
(* The round: slots are computed if somebody asked for it, then poll(2).   *)
(* An unset numFD is any number: it may be taken for none, be too many for *)
(* the vector, or differ from what the library fills in, in which case     *)
(* the error of getPollFDs is reported and ignored.                        *)
(***************************************************************************)
BeginRound ==
  /\ server = "up" /\ phase = "top"
  /\ IF regen
     THEN \/ /\ slot' \in (IF alive /\ HasFDs
                           THEN IF numFD = "ok" THEN {TRUE} ELSE BOOLEAN ELSE {FALSE})
             /\ deaf' \in (IF slot' /\ kind = "alsa" THEN BOOLEAN ELSE {FALSE})
             /\ server' = server
          \/ /\ alive /\ HasFDs /\ numFD = "unset"
             /\ server' = "unset_numFD"
             /\ UNCHANGED <<slot, deaf>>
     ELSE UNCHANGED <<slot, deaf, server>>
  /\ regen' = FALSE
  /\ phase' = "dispatch" /\ handled' = FALSE
  /\ timedOut' \in BOOLEAN
  /\ UNCHANGED <<kind, device, clock, present>>

\* A connection has something to read; its handler runs commands.
EnterCommands ==
  /\ server = "up" /\ phase = "dispatch" /\ ~timedOut /\ ~regen
  /\ phase' = "commands"
  /\ UNCHANGED <<kind, device, slot, deaf, regen, handled, timedOut, world>>

LeaveCommands ==
  /\ server = "up" /\ phase = "commands"
  /\ phase' = "dispatch"
  /\ UNCHANGED <<kind, device, slot, deaf, regen, handled, timedOut, world>>

\* Some other object asks for new slots.
OtherRegen ==
  /\ server = "up" /\ phase \in {"dispatch", "commands"}
  /\ regen' = TRUE
  /\ UNCHANGED <<kind, device, slot, deaf, phase, handled, timedOut, world>>

\* doDeferrals destroys the device, and the destructor closes the handle.
Removed ==
  /\ alive' = FALSE /\ closing' = FALSE /\ handle' = "null"
  /\ slot' = FALSE /\ regen' = TRUE

EndRound ==
  /\ server = "up" /\ phase = "dispatch"
  /\ regen \/ handled \/ ~slot
  /\ phase' = "top"
  /\ IF closing THEN Removed
     ELSE UNCHANGED <<alive, closing, handle, slot, regen>>
  /\ UNCHANGED <<kind, numFD, shouldBeRunning, stopped, hasError, last, age, answer,
                 got, deaf, handled, timedOut, world>>

-----------------------------------------------------------------------------
(***************************************************************************)
(* open: the constructor registers the device, whatever hw_open returns.   *)
(***************************************************************************)
Open ==
  /\ server = "up" /\ phase = "commands" /\ ~alive
  /\ \E o \in OpenSucceeds \cup OpenFails : handle' = o[1] /\ numFD' = o[2]
  /\ alive' = TRUE /\ closing' = FALSE
  /\ shouldBeRunning' = FALSE /\ stopped' = TRUE /\ hasError' = FALSE
  /\ last' = "never" /\ age' = 0 /\ answer' = "none" /\ got' = 0
  /\ slot' = FALSE /\ regen' = TRUE
  /\ UNCHANGED <<kind, deaf, phase, handled, timedOut, world>>

(***************************************************************************)
(* start and startAll: nothing if the device is running; else it is opened *)
(* if need be, and hw_do_start always succeeds, whatever the library says. *)
(***************************************************************************)
Start ==
  /\ server = "up" /\ phase = "commands" /\ alive
  /\ shouldBeRunning' = TRUE
  /\ \/ /\ Running
        /\ UNCHANGED <<handle, numFD, stopped, hasError, last, age>>
     \/ /\ ~Running /\ handle = "null"
        /\ \E o \in OpenFails : handle' = o[1] /\ numFD' = o[2]
        /\ UNCHANGED <<stopped, hasError, last, age>>
     \/ /\ ~Running
        /\ \E o \in (IF handle = "null" THEN OpenSucceeds ELSE {<<handle, numFD>>}) :
             /\ numFD' = o[2]
             /\ handle' \in (IF kind = "alsa" THEN Prepared(o[1]) ELSE {o[1]})
        /\ hasError' = (kind = "alsa" /\ handle' # "running")
        /\ stopped' = FALSE
        /\ last' = clock /\ age' = 0
  /\ regen' = TRUE
  /\ UNCHANGED <<kind, alive, closing, answer, got, slot, deaf, phase, handled,
                 timedOut, world>>

\* Mutant of AfterStop: pcm stays open and goes on.
AfterStopOpen == handle

\* The handle after hw_do_stop: an rtl_tcp connection stays open.
AfterStop == IF kind = "alsa" THEN "null" ELSE handle

\* DevMinder::stop, by the commands stop, stopAll and close and by handleEvents.
StopDevice ==
  /\ shouldBeRunning' = FALSE /\ stopped' = TRUE
  /\ regen' = TRUE
  /\ handle' = AfterStop

Stop ==
  /\ server = "up" /\ phase = "commands" /\ alive
  /\ StopDevice
  /\ UNCHANGED <<kind, alive, closing, numFD, hasError, last, age, answer, got, slot,
                 deaf, phase, handled, timedOut, world>>

\* close: the removal is deferred to the end of the round.
Close ==
  /\ server = "up" /\ phase = "commands" /\ alive
  /\ StopDevice
  /\ closing' = TRUE
  /\ UNCHANGED <<kind, alive, numFD, hasError, last, age, answer, got, slot, deaf,
                 phase, handled, timedOut, world>>

-----------------------------------------------------------------------------
\* What hw_handleEvents may answer.
Answers ==
  IF timedOut \/ (kind = "alsa" /\ deaf) THEN {"none"}
  ELSE CASE handle = "running" -> {"none", "data"}
         [] kind = "alsa" /\ handle \in {"half", "broken"} -> {"none", "error"}
         [] OTHER -> {"none"}

\* What hw_getFrames may add to totalFrames after that answer: on ALSA it asks the
\* library again and may return an error, a negative number; the bytes from
\* rtl_tcp may be a header only.
Counts(a) ==
  IF a = "data" THEN (IF kind = "alsa" THEN {-1, 0, 1} ELSE {0, 1})
  ELSE IF kind = "alsa" /\ handle \in {"half", "broken"} THEN {-1, 0} ELSE {0}

\* Mutant of Overdue: no stall at all once the clock has been set.
OverdueSame(l, g) == l = "before" /\ clock = "before" /\ g > MaxQuiet

\* No data for too long since the time (l, g); a jump of the clock in between hides it.
Overdue(l, g) == l = clock /\ g > MaxQuiet

\* An answer other than an error: data refresh the timer; with no frames
\* delivered the stall is checked, and a device that stalls is stopped.
Served(a) ==
  /\ answer' = a
  /\ got' \in Counts(a)
  /\ IF got' <= 0 /\ shouldBeRunning
          /\ Overdue(IF a = "data" THEN clock ELSE last, IF a = "data" THEN 0 ELSE age)
     THEN StopDevice /\ last' = clock /\ age' = 0
     ELSE /\ IF a = "data" THEN last' = clock /\ age' = 0 ELSE UNCHANGED <<last, age>>
          /\ UNCHANGED <<handle, shouldBeRunning, stopped, regen>>

\* An error: hw_do_restart, and return before the timer is looked at.
Failed ==
  /\ answer' = "error"
  /\ handle' \in (IF kind = "alsa" THEN Prepared(handle) ELSE {handle})
  /\ got' = 0
  /\ UNCHANGED <<last, age, shouldBeRunning, stopped, regen>>

HandleEvents ==
  /\ server = "up" /\ phase = "dispatch"
  /\ alive /\ slot /\ ~regen /\ ~handled
  /\ handled' = TRUE
  /\ IF kind = "alsa" /\ handle = "null"
     THEN \* hw_getFrames uses pcm whatever hw_handleEvents has found
          /\ server' = "null_pcm"
          /\ UNCHANGED <<answer, got, last, age, handle, shouldBeRunning, stopped, regen>>
     ELSE /\ server' = server
          /\ \/ \E a \in Answers \ {"error"} : Served(a)
             \/ "error" \in Answers /\ Failed
  /\ UNCHANGED <<kind, alive, closing, numFD, hasError, slot, deaf, phase, timedOut,
                 clock, present>>

\* hw_handleEvents throws if the library cannot tell what poll(2) has found;
\* nothing catches that but main, and the server ends.
Throw ==
  /\ server = "up" /\ phase = "dispatch"
  /\ alive /\ slot /\ ~regen /\ ~handled
  /\ kind = "alsa" /\ handle # "null" /\ ~timedOut
  /\ server' = "exception"
  /\ UNCHANGED <<kind, device, round, clock, present>>

-----------------------------------------------------------------------------
\* The world: time passes; the clock is set; hardware comes, goes and fails.
Tick ==
  /\ age <= MaxQuiet
  /\ age' = age + 1
  /\ UNCHANGED <<kind, alive, closing, handle, numFD, shouldBeRunning, stopped,
                 hasError, last, answer, got, round, world>>

Jump ==
  /\ clock = "before" /\ clock' = "after"
  /\ UNCHANGED <<kind, device, round, present, server>>

Plug ==
  /\ present' = ~present
  /\ handle' = IF present /\ handle = "running" THEN "broken" ELSE handle
  /\ UNCHANGED <<kind, alive, closing, numFD, shouldBeRunning, stopped, hasError, last,
                 age, answer, got, round, clock, server>>

HardwareError ==
  /\ handle = "running" /\ handle' = "broken"
  /\ UNCHANGED <<kind, alive, closing, numFD, shouldBeRunning, stopped, hasError, last,
                 age, answer, got, round, world>>

Command == EnterCommands \/ Open \/ Start \/ Stop \/ Close

Next ==
  \/ BeginRound \/ EndRound \/ HandleEvents \/ Throw
  \/ Command \/ LeaveCommands \/ OtherRegen
  \/ Tick \/ Jump \/ Plug \/ HardwareError

Spec == Init /\ [][Next]_vars

(***************************************************************************)
(* Time passes, rounds go on, and other objects, which ask for new slots   *)
(* only when clients make them, do not for ever end the round before the   *)
(* device has its turn.                                                    *)
(***************************************************************************)
FairSpec ==
  /\ Spec
  /\ WF_vars(Tick)
  /\ WF_vars(BeginRound) /\ WF_vars(LeaveCommands) /\ SF_vars(EndRound)
  /\ SF_vars(HandleEvents)

-----------------------------------------------------------------------------
FlagsOK ==
  /\ alive \in BOOLEAN /\ closing \in BOOLEAN
  /\ shouldBeRunning \in BOOLEAN /\ stopped \in BOOLEAN /\ hasError \in BOOLEAN
  /\ slot \in BOOLEAN /\ deaf \in BOOLEAN /\ regen \in BOOLEAN
  /\ handled \in BOOLEAN /\ timedOut \in BOOLEAN /\ present \in BOOLEAN

\* The variables stay in their domains.
TypeOK ==
  /\ FlagsOK
  /\ kind \in {"alsa", "rtlsdr"}
  /\ closing => alive
  /\ handle \in Handles /\ (kind = "rtlsdr" => handle # "setup")
  /\ numFD \in {"unset", "ok"}
  /\ last \in {"never", "before", "after"} /\ age \in 0..(MaxQuiet + 1)
  /\ answer \in {"none", "data", "error"} /\ got \in {-1, 0, 1}
  /\ phase \in {"top", "dispatch", "commands"} /\ clock \in {"before", "after"}
  /\ server \in {"up", "unset_numFD", "null_pcm", "exception"}

(***************************************************************************)
(* handleEvents is never called while pcm is closed, although slots are    *)
(* rebuilt later than pcm is closed: hw_getFrames would use it.            *)
(***************************************************************************)
NoNullPcm == server # "null_pcm"

(***************************************************************************)
(* A device that is reported as running and has a handle is looked at in   *)
(* the rounds, or will be once slots are rebuilt: without that neither its *)
(* data nor its silence is noticed.                                        *)
(***************************************************************************)
RunningIsWatched ==
  server = "up" /\ alive /\ ~stopped /\ handle # "null" /\ numFD = "ok" => slot \/ regen

(***************************************************************************)
(* An ALSA device that is stopped, or was not started, delivers nothing,   *)
(* whatever was begun, failed and was begun again before ("stopped ... by  *)
(* which we mean not streaming", DevMinder.hpp:49).                        *)
(***************************************************************************)
StoppedIsSilent ==
  [][handled' /\ ~handled /\ got' > 0 /\ kind = "alsa" => ~stopped]_vars

(***************************************************************************)
(* Only silence stops a device: handleEvents stops one after more than     *)
(* MaxQuiet ticks without data, and not because the clock was set.         *)
(***************************************************************************)
OnlySilenceStops ==
  [][handled' /\ ~handled /\ shouldBeRunning /\ ~shouldBeRunning' => age > MaxQuiet]_vars

(***************************************************************************)
(* A device that is reported as running and neither delivers nor answers   *)
(* with an error is found to have stalled and is stopped, unless the clock *)
(* was set in its silence or numFD is unset.                               *)
(***************************************************************************)
Quiet ==
  /\ server = "up" /\ alive /\ ~stopped /\ age > 0 /\ answer # "error"
  /\ last = clock /\ numFD = "ok"

StallNoticed == Quiet ~> ~Quiet

\* What is only true of some devices or some behaviours (see README):

\* StoppedIsSilent for any device: false of rtl_tcp, whose connection stays open.
StoppedAreSilent == [][handled' /\ ~handled /\ got' > 0 => ~stopped]_vars

\* A device that has stalled is still meant to run, so that something restarts it
\* ("try restart it", handleEvents).
StallRestarts ==
  [][handled' /\ ~handled /\ shouldBeRunning => shouldBeRunning']_vars

\* Only frames are counted in totalFrames, not error codes.
OnlyFramesCounted == got >= 0

\* A device reported as running has been set up.
SetUpBeforeRunning == alive /\ ~stopped => handle # "half"

\* A device that should run, and does, is reported as running.
RunningIsReported == alive /\ shouldBeRunning /\ handle = "running" => ~stopped
=============================================================================
