--------------------------- MODULE WavFileWriter ---------------------------
(***************************************************************************)
(* WavFileWriter.cpp: the object that records the raw data of one device   *)
(* into files, one rawFile command after the other.  Samples are queued by *)
(* the handler of the device, written by the handler of the writer, and    *)
(* the directories of a new file are made by a thread of its own.          *)
(*                                                                         *)
(* Frames are numbered from 1 and taken one per unit of time, so a frame   *)
(* is also its timestamp; all sizes are in frames.  The rest of the server *)
(* appears as the poll round around the writer: a round calls the device,  *)
(* then the writer (its label is the longer one), and executes commands    *)
(* before or after both, because no label of a connection lies between.    *)
(***************************************************************************)
EXTENDS Integers, Sequences, FiniteSets

CONSTANTS
  Capacity,       (* OUTPUT_BUFFER_SIZE                                        *)
  MinWrite,       (* MIN_WRITE_SIZE                                            *)
  Orders,         (* what rawFile commands ask for: the connection they come   *)
                  (* from (by), RATE and FRAMES                                *)
  First,          (* the order of the command that creates the writer          *)
  Receivers,      (* the connections that may be the control connection when a *)
                  (* file ends, or Nobody                                      *)
  Nobody,
  MaxChunk,       (* frames a device delivers at once                          *)
  MaxTime,        (* bound: the last frame delivered                           *)
  MaxRequests,    (* bound: rawFile commands                                   *)
  Tell,           (* are frames told apart?  If not, time stands still and the *)
                  (* device delivers for ever                                  *)
  Conduct,        (* TRUE: clients wait for the end of a file before they ask  *)
                  (* for the next; FALSE: nothing of the kind                  *)
  Faults          (* TRUE: opening, writing and making directories may fail    *)

ASSUME WavFileWriterAssumption ==
  /\ Capacity \in Nat \ {0} /\ MaxChunk \in 1..Capacity
  /\ MinWrite \in Nat
  /\ First \in Orders
  /\ \A order \in Orders : order.frames \in Nat \ {0} /\ order.rate \in Nat \ {0}
  /\ MaxTime \in Nat /\ MaxRequests \in Nat
  /\ {Tell} \cup Conduct \cup Faults \subseteq BOOLEAN

VARIABLES
  now,                 \* the next frame
  outputBuffer,
  fd,                  \* 0 or the number of the open file
  pollout,             \* POLLOUT in the writer's own pollfd.events
  pathTemplate,        \* 0 (empty) or the number of the request it came with
  filename,            \* the request the current name was made for
  currFileTimestamp,
  timestampCaptured,
  headerWritten,
  byteCountdown,
  ensureDirsState,
  slot,                \* the writer's slot in allpollfds: fd (0: no slot) and POLLOUT
  regen,               \* Pollable::regen_pollfds
  revents,             \* for the writer, in this round: "none", "out" or "err"
  pc,                  \* whose handlers run next
  listening,           \* is the writer among the raw listeners of the device?
  orderly, failing,    \* the conduct and the faults chosen, from Conduct and Faults
  life,                \* "registered", "doomed", "removed"; "crashed" with the server
  asked,               \* history: what each rawFile command has asked for
  files,               \* history: the files opened
  lost                 \* history: frames dropped or overwritten

naming   == <<pathTemplate, filename, currFileTimestamp, timestampCaptured>>
progress == <<headerWritten, byteCountdown>>
history  == <<asked, files, lost>>
vars == <<now, outputBuffer, fd, pollout, naming, progress, ensureDirsState,
          slot, regen, revents, pc, listening, orderly, failing, life, history>>

requests == Len(asked)

\* framesToWrite and rate, which the constructor sets for good, for all files.
FramesToWrite == First.frames
Rate == First.rate

Registered == life \in {"registered", "doomed"}
Lesser(a, b) == IF a < b THEN a ELSE b

-----------------------------------------------------------------------------
\* The constructor, and addRawListener right after it.
Init ==
  /\ now = 1
  /\ outputBuffer = <<>>
  /\ fd = 0 /\ pollout = FALSE
  /\ pathTemplate = 1 /\ filename = 0
  /\ currFileTimestamp = -1 /\ timestampCaptured = FALSE
  /\ headerWritten = FALSE /\ byteCountdown = FramesToWrite
  /\ ensureDirsState = "NONE"
  /\ slot = [fd |-> 0, out |-> FALSE]
  /\ regen = TRUE
  /\ revents = "none"
  /\ pc = "last"
  /\ listening = TRUE
  /\ orderly \in Conduct /\ failing \in Faults
  /\ life = "registered"
  /\ asked = <<First>> /\ files = <<>> /\ lost = {}

(***************************************************************************)
(* A round begins: allpollfds is rebuilt if the writer or anybody else has *)
(* asked for it.  A regular file is always ready for output.               *)
(***************************************************************************)
SlotAfter(rebuild) ==
  IF rebuild THEN [fd |-> fd, out |-> fd # 0 /\ pollout] ELSE slot

Poll ==
  /\ pc = "top" /\ life = "registered"
  /\ \E others \in BOOLEAN : slot' = SlotAfter(regen \/ others)
  /\ regen' = FALSE
  /\ \/ revents' = IF slot'.out THEN "out" ELSE "none"
     \/ failing /\ slot'.fd # 0 /\ revents' = "err"
  /\ pc' = "device"
  /\ UNCHANGED <<now, outputBuffer, fd, pollout, naming, progress, ensureDirsState,
                 listening, orderly, failing, life, history>>

-----------------------------------------------------------------------------
(***************************************************************************)
(* The open file when it is done.  asyncMsg sends the message to the       *)
(* control connection, which can be any or none, whoever has sent rawFile. *)
(***************************************************************************)
Closed(err, fs, receiver) ==
  [fs EXCEPT ![fd].open = FALSE, ![fd].reported = err, ![fd].told = receiver]

\* Mutant of both: the slot of the closed file stays, the open file gets none.
RegenAsBefore == regen

\* doneOutputFile and openOutputFile ask for new slots.
RegenAfterDone == TRUE
RegenAfterOpen == TRUE

(***************************************************************************)
(* doneOutputFile: close the file, if one is open, report, and with an     *)
(* error give up the writer, else wait for another rawFile.  The message   *)
(* does not say which file; its reader takes it for the open one.          *)
(***************************************************************************)
DoneOutputFile(err, fs) ==
  /\ fd' = 0
  /\ \/ fd = 0 /\ files' = fs
     \/ fd # 0 /\ \E receiver \in Receivers : files' = Closed(err, fs, receiver)
  /\ regen' = RegenAfterDone
  /\ IF err = "rawFileError"
     THEN life' = "doomed" /\ UNCHANGED pathTemplate
     ELSE pathTemplate' = 0 /\ UNCHANGED life

NewFile == [request |-> filename, stamp |-> currFileTimestamp, open |-> TRUE,
            header |-> 0, data |-> <<>>, reported |-> "no", told |-> Nobody]

\* The time passed to openOutputFile: the newest frame less the frames in the buffer.
CaptureStamp(last, size) == last - size

\* Mutant of DirsAfterOpen: the next file is opened without a name of its own.
DirsStill == ensureDirsState

\* The next file needs its own directories.
DirsAfterOpen == "NONE"

\* openOutputFile, by the state of the directories.
NameFile(first) ==
  /\ pathTemplate # 0 /\ ensureDirsState = "NONE"
  /\ currFileTimestamp' = first
  /\ timestampCaptured' = TRUE
  /\ filename' = pathTemplate
  /\ ensureDirsState' = "WAITING"
  /\ UNCHANGED <<pathTemplate, fd, files, regen, life>>

OpenFile ==
  /\ pathTemplate # 0 /\ ensureDirsState = "CREATED"
  /\ \/ /\ fd' = Len(files) + 1
        /\ files' = Append(files, NewFile)
        /\ regen' = RegenAfterOpen
        /\ ensureDirsState' = DirsAfterOpen
        /\ UNCHANGED <<pathTemplate, life>>
     \/ /\ failing
        /\ DoneOutputFile("rawFileError", files)
        /\ UNCHANGED ensureDirsState
  /\ UNCHANGED <<currFileTimestamp, timestampCaptured, filename>>

OpenNothing ==
  /\ fd # 0 \/ pathTemplate = 0 \/ ensureDirsState = "WAITING"
  /\ UNCHANGED <<naming, ensureDirsState, fd, files, regen, life>>

\* Mutant of Accepted: a full buffer is overwritten, also behind a captured timestamp.
AcceptedAll(n) == n

\* Of n frames, those queueOutput takes: no overwriting once the timestamp is captured.
Accepted(n) ==
  IF timestampCaptured THEN Lesser(Capacity - Len(outputBuffer), n) ELSE n

\* The buffer after boost::circular_buffer::insert at its end.
Inserted(new) ==
  LET all == outputBuffer \o new
  IN  SubSeq(all, IF Len(all) > Capacity THEN Len(all) - Capacity + 1 ELSE 1, Len(all))

\* Is there enough for a write?
Enough(size) == size >= MinWrite \/ byteCountdown < MinWrite

Elements(s) == {s[i] : i \in DOMAIN s}

(***************************************************************************)
(* DevMinder::handleEvents passes n new frames to WavFileWriter::          *)
(* queueOutput.  Pollable::queueOutput asks for POLLOUT in the slot, too;  *)
(* the writer then decides only about its own pollfd.                      *)
(***************************************************************************)
QueueOutput(n) ==
  LET time  == IF Tell THEN now + n ELSE now
      new   == [i \in 1..Accepted(n) |-> IF Tell THEN now + i - 1 ELSE 0]
      first == IF Tell
               THEN CaptureStamp(now + Accepted(n) - 1, Len(Inserted(new))) ELSE 0
  IN
  /\ pc = "device" /\ listening /\ Registered
  /\ time <= MaxTime + 1
  /\ now' = time
  /\ \/ /\ Accepted(n) = 0
        /\ lost' = lost \cup now..(time - 1)
        /\ UNCHANGED <<outputBuffer, naming, ensureDirsState, fd, files, regen, life,
                       pollout, slot>>
     \/ /\ Accepted(n) > 0
        /\ outputBuffer' = Inserted(new)
        /\ lost' = lost \cup ((Elements(outputBuffer) \cup now..(time - 1))
                                \ Elements(outputBuffer'))
        /\ slot' = [slot EXCEPT !.out = slot.fd # 0]
        /\ \/ fd = 0 /\ (NameFile(first) \/ OpenFile)
           \/ OpenNothing
        /\ pollout' = Enough(Len(outputBuffer'))
  /\ pc' = IF regen' THEN "end" ELSE "writer"
  /\ UNCHANGED <<progress, revents, listening, orderly, failing, asked>>

NoData ==
  /\ pc = "device" /\ Registered
  /\ pc' = "writer"
  /\ UNCHANGED <<now, outputBuffer, fd, pollout, naming, progress, ensureDirsState,
                 slot, regen, revents, listening, orderly, failing, life, history>>

\* The thread: create_directories, whose exception would end the process.
EnsureDirs ==
  /\ ensureDirsState = "WAITING" /\ Registered
  /\ \/ ensureDirsState' = "CREATED" /\ UNCHANGED life
     \/ failing /\ life' = "crashed" /\ UNCHANGED ensureDirsState
  /\ UNCHANGED <<now, outputBuffer, fd, pollout, naming, progress, slot, regen,
                 revents, pc, listening, orderly, failing, history>>

\* The thread outlives the writer and stores into freed memory.
EnsureDirsLate ==
  /\ ensureDirsState = "WAITING" /\ life = "removed"
  /\ ensureDirsState' = "CREATED"
  /\ life' \in {"removed", "crashed"}
  /\ UNCHANGED <<now, outputBuffer, fd, pollout, naming, progress, slot, regen,
                 revents, pc, listening, orderly, failing, history>>

-----------------------------------------------------------------------------
(***************************************************************************)
(* WavFileWriter::handleEvents, by what poll(2) reported and what write(2) *)
(* does.  A write to descriptor -1 fails.                                  *)
(***************************************************************************)
HandleError ==
  /\ revents = "err"
  /\ DoneOutputFile("rawFileDone", files)
  /\ UNCHANGED <<outputBuffer, progress, pollout, slot>>

WriteHeader ==
  /\ revents = "out" /\ ~headerWritten
  /\ headerWritten' = TRUE
  /\ \/ /\ fd # 0
        /\ files' = [files EXCEPT ![fd].header = Rate]
        /\ UNCHANGED <<fd, regen, life, pathTemplate>>
     \/ /\ fd = 0 \/ failing
        /\ DoneOutputFile("rawFileDone", files)
  /\ UNCHANGED <<outputBuffer, byteCountdown, pollout, slot>>

NothingToWrite ==
  /\ revents = "out" /\ headerWritten /\ outputBuffer = <<>>
  /\ pollout' = FALSE
  /\ slot' = [slot EXCEPT !.out = FALSE]
  /\ UNCHANGED <<fd, files, regen, life, pathTemplate, outputBuffer, progress>>

\* The most a write may take from the buffer.
Writable == Lesser(byteCountdown, Len(outputBuffer))

IsDone(left) == left = 0

\* Mutant of Erased: what has been written stays in the buffer.
ErasedNothing(nb) == outputBuffer

\* The buffer after nb frames have been written.
Erased(nb) == SubSeq(outputBuffer, nb + 1, Len(outputBuffer))

WriteSome ==
  /\ revents = "out" /\ headerWritten /\ outputBuffer # <<>> /\ fd # 0
  /\ \E nb \in 1..Writable :
       LET written == [files EXCEPT ![fd].data = @ \o SubSeq(outputBuffer, 1, nb)] IN
       /\ outputBuffer' = Erased(nb)
       /\ byteCountdown' = byteCountdown - nb
       /\ \/ /\ IsDone(byteCountdown')
             /\ DoneOutputFile("rawFileDone", written)
          \/ /\ ~IsDone(byteCountdown')
             /\ files' = written
             /\ UNCHANGED <<fd, regen, life, pathTemplate>>
  /\ UNCHANGED <<headerWritten, pollout, slot>>

\* write(2) fails: the -1 is also subtracted from byteCountdown.
WriteFails ==
  /\ revents = "out" /\ headerWritten /\ outputBuffer # <<>>
  /\ fd = 0 \/ failing
  /\ byteCountdown' = byteCountdown + 1
  /\ pollout' = FALSE
  /\ slot' = [slot EXCEPT !.out = FALSE]
  /\ DoneOutputFile("rawFileDone", files)
  /\ UNCHANGED <<headerWritten, outputBuffer>>

HandleEvents ==
  /\ pc = "writer" /\ slot.fd # 0 /\ Registered
  /\ \/ HandleError \/ WriteHeader \/ NothingToWrite \/ WriteSome \/ WriteFails
     \/ /\ revents = "none"
        /\ UNCHANGED <<fd, files, regen, life, pathTemplate, outputBuffer, progress,
                       pollout, slot>>
  /\ revents' = "none"
  /\ pc' = IF regen' THEN "end" ELSE "last"
  /\ UNCHANGED <<now, filename, currFileTimestamp, timestampCaptured,
                 ensureDirsState, listening, orderly, failing, asked, lost>>

NoSlot ==
  /\ pc = "writer" /\ slot.fd = 0 /\ Registered
  /\ pc' = "last"
  /\ UNCHANGED <<now, outputBuffer, fd, pollout, naming, progress, ensureDirsState,
                 slot, regen, revents, listening, orderly, failing, life, history>>

-----------------------------------------------------------------------------
\* Mutant of Restart: no second header.
RestartHeadless == [headerWritten |-> headerWritten, byteCountdown |-> FramesToWrite]

\* The progress of the next file.
Restart == [headerWritten |-> FALSE, byteCountdown |-> FramesToWrite]

(***************************************************************************)
(* rawFile for a device that has a writer: resumeWithNewFile, to which     *)
(* RATE and FRAMES of the command are not passed on.                       *)
(***************************************************************************)
ResumeWithNewFile(order) ==
  /\ pc \in {"device", "last"} /\ Registered
  /\ requests < MaxRequests /\ order \in Orders
  /\ ~orderly \/ (pathTemplate = 0 /\ life = "registered")
  /\ asked' = Append(asked, order)
  /\ fd' = 0
  /\ pathTemplate' = requests + 1
  /\ headerWritten' = Restart.headerWritten
  /\ byteCountdown' = Restart.byteCountdown
  /\ timestampCaptured' = FALSE
  /\ UNCHANGED <<now, outputBuffer, pollout, filename, currFileTimestamp,
                 ensureDirsState, slot, regen, revents, pc, listening, orderly,
                 failing, life, files, lost>>

\* rawFileOff: the writer goes at the end of the round.
RawFileOff ==
  /\ pc \in {"device", "last"} /\ life = "registered"
  /\ listening' = FALSE
  /\ life' = "doomed"
  /\ UNCHANGED <<now, outputBuffer, fd, pollout, naming, progress, ensureDirsState,
                 slot, regen, revents, pc, orderly, failing, history>>

\* The round is over: doDeferrals.
EndRound ==
  /\ pc \in {"last", "end"} /\ Registered
  /\ pc' = "top"
  /\ IF life = "doomed" THEN life' = "removed" ELSE UNCHANGED life
  /\ UNCHANGED <<now, outputBuffer, fd, pollout, naming, progress, ensureDirsState,
                 slot, regen, revents, listening, orderly, failing, history>>

-----------------------------------------------------------------------------
Data  == \E n \in 1..MaxChunk : QueueOutput(n)
Round == Poll \/ NoData \/ Data \/ HandleEvents \/ NoSlot \/ EndRound
Next  == Round \/ EnsureDirs \/ EnsureDirsLate \/ RawFileOff
         \/ \E order \in Orders : ResumeWithNewFile(order)

Spec == Init /\ [][Next]_vars

(***************************************************************************)
(* Rounds go on, the thread gets to run, and the device delivers again and *)
(* again (a device that does not is the business of DevMinder).            *)
(***************************************************************************)
FairSpec == Spec /\ WF_vars(Round) /\ WF_vars(EnsureDirs) /\ SF_vars(Data)

-----------------------------------------------------------------------------
Files == DOMAIN files

\* The variables stay in their domains; the buffer is never over its capacity.
TypeOK ==
  /\ now \in 1..(MaxTime + 1)
  /\ outputBuffer \in Seq(0..MaxTime) /\ Len(outputBuffer) <= Capacity
  /\ fd \in Files \cup {0} /\ slot.fd \in Files \cup {0}
  /\ pathTemplate \in 0..MaxRequests /\ filename \in 0..MaxRequests
  /\ byteCountdown \in 0..(FramesToWrite + 1)
  /\ ensureDirsState \in {"NONE", "WAITING", "CREATED"}
  /\ revents \in {"none", "out", "err"}
  /\ pc \in {"top", "device", "writer", "last", "end"}
  /\ life \in {"registered", "doomed", "removed", "crashed"}
  /\ \A k \in Files : Len(files[k].data) <= FramesToWrite

(***************************************************************************)
(* Every frame is lost, in the buffer or in one file; frames are in order  *)
(* in each file, from file to file and in the buffer: nothing is written   *)
(* twice or dropped unnoticed, whatever commands and errors do.            *)
(***************************************************************************)
Written == UNION {Elements(files[k].data) : k \in Files}
Rising(s) == \A i, j \in DOMAIN s : i < j => s[i] < s[j]

FramesKept ==
  life # "crashed" =>
  /\ 1..(now - 1) = lost \cup Written \cup Elements(outputBuffer)
  /\ lost \cap (Written \cup Elements(outputBuffer)) = {}
  /\ Rising(outputBuffer)
  /\ \A k \in Files : Rising(files[k].data)
  /\ \A k, m \in Files : k < m =>
       \A x \in Elements(files[k].data), y \in Elements(files[m].data) : x < y
  /\ \A x \in Written, y \in Elements(outputBuffer) : x < y

(***************************************************************************)
(* The name of the first file of an orderly client carries the time of its *)
(* first frame, give or take one frame, and "a buffer's worth of data"     *)
(* from there on is complete, however long the directories take            *)
(* (WavFileWriter.hpp:33-35).                                              *)
(***************************************************************************)
StampsClose(k) ==
  LET d == files[k].data IN
  d # <<>> => /\ files[k].stamp \in (d[1] - 1)..d[1]
              /\ \A i \in 1..Lesser(Len(d), Capacity) : d[i] = d[1] + i - 1

FirstFileStamped == orderly => \A k \in Files : files[k].request = 1 => StampsClose(k)

(***************************************************************************)
(* The same for every file, as the comment has it: "we want to guarantee   *)
(* the timestamp is correct for the first frame, and for a buffer's worth  *)
(* of data".                                                               *)
(***************************************************************************)
EveryFileStamped == \A k \in Files : StampsClose(k)

\* currFileTimestamp is the "timestamp of first sample of current file".
StampExact == \A k \in Files : files[k].data # <<>> => files[k].stamp = files[k].data[1]

(***************************************************************************)
(* The recording of an orderly client is what Recorder promises, with or   *)
(* without faults.  Of a client that does not wait Recorder says nothing.  *)
(***************************************************************************)
Asked == IF orderly THEN asked ELSE <<First>>

Recordings ==
  IF orderly THEN [k \in Files |-> [header |-> files[k].header, data |-> files[k].data]]
  ELSE <<>>

Reported ==
  IF orderly THEN Cardinality({k \in Files : files[k].reported = "rawFileDone"}) ELSE 0

Told == [k \in 1..Reported |-> files[k].told]

Promise ==
  INSTANCE Recorder WITH asked <- Asked, recordings <- Recordings, told <- Told

ImplementsRecorder == Promise!Spec

(***************************************************************************)
(* Every rawFile command gets the RATE and the number of FRAMES it asks    *)
(* for, "the number of frames to write", even without faults and if every  *)
(* command waits for the end of the file before.                           *)
(***************************************************************************)
FramesAsAsked ==
  orderly /\ ~failing =>
    \A k \in Files : files[k].reported = "rawFileDone" =>
      LET order == asked[files[k].request] IN
      files[k].header = order.rate /\ Len(files[k].data) = order.frames

(***************************************************************************)
(* The end of a file is told "to the TCP connection which issued the       *)
(* rawFile command".                                                       *)
(***************************************************************************)
IssuerTold ==
  \A k \in Files : files[k].reported # "no" => files[k].told = asked[files[k].request].by

\* A file reported as done is complete and closed, whatever clients and disk do.
DoneMeansComplete ==
  \A k \in Files : files[k].reported = "rawFileDone" =>
    ~files[k].open /\ files[k].header # 0 /\ Len(files[k].data) = FramesToWrite

(***************************************************************************)
(* When poll(2) has been called, the slot is that of the current file, as  *)
(* long as the client is orderly: a file that is done takes its slot along.*)
(***************************************************************************)
SlotCurrent == orderly /\ pc = "device" /\ ~regen => slot.fd \in {0, fd}

\* "If a file is already being written from DEV_LABEL, this command closes that
\* file": a file that is not being written any more is closed.
OldFilesClosed == \A k \in Files : files[k].open /\ Registered => fd = k

(***************************************************************************)
(* The handler is not called to write less than MIN_WRITE_SIZE unless the  *)
(* end of the file is near.                                                *)
(***************************************************************************)
WritesAreLarge ==
  pc = "writer" /\ revents = "out" /\ headerWritten => Enough(Len(outputBuffer))

(***************************************************************************)
(* The buffer is full, and queueOutput returns before it opens a file.     *)
(***************************************************************************)
Stuffed == Accepted(1) = 0


(***************************************************************************)
(* A rawFile command of an orderly client begins a file of its own, unless *)
(* another command comes after it, a fault ends the writer or the buffer   *)
(* has filled up before.                                                   *)
(***************************************************************************)
RecordingBegins ==
  \A r \in 1..MaxRequests :
    orderly /\ requests = r ~>
      \/ \E k \in Files : files[k].request = r
      \/ requests # r \/ life # "registered" \/ []Stuffed

\* "Raw data will continue to be buffered so that a subsequent rawFile command can
\* direct data to a new file": not if the buffer is full by then.
NeverStuffed == fd = 0 /\ pathTemplate # 0 => ~Stuffed
=============================================================================
