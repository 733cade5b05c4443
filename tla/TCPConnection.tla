--------------------------- MODULE TCPConnection ---------------------------
(***************************************************************************)
(* TCPConnection::handleEvents with the buffers of one connection: the     *)
(* client's text is cut into reads and must be put together to command     *)
(* lines; replies and plugin output wait in a circular buffer to be        *)
(* written.                                                                *)
(*                                                                         *)
(* The characters of the client are numbered from 1; every command has     *)
(* CmdLength of them, the last a newline.  The characters of the output    *)
(* are numbered, too, and come in lines of several lengths.                *)
(***************************************************************************)
EXTENDS Integers, Sequences

CONSTANTS
  CmdLength,
  MaxCmd,         (* MAX_CMD_STRING_LENGTH                                     *)
  Npos,           (* string::npos, more than the length of any string          *)
  OutCapacity,    (* capacity of outputBuffer                                  *)
  LineLengths,    (* of replies (0: none) and of plugin output                 *)
  MaxCmds,        (* bound: commands the client sends                          *)
  MaxLines,       (* bound: lines of output, with one for every command        *)
  Piecewise       (* can the text arrive in arbitrary pieces?                  *)

ASSUME TCPConnectionAssumption ==
  /\ CmdLength \in Nat \ {0} /\ MaxCmd \in Nat /\ MaxCmd >= CmdLength
  /\ Npos \in Nat /\ Npos > 4 * MaxCmd
  /\ OutCapacity \in Nat /\ LineLengths \subseteq Nat
  /\ MaxCmds \in Nat /\ MaxLines \in Nat /\ MaxLines >= MaxCmds
  /\ Piecewise \in BOOLEAN

VARIABLES
  sent, taken,       \* characters the client has sent and the server has read
  inputBuff,
  outputBuffer,
  pollout,           \* POLLOUT in pollfd.events
  registered,
  executed,          \* history: commands run, <<first, last>> character
  made,              \* history: characters of output made
  lines,             \* history: their lines, <<first, last>>
  received,          \* history: characters the client has got
  dropped,           \* history: has output been dropped?
  failing            \* history: has a write failed and none succeeded since?

input  == <<sent, taken, inputBuff, executed>>
output == <<outputBuffer, pollout, made, lines, dropped>>
vars   == <<input, output, registered, received, failing>>

Lesser(a, b) == IF a < b THEN a ELSE b
Span(a, b) == [i \in 1..(b - a + 1) |-> a + i - 1]
Newline(ch) == ch % CmdLength = 0

Init ==
  /\ sent = 0 /\ taken = 0 /\ inputBuff = <<>> /\ executed = <<>>
  /\ outputBuffer = <<>> /\ pollout = FALSE /\ made = 0 /\ lines = <<>> /\ dropped = FALSE
  /\ registered = TRUE
  /\ received = <<>> /\ failing = FALSE

\* The client sends n characters: whole commands, read at once, unless Piecewise.
Send(n) ==
  /\ registered
  /\ sent + n <= MaxCmds * CmdLength
  /\ Piecewise \/ (n % CmdLength = 0 /\ sent + n - taken <= MaxCmd)
  /\ sent' = sent + n
  /\ UNCHANGED <<taken, inputBuff, executed, output, registered, received, failing>>

-----------------------------------------------------------------------------
\* Mutant of Inserted: the newest characters are dropped, not the oldest.
InsertedFront(all) == SubSeq(all, 1, Lesser(OutCapacity, Len(all)))

\* boost::circular_buffer::insert at the end.
Inserted(all) ==
  SubSeq(all, IF Len(all) > OutCapacity THEN Len(all) - OutCapacity + 1 ELSE 1, Len(all))

(***************************************************************************)
(* Pollable::queueOutput for the lines with the lengths in lens, one after *)
(* the other: the state of the output after them.                          *)
(***************************************************************************)
Out == [outputBuffer |-> outputBuffer, pollout |-> pollout, made |-> made,
        lines |-> lines, dropped |-> dropped]

QueueOutput(o, len) ==
  LET text == Span(o.made + 1, o.made + len)
      all  == o.outputBuffer \o text
      new  == [o EXCEPT !.made = @ + len, !.lines = Append(@, <<o.made + 1, o.made + len>>)]
  IN  IF len > OutCapacity THEN [new EXCEPT !.dropped = TRUE]
      ELSE [new EXCEPT !.outputBuffer = Inserted(all), !.pollout = TRUE,
                       !.dropped = @ \/ Len(all) > OutCapacity]

QueueAll(lens) ==
  LET after[i \in 0..Len(lens)] ==
        IF i = 0 THEN Out ELSE QueueOutput(after[i - 1], lens[i])
  IN  after[Len(lens)]

Queue(lens) ==
  LET o == QueueAll(lens) IN
  /\ outputBuffer' = o.outputBuffer /\ pollout' = o.pollout
  /\ made' = o.made /\ lines' = o.lines /\ dropped' = o.dropped

\* A plugin this connection listens to has output, or it is the welcome message.
PluginOutput(len) ==
  /\ registered
  /\ Len(lines) + MaxCmds - Len(executed) < MaxLines
  /\ Queue(<<len>>)
  /\ UNCHANGED <<input, registered, received, failing>>

-----------------------------------------------------------------------------
\* The newlines in text, in order.
Newlines(text) ==
  LET upto[i \in 0..Len(text)] ==
        IF i = 0 THEN <<>>
        ELSE IF Newline(text[i]) THEN Append(upto[i - 1], text[i]) ELSE upto[i - 1]
  IN  upto[Len(text)]

\* Mutant of CommandsIn: one command is executed per read.
FirstCommandIn(text) ==
  IF Newlines(text) = <<>> THEN <<>> ELSE << <<text[1], Newlines(text)[1] - 1>> >>

\* The commands in text, which is a part of what the client has sent.
CommandsIn(text) ==
  [k \in 1..Len(Newlines(text)) |->
     <<IF k = 1 THEN text[1] ELSE Newlines(text)[k - 1] + 1, Newlines(text)[k] - 1>>]

\* The text after the last newline.
Rest(text) ==
  LET ends == {i \in 1..Len(text) : Newline(text[i])}
      last == CHOOSE i \in ends \cup {0} : \A j \in ends : j <= i
  IN  SubSeq(text, last + 1, Len(text))

\* inputBuff.erase(0, npos - MAX_CMD_STRING_LENGTH), whatever the length.
Trimmed(text, rest) == SubSeq(rest, Npos - MaxCmd + 1, Len(rest))

(***************************************************************************)
(* handleEvents with POLLIN: read, execute the complete lines, reply to    *)
(* each, and return without a look at POLLOUT.                             *)
(***************************************************************************)
HandleInput ==
  LET n    == Lesser(MaxCmd, sent - taken)
      text == inputBuff \o Span(taken + 1, taken + n)
      cmds == CommandsIn(text)
  IN
  /\ registered /\ sent > taken
  /\ taken' = taken + n
  /\ inputBuff' = Trimmed(text, Rest(text))
  /\ executed' = executed \o cmds
  /\ \E lens \in [1..Len(cmds) -> LineLengths] : Queue(lens)
  /\ UNCHANGED <<sent, registered, received, failing>>

\* Mutant of StillWants: POLLOUT is given up after every write.
StillWantsNot == FALSE

\* POLLOUT stays set until the handler finds the buffer empty.
StillWants == TRUE

\* handleEvents with POLLOUT only: writeSomeOutput.
HandleOutput ==
  /\ registered /\ sent = taken /\ pollout
  /\ \/ /\ outputBuffer = <<>>
        /\ pollout' = FALSE
        /\ UNCHANGED <<outputBuffer, received, failing>>
     \/ \E nb \in 1..Len(outputBuffer) :
          /\ received' = received \o SubSeq(outputBuffer, 1, nb)
          /\ outputBuffer' = SubSeq(outputBuffer, nb + 1, Len(outputBuffer))
          /\ pollout' = StillWants
          /\ failing' = FALSE
     \/ /\ outputBuffer # <<>>
        /\ pollout' = FALSE
        /\ failing' = TRUE
        /\ UNCHANGED <<outputBuffer, received>>
  /\ UNCHANGED <<input, made, lines, dropped, registered>>

\* handleEvents with POLLERR or POLLHUP, or read(2) without result.
HangUp ==
  /\ registered
  /\ registered' = FALSE
  /\ UNCHANGED <<input, output, received, failing>>

Next ==
  \/ \E n \in 1..(MaxCmds * CmdLength) : Send(n)
  \/ \E len \in LineLengths : PluginOutput(len)
  \/ HandleInput \/ HandleOutput \/ HangUp

Spec == Init /\ [][Next]_vars

\* Rounds go on, and the client reads what it is sent.
FairSpec == Spec /\ WF_vars(HandleInput) /\ WF_vars(HandleOutput)

-----------------------------------------------------------------------------
Elements(s) == {s[i] : i \in DOMAIN s}
Rising(s) == \A i, j \in DOMAIN s : i < j => s[i] < s[j]

\* The variables stay in their domains; neither buffer outgrows its limit.
TypeOK ==
  /\ sent \in 0..(MaxCmds * CmdLength) /\ taken \in 0..sent
  /\ Len(inputBuff) <= MaxCmd /\ Elements(inputBuff) \subseteq 1..taken
  /\ Len(outputBuffer) <= OutCapacity /\ Elements(outputBuffer) \subseteq 1..made
  /\ {pollout, registered, dropped, failing} \subseteq BOOLEAN

(***************************************************************************)
(* The commands executed are those that were sent, each once, whole and in *)
(* order ("grab the full command").                                        *)
(***************************************************************************)
CommandsWhole ==
  \A k \in DOMAIN executed :
    executed[k] = <<(k - 1) * CmdLength + 1, k * CmdLength - 1>>

(***************************************************************************)
(* Output reaches the client in order and without repetition, complete as  *)
(* long as the buffer has not been too small; when it was, the newest      *)
(* output is what is kept.                                                 *)
(***************************************************************************)
OutputKept ==
  LET all == received \o outputBuffer IN
  /\ Rising(all)
  /\ ~dropped => all = Span(1, made)
  /\ \A k \in DOMAIN lines :
       k = Len(lines) /\ lines[k][2] - lines[k][1] < OutCapacity
         => lines[k][1]..lines[k][2] \subseteq Elements(all)

\* "any output line is either completely written or not written at all".
WholeLines ==
  \A k \in DOMAIN lines :
    LET line == lines[k][1]..lines[k][2]
        kept == Elements(received \o outputBuffer)
    IN  line \subseteq kept \/ line \cap kept = {}

\* Every command sent is executed, unless the connection goes.
CommandsExecuted ==
  \A k \in 1..MaxCmds :
    sent >= k * CmdLength ~> Len(executed) >= k \/ ~registered

(***************************************************************************)
(* Output that is waiting is sent, if the client is silent for long enough *)
(* (here: after its last command), unless a write fails.                   *)
(***************************************************************************)
OutputSent == outputBuffer # <<>> ~> outputBuffer = <<>> \/ failing \/ ~registered
=============================================================================
