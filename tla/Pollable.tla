------------------------------ MODULE Pollable ------------------------------
(***************************************************************************)
(* The registry of Pollables and the poll round of Pollable.cpp.           *)
(*                                                                         *)
(* Every object of the program derives from Pollable and lives in the map  *)
(* Pollable::pollables under a label.  The single thread of the server     *)
(* runs rounds: rebuild the vector allpollfds if somebody asked for it     *)
(* (regenFDs), wait in poll(2), call handleEvents on the registered        *)
(* objects in label order, then carry out the removals that handlers asked *)
(* for (doDeferrals).                                                      *)
(*                                                                         *)
(* A handler is modelled as an arbitrary sequence of calls into this       *)
(* class, one action per call; which calls a handler makes exactly is the  *)
(* business of the modules for its class.  Loops over the map are one      *)
(* action per iteration, because handlers, constructors and destructors    *)
(* change the map while it is being walked.                                *)
(***************************************************************************)
EXTENDS Integers, Sequences

CONSTANTS
  N,            (* labels are 1..N, numbered in the order of the std::map      *)
  Listener,     (* the label of the TCPListener                                *)
  ConnLabels,   (* labels of TCPConnections ("Socket#fd")                      *)
  Objects,      (* the objects, named by address: an address can be reused     *)
  Devices,      (* the objects that are DevMinders                             *)
  Plugins,      (* the objects that are PluginRunners                          *)
  Writers,      (* the objects that are WavFileWriters; the others are the     *)
                (* listener and connections                                    *)
  NoObj,        (* "no object under this label"                                *)
  MaxFDs,       (* the most pollfds a device has                               *)
  PollFDErrors  (* can getPollFDs fail (snd_pcm_poll_descriptors)?             *)

Labels == 1..N

NoLabel == 0                 \* the empty string as controlSocketLabel

\* The listener and connections: they always have one pollfd, which they own.
Sockets == Objects \ (Devices \cup Plugins \cup Writers)

\* The labels the server makes for those.
SocketLabels == ConnLabels \cup {Listener}

\* All other labels.  Clients choose the labels of devices and plugins, and may choose
\* those of sockets too.
HostLabels == Labels \ SocketLabels

ASSUME PollableAssumption ==
  /\ N \in Nat
  /\ Listener \in Labels
  /\ ConnLabels \subseteq Labels \ {Listener}
  /\ Devices \subseteq Objects
  /\ Plugins \subseteq Objects \ Devices
  /\ Writers \subseteq Objects \ (Devices \cup Plugins)
  /\ NoObj \notin Objects
  /\ MaxFDs \in Nat \ {0}
  /\ PollFDErrors \in BOOLEAN

VARIABLES
  pollables,           \* label -> object or NoObj
  indexInPollFD,       \* object -> first slot in allpollfds (from 0), or -1
  allpollfds,          \* the vector given to poll(2): whose slot, and POLLOUT in .events
  events,              \* object -> POLLOUT in its own pollfd.events
  outputBuffer,        \* object -> "empty", "queued", or "failed": left by a failed write
  regen_pollfds,
  deferred_removes,    \* the labels in the vector (their order is abstracted)
  have_deferrals,
  doing_poll,
  controlSocketLabel,
  pc,                  \* where the thread is in the round
  cursor,              \* label last visited by the loop over the map
  ready,               \* slots that may show POLLOUT in .revents
  dtors,               \* labels that destructors run by doDeferrals still have to remove
  doomed,              \* history: registered objects that remove() was called for
  abandoned,           \* history: objects with slots that detach has destroyed
  usurped              \* history: sockets' labels that open, attach or detach has used

slots    == <<indexInPollFD, allpollfds, events, outputBuffer>>
deferral == <<deferred_removes, have_deferrals>>
misuse   == <<abandoned, usurped>>
vars     == <<pollables, slots, deferral, regen_pollfds, doing_poll,
              controlSocketLabel, pc, cursor, ready, dtors, doomed, misuse>>

-----------------------------------------------------------------------------
Registered == {pollables[l] : l \in Labels} \ {NoObj}

Has(l) == pollables[l] # NoObj

\* Is the object under this label a connection, the listener?
ConnAt(l) == l \in ConnLabels /\ pollables[l] \in Sockets
ListenerAt(l) == l = Listener /\ pollables[l] \in Sockets

Slot == [obj : Objects, out : BOOLEAN]

\* std::map iteration: l is the first label after the cursor that is in the map.
IsNext(l) ==
  /\ Has(l) /\ l > cursor
  /\ \A k \in Labels : Has(k) /\ k > cursor => l <= k

AtEnd == \A k \in Labels : Has(k) => k <= cursor

\* Mutant of WithOut: the slot is not updated.
WithOutForgotten(fds, i, b) == fds

(***************************************************************************)
(* eventsOf(0) = b for an object whose indexInPollFD is i.  The code tests *)
(* only i >= 0; an index past the end of the vector writes into its spare  *)
(* capacity, which nothing reads.                                          *)
(***************************************************************************)
WithOut(fds, i, b) ==
  IF i \in 0..(Len(fds) - 1) THEN [fds EXCEPT ![i + 1].out = b] ELSE fds

(***************************************************************************)
(* What getNumPollFDs() can return for the object o, and what getPollFDs() *)
(* then writes: a connection, the listener and a writer with an open file  *)
(* copy their pollfd; a device gets snd_pcm descriptors, which do not ask  *)
(* for POLLOUT.                                                            *)
(***************************************************************************)
NumPollFDs(o) ==
  CASE o \in Plugins -> {0}
    [] o \in Devices -> 0..MaxFDs
    [] o \in Writers -> {0, 1}
    [] OTHER -> {1}

PollFDsOf(o, n) ==
  [i \in 1..n |-> [obj |-> o, out |-> o \notin Devices /\ events[o]]]

\* The labels the destructor of o removes: DevMinder::plugins of a device, any set here
\* of labels that a plugin may have had.
Destroys(o) == IF o \in Devices THEN SUBSET (HostLabels \cup usurped) ELSE {{}}

-----------------------------------------------------------------------------
(***************************************************************************)
(* main() has constructed the TCPListener and entered the loop of          *)
(* VampAlsaHost::run.  The five zeroed slots that allpollfds starts with   *)
(* belong to nobody and are cleared before they are used.                  *)
(***************************************************************************)
Init ==
  /\ \E o \in Sockets :
       pollables = [l \in Labels |-> IF l = Listener THEN o ELSE NoObj]
  /\ indexInPollFD = [o \in Objects |-> -1]
  /\ allpollfds = <<>>
  /\ events = [o \in Objects |-> FALSE]
  /\ outputBuffer = [o \in Objects |-> "empty"]
  /\ regen_pollfds = TRUE
  /\ deferred_removes = {}
  /\ have_deferrals = FALSE
  /\ doing_poll = FALSE
  /\ controlSocketLabel = NoLabel
  /\ pc = "top"
  /\ cursor = 0
  /\ ready = {}
  /\ dtors = {}
  /\ doomed = {}
  /\ abandoned = {}
  /\ usurped = {}

\* Mutant of Poll: doing_poll is set only after regenFDs, i.e. forgotten here.
PollUnmarked ==
  /\ pc = "top"
  /\ cursor' = 0
  /\ \/ /\ regen_pollfds
        /\ regen_pollfds' = FALSE
        /\ allpollfds' = <<>>
        /\ abandoned' = {}
        /\ pc' = "regen"
     \/ /\ ~regen_pollfds
        /\ pc' = "sys"
        /\ UNCHANGED <<regen_pollfds, allpollfds, abandoned>>
  /\ UNCHANGED <<pollables, indexInPollFD, events, outputBuffer, deferral,
                 doing_poll, controlSocketLabel, ready, dtors, doomed, usurped>>

\* Mutant of Poll: the request for a rebuild is never forgotten.
PollUncleared ==
  /\ pc = "top"
  /\ doing_poll' = TRUE
  /\ cursor' = 0
  /\ pc' = IF regen_pollfds THEN "regen" ELSE "sys"
  /\ allpollfds' = IF regen_pollfds THEN <<>> ELSE allpollfds
  /\ abandoned' = IF regen_pollfds THEN {} ELSE abandoned
  /\ UNCHANGED <<pollables, indexInPollFD, events, outputBuffer, deferral,
                 regen_pollfds, controlSocketLabel, ready, dtors, doomed, usurped>>

(***************************************************************************)
(* Pollable::poll, first lines, and the head of regenFDs.                  *)
(***************************************************************************)
Poll ==
  /\ pc = "top"
  /\ doing_poll' = TRUE
  /\ cursor' = 0
  /\ \/ /\ regen_pollfds
        /\ regen_pollfds' = FALSE
        /\ allpollfds' = <<>>
        /\ abandoned' = {}
        /\ pc' = "regen"
     \/ /\ ~regen_pollfds
        /\ pc' = "sys"
        /\ UNCHANGED <<regen_pollfds, allpollfds, abandoned>>
  /\ UNCHANGED <<pollables, indexInPollFD, events, outputBuffer, deferral,
                 controlSocketLabel, ready, dtors, doomed, usurped>>

\* Mutant of IndexFor: an object without pollfds keeps a slot number.
IndexForAll(where, n) == where

\* Where regenFDs puts an object with n pollfds when the vector already has `where` slots.
IndexFor(where, n) == IF n > 0 THEN where ELSE -1

(***************************************************************************)
(* One iteration of the loop of regenFDs.  getPollFDs of a device that     *)
(* fails leaves the slots zeroed and sends an asynchronous message, which  *)
(* queues output for the control connection in the middle of the rebuild,  *)
(* when that connection may still have the index of its previous slot.     *)
(***************************************************************************)
RegenNext ==
  /\ pc = "regen"
  /\ \E l \in Labels :
       LET o == pollables[l] IN
       /\ IsNext(l)
       /\ cursor' = l
       /\ \E n \in NumPollFDs(o) :
            /\ indexInPollFD' = [indexInPollFD EXCEPT ![o] = IndexFor(Len(allpollfds), n)]
            /\ allpollfds' = allpollfds \o PollFDsOf(o, n)
  /\ UNCHANGED <<pollables, events, outputBuffer, deferral, regen_pollfds,
                 doing_poll, controlSocketLabel, pc, ready, dtors, doomed, misuse>>

RegenNextError ==
  /\ pc = "regen" /\ PollFDErrors
  /\ \E l \in Labels : \E n \in 1..MaxFDs :
       LET o   == pollables[l]
           fds == allpollfds \o PollFDsOf(o, n)
           idx == [indexInPollFD EXCEPT ![o] = Len(allpollfds)]
       IN
       /\ IsNext(l) /\ o \in Devices
       /\ cursor' = l
       /\ indexInPollFD' = idx
       /\ IF controlSocketLabel # NoLabel /\ Has(controlSocketLabel)
          THEN LET con == pollables[controlSocketLabel] IN
               /\ outputBuffer' = [outputBuffer EXCEPT ![con] = "queued"]
               /\ events' = [events EXCEPT ![con] = TRUE]
               /\ allpollfds' = WithOut(fds, idx[con], TRUE)
          ELSE allpollfds' = fds /\ UNCHANGED <<outputBuffer, events>>
  /\ UNCHANGED <<pollables, deferral, regen_pollfds,
                 doing_poll, controlSocketLabel, pc, ready, dtors, doomed, misuse>>

RegenDone ==
  /\ pc = "regen" /\ AtEnd
  /\ pc' = "sys"
  /\ cursor' = 0
  /\ UNCHANGED <<pollables, slots, deferral, regen_pollfds, doing_poll,
                 controlSocketLabel, ready, dtors, doomed, misuse>>

(***************************************************************************)
(* The poll(2) system call.  Which of the slots that ask for POLLOUT get   *)
(* it is left open until a handler looks; an error ends run(), and with it *)
(* the program.                                                            *)
(***************************************************************************)
SysPoll ==
  /\ pc = "sys"
  /\ \/ /\ pc' = "dispatch"
        /\ ready' = {i \in DOMAIN allpollfds : allpollfds[i].out}
        /\ UNCHANGED doing_poll
     \/ /\ pc' = "stopped"
        /\ doing_poll' = FALSE
        /\ UNCHANGED ready
  /\ UNCHANGED <<pollables, slots, deferral, regen_pollfds, controlSocketLabel,
                 cursor, dtors, doomed, misuse>>

-----------------------------------------------------------------------------
(***************************************************************************)
(* The loop of poll() over the map: the next object with a slot gets       *)
(* handleEvents; objects without one are skipped.                          *)
(***************************************************************************)
HasSlot(l) == Has(l) /\ indexInPollFD[pollables[l]] >= 0

Dispatch ==
  /\ pc = "dispatch"
  /\ \/ \E l \in Labels :
          /\ HasSlot(l) /\ l > cursor
          /\ \A k \in Labels : HasSlot(k) /\ k > cursor => l <= k
          /\ cursor' = l
          /\ pc' = "handler"
     \/ /\ \A k \in Labels : HasSlot(k) => k <= cursor
        /\ pc' = "end"
        /\ UNCHANGED cursor
  /\ UNCHANGED <<pollables, slots, deferral, regen_pollfds, doing_poll,
                 controlSocketLabel, ready, dtors, doomed, misuse>>

\* handleEvents returns: `if (regen_pollfds) break;`
HandlerReturn ==
  /\ pc = "handler"
  /\ pc' = IF regen_pollfds THEN "end" ELSE "dispatch"
  /\ UNCHANGED <<pollables, slots, deferral, regen_pollfds, doing_poll,
                 controlSocketLabel, cursor, ready, dtors, doomed, misuse>>

\* A handler throws (quit, an ALSA error): caught in main, which exits.
HandlerThrow ==
  /\ pc = "handler"
  /\ pc' = "stopped"
  /\ UNCHANGED <<pollables, slots, deferral, regen_pollfds, doing_poll,
                 controlSocketLabel, cursor, ready, dtors, doomed, misuse>>

-----------------------------------------------------------------------------
(***************************************************************************)
(* Calls a handler makes.  Commands of clients are executed in the handler *)
(* of their connection.                                                    *)
(***************************************************************************)
RequestRegen ==
  /\ pc = "handler" /\ ~ListenerAt(cursor)
  /\ regen_pollfds' = TRUE
  /\ UNCHANGED <<pollables, slots, deferral, doing_poll, controlSocketLabel,
                 pc, cursor, ready, dtors, doomed, misuse>>

\* The fields the constructor of Pollable sets; w: does the object queue output at once?
Fresh(o, w) ==
  /\ indexInPollFD' = [indexInPollFD EXCEPT ![o] = -1]
  /\ events' = [events EXCEPT ![o] = w]
  /\ outputBuffer' = [outputBuffer EXCEPT ![o] = IF w THEN "queued" ELSE "empty"]
  /\ UNCHANGED allpollfds

\* Mutant of RegenAfterNew: the constructor does not ask for a rebuild.
RegenUnchanged(old) == old

\* regen_pollfds after the constructor.
RegenAfterNew(old) == TRUE

(***************************************************************************)
(* The object under l, if there is one, gives way to new, or to nobody,    *)
(* and is destroyed at once.  If it is a device, its destructor then asks  *)
(* for the removal of its plugins, as Pollable::remove does in a round.    *)
(* heir: the control socket, if there is none after that.                  *)
(***************************************************************************)
Displace(l, new, heir) ==
  /\ pollables' = [pollables EXCEPT ![l] = new]
  /\ \E D \in Destroys(pollables[l]) :
       LET live == {k \in D : pollables'[k] # NoObj}
           none == controlSocketLabel \in live \cup {NoLabel}
       IN
       /\ deferred_removes' = deferred_removes \cup live
       /\ have_deferrals' = (have_deferrals \/ live # {})
       /\ doomed' = (doomed \ {pollables[l]}) \cup {pollables'[k] : k \in live}
       /\ controlSocketLabel' = IF none THEN heir ELSE controlSocketLabel

\* A client's command destroys what is under l: undefined behaviour if that is the
\* connection whose handler is executing the command.
AfterCommandOn(l) == IF l = cursor THEN "undefined" ELSE pc

(***************************************************************************)
(* A constructor called by a command.  open takes any label, that of a     *)
(* connection or the listener too; attach refuses one in use; rawFile      *)
(* makes a writer under a label where there is none.                       *)
(***************************************************************************)
Construct(l, o) ==
  /\ pc = "handler" /\ ConnAt(cursor)
  /\ o \notin Registered \cup Sockets
  /\ o \in Plugins => ~Has(l)
  /\ o \in Writers => l \in HostLabels /\ pollables[l] \notin Writers
  /\ Displace(l, o, NoLabel)
  /\ Fresh(o, FALSE)
  /\ regen_pollfds' = RegenAfterNew(regen_pollfds)
  /\ pc' = AfterCommandOn(l)
  /\ usurped' = usurped \cup ({l} \cap SocketLabels)
  /\ UNCHANGED <<doing_poll, cursor, ready, dtors, abandoned>>

(***************************************************************************)
(* TCPListener::handleEvents.  The label is made from the new descriptor,  *)
(* so no open connection has it, but a device or a plugin may; unless the  *)
(* server is quiet, a welcome message is queued.                           *)
(***************************************************************************)
Accept(l, o) ==
  /\ pc = "handler" /\ ListenerAt(cursor)
  /\ ~ConnAt(l)
  /\ o \in Sockets \ Registered
  /\ Displace(l, o, l)
  /\ \E w \in BOOLEAN : Fresh(o, w)
  /\ regen_pollfds' = RegenAfterNew(regen_pollfds)
  /\ UNCHANGED <<doing_poll, pc, cursor, ready, dtors, misuse>>

\* Mutant of Defer: have_deferrals stays as it is.
DeferUnflagged(l) ==
  /\ deferred_removes' = deferred_removes \cup {l}
  /\ doomed' = doomed \cup {pollables[l]}
  /\ dtors' = dtors \ {l}
  /\ UNCHANGED <<have_deferrals, pollables>>

\* Pollable::remove while a round is under way: the removal is put off.
Defer(l) ==
  /\ deferred_removes' = deferred_removes \cup {l}
  /\ have_deferrals' = TRUE
  /\ doomed' = doomed \cup {pollables[l]}
  /\ dtors' = dtors \ {l}
  /\ UNCHANGED pollables

\* pollables.erase(l): the map held the last reference, so the object is destroyed.
Erase(l) ==
  /\ pollables' = [pollables EXCEPT ![l] = NoObj]
  /\ doomed' = doomed \ {pollables[l]}
  /\ \E D \in Destroys(pollables[l]) : dtors' = (dtors \ {l}) \cup D

\* Mutant of ControlAfterRemove: controlSocketClosed is not called.
ControlKept(l) == controlSocketLabel

\* The last lines of Pollable::remove: the control connection has gone.
ControlAfterRemove(l) == IF l = controlSocketLabel THEN NoLabel ELSE controlSocketLabel

(***************************************************************************)
(* Pollable::remove of a label that is in the map.                         *)
(***************************************************************************)
Remove(l) ==
  /\ \/ /\ doing_poll
        /\ Defer(l)
        /\ UNCHANGED regen_pollfds
     \/ /\ ~doing_poll
        /\ Erase(l)
        /\ regen_pollfds' = TRUE
        /\ UNCHANGED deferral
  /\ controlSocketLabel' = ControlAfterRemove(l)

\* Mutant of HandlerRemove: a label that is not in the map is not refused.
HandlerRemoveUnchecked(l) ==
  /\ pc = "handler" /\ ~ListenerAt(cursor)
  /\ l \in HostLabels \/ pollables[l] \in Devices
  /\ Remove(l)
  /\ UNCHANGED <<slots, doing_poll, pc, cursor, ready, misuse>>

(***************************************************************************)
(* close removes a device, whatever its label; rawFileOff whatever is      *)
(* under the label of a writer; a writer that gives up removes itself.     *)
(***************************************************************************)
HandlerRemove(l) ==
  /\ pc = "handler" /\ ~ListenerAt(cursor)
  /\ Has(l)
  /\ l \in HostLabels \/ pollables[l] \in Devices
  /\ Remove(l)
  /\ UNCHANGED <<slots, doing_poll, pc, cursor, ready, misuse>>

\* The client hung up: TCPConnection::handleEvents removes itself and returns.
HangUp ==
  /\ pc = "handler" /\ ConnAt(cursor)
  /\ \/ /\ doing_poll
        /\ Defer(cursor)
     \/ /\ ~doing_poll
        /\ Erase(cursor)
        /\ UNCHANGED deferral
  /\ controlSocketLabel' = ControlAfterRemove(cursor)
  /\ regen_pollfds' = TRUE
  /\ pc' = "end"
  /\ UNCHANGED <<slots, doing_poll, cursor, ready, misuse>>

(***************************************************************************)
(* detach erases whatever has the label, plugin or not, at once, and does  *)
(* not ask for a rebuild: the slots of an object that had some stay.       *)
(***************************************************************************)
Detach(l) ==
  /\ pc = "handler" /\ ConnAt(cursor)
  /\ Has(l)
  /\ Displace(l, NoObj, NoLabel)
  /\ pc' = AfterCommandOn(l)
  /\ abandoned' = abandoned \cup ({pollables[l]} \ Plugins)
  /\ usurped' = usurped \cup ({l} \cap SocketLabels)
  /\ UNCHANGED <<slots, regen_pollfds, doing_poll, cursor, ready, dtors>>

(***************************************************************************)
(* Pollable::queueOutput under a connection's label, whatever has it now;  *)
(* output longer than the whole buffer is refused, which changes nothing.  *)
(***************************************************************************)
QueueOutput(l) ==
  /\ pc = "handler" /\ ~ListenerAt(cursor)
  /\ l \in ConnLabels /\ Has(l)
  /\ LET o == pollables[l] IN
     /\ outputBuffer' = [outputBuffer EXCEPT ![o] = "queued"]
     /\ events' = [events EXCEPT ![o] = TRUE]
     /\ allpollfds' = WithOut(allpollfds, indexInPollFD[o], TRUE)
  /\ UNCHANGED <<pollables, indexInPollFD, deferral, regen_pollfds, doing_poll,
                 controlSocketLabel, pc, cursor, ready, dtors, doomed, misuse>>

(***************************************************************************)
(* WavFileWriter::queueOutput: the same, then the writer decides about     *)
(* POLLOUT in its own pollfd only, and may open its file, which asks for a *)
(* rebuild.                                                                *)
(***************************************************************************)
QueueSamples(l) ==
  /\ pc = "handler" /\ ~ListenerAt(cursor)
  /\ pollables[l] \in Writers
  /\ LET o == pollables[l] IN
     /\ outputBuffer' = [outputBuffer EXCEPT ![o] = "queued"]
     /\ \E b \in BOOLEAN : events' = [events EXCEPT ![o] = b]
     /\ allpollfds' = WithOut(allpollfds, indexInPollFD[o], TRUE)
  /\ regen_pollfds' \in {regen_pollfds, TRUE}
  /\ UNCHANGED <<pollables, indexInPollFD, deferral, doing_poll,
                 controlSocketLabel, pc, cursor, ready, dtors, doomed, misuse>>

\* Mutant of StillAsks: POLLOUT is dropped when a write leaves something in the buffer.
StopsAsking(outcome) == FALSE

\* Does writeSomeOutput leave POLLOUT set, by the outcome of write(2)?
StillAsks(outcome) == outcome \in {"all", "part"}

(***************************************************************************)
(* Pollable::writeSomeOutput, called by the handler of the object whose    *)
(* slot shows POLLOUT.  A buffer emptied by this write keeps POLLOUT until *)
(* the next call finds nothing to write.                                   *)
(***************************************************************************)
WriteSome ==
  /\ pc = "handler" /\ ~ListenerAt(cursor)
  /\ LET o == pollables[cursor] IN
     /\ indexInPollFD[o] + 1 \in ready
     /\ ready' = ready \ {indexInPollFD[o] + 1}
     /\ o \notin Devices
     /\ \E outcome \in IF outputBuffer[o] = "empty" THEN {"none"}
                       ELSE {"error", "part", "all"} :
          /\ outputBuffer' = [outputBuffer EXCEPT ![o] =
                                CASE outcome \in {"none", "all"} -> "empty"
                                  [] outcome = "error" -> "failed"
                                  [] OTHER -> outputBuffer[o]]
          /\ events' = [events EXCEPT ![o] = IF StillAsks(outcome) THEN events[o] ELSE FALSE]
          /\ allpollfds' = IF StillAsks(outcome) THEN allpollfds
                           ELSE WithOut(allpollfds, indexInPollFD[o], FALSE)
  /\ UNCHANGED <<pollables, indexInPollFD, deferral, regen_pollfds, doing_poll,
                 controlSocketLabel, pc, cursor, dtors, doomed, misuse>>

-----------------------------------------------------------------------------
(***************************************************************************)
(* The last lines of poll() and the first of doDeferrals.                  *)
(***************************************************************************)
EndRound ==
  /\ pc = "end"
  /\ doing_poll' = FALSE
  /\ \/ /\ have_deferrals
        /\ have_deferrals' = FALSE
        /\ regen_pollfds' = TRUE
        /\ pc' = "deferrals"
     \/ /\ ~have_deferrals
        /\ pc' = "top"
        /\ UNCHANGED <<have_deferrals, regen_pollfds>>
  /\ ready' = {}
  /\ cursor' = 0
  /\ UNCHANGED <<pollables, slots, deferred_removes, controlSocketLabel, dtors, doomed, misuse>>

\* One iteration of doDeferrals: whatever is under the label now is erased.
Deferral ==
  /\ pc = "deferrals" /\ dtors = {}
  /\ \E l \in deferred_removes :
       /\ deferred_removes' = deferred_removes \ {l}
       /\ IF Has(l) THEN Erase(l) ELSE UNCHANGED <<pollables, doomed, dtors>>
  /\ UNCHANGED <<slots, have_deferrals, regen_pollfds, doing_poll,
                 controlSocketLabel, pc, cursor, ready, misuse>>

\* The destructor of an erased device calls remove() for one of its plugins.
DestructorRemove ==
  /\ pc = "deferrals"
  /\ \E l \in dtors :
       \/ /\ Has(l)
          /\ Remove(l)
       \/ /\ ~Has(l)
          /\ dtors' = dtors \ {l}
          /\ UNCHANGED <<pollables, doomed, deferral, regen_pollfds, controlSocketLabel>>
  /\ UNCHANGED <<slots, doing_poll, pc, cursor, ready, misuse>>

DeferralsDone ==
  /\ pc = "deferrals" /\ dtors = {} /\ deferred_removes = {}
  /\ pc' = "top"
  /\ UNCHANGED <<pollables, slots, deferral, regen_pollfds, doing_poll,
                 controlSocketLabel, cursor, ready, dtors, doomed, misuse>>

\* run() has returned or an exception has reached main: the process exits.
\* What happens after undefined behaviour is not modelled.
Over == pc \in {"stopped", "undefined"}

Stopped == Over /\ UNCHANGED vars

-----------------------------------------------------------------------------
\* The thread's own progress: everything but the calls handlers choose to make.
LoopStep ==
  \/ Poll \/ RegenNext \/ RegenNextError \/ RegenDone \/ SysPoll \/ Dispatch
  \/ HandlerReturn \/ EndRound \/ Deferral \/ DestructorRemove \/ DeferralsDone

HandlerStep ==
  \/ HandlerThrow \/ RequestRegen \/ HangUp \/ WriteSome
  \/ \E l \in Labels, o \in Objects : Construct(l, o)
  \/ \E l \in ConnLabels, o \in Objects : Accept(l, o)
  \/ \E l \in Labels : HandlerRemove(l) \/ Detach(l) \/ QueueSamples(l)
  \/ \E l \in ConnLabels : QueueOutput(l)

Next == LoopStep \/ HandlerStep \/ Stopped

Spec == Init /\ [][Next]_vars

(***************************************************************************)
(* poll(2) has a timeout of two seconds (VampAlsaHost::run), descriptors   *)
(* are non-blocking and handlers contain no unbounded loops over their     *)
(* input, so the thread never stops inside a round.                        *)
(***************************************************************************)
FairSpec == Spec /\ WF_vars(LoopStep)

-----------------------------------------------------------------------------
\* The variables stay in their domains (one type invariant for the module).
TypeOK ==
  /\ pollables \in [Labels -> Objects \cup {NoObj}]
  /\ indexInPollFD \in [Objects -> Int]
  /\ allpollfds \in Seq(Slot)
  /\ events \in [Objects -> BOOLEAN]
  /\ outputBuffer \in [Objects -> {"empty", "queued", "failed"}]
  /\ regen_pollfds \in BOOLEAN
  /\ deferred_removes \subseteq Labels
  /\ have_deferrals \in BOOLEAN
  /\ doing_poll \in BOOLEAN
  /\ controlSocketLabel \in ConnLabels \cup {NoLabel}
  /\ pc \in {"top", "regen", "sys", "dispatch", "handler", "end", "deferrals",
            "stopped", "undefined"}
  /\ cursor \in Labels \cup {0}
  /\ ready \subseteq Nat
  /\ dtors \subseteq Labels
  /\ doomed \subseteq Objects
  /\ abandoned \subseteq Objects
  /\ usurped \subseteq SocketLabels

\* Has the loop of regenFDs passed label l, if it is running at all?
Placed(l) == Has(l) /\ (pc = "regen" => l <= cursor)

Owns(o) ==
  /\ indexInPollFD[o] + 1 \in DOMAIN allpollfds
  /\ allpollfds[indexInPollFD[o] + 1].obj = o

(***************************************************************************)
(* The index an object holds always points at a slot of its own: between   *)
(* rebuilds eventsOf and the pollfds passed to handleEvents never reach    *)
(* past the vector or into another object's slots, whatever was            *)
(* constructed, removed, erased or rebuilt (Pollable.cpp:61, 89-92, 147).  *)
(***************************************************************************)
SlotOwned ==
  \A l \in Labels : Placed(l) /\ HasSlot(l) => Owns(pollables[l])

\* When poll(2) is called every slot belongs to an object that is still registered, or
\* to one that a client has detached since the last rebuild.
NoDeadSlots ==
  pc = "sys" => \A i \in DOMAIN allpollfds : allpollfds[i].obj \in Registered \cup abandoned

\* When poll(2) is called the listener and every connection have a slot.
NobodyForgotten ==
  pc = "sys" => \A l \in Labels : pollables[l] \in Sockets => HasSlot(l)

(***************************************************************************)
(* poll(2) is given what it should be: no descriptor of an object that was *)
(* removed or replaced is polled (only detach leaves one, until the next   *)
(* rebuild, see NoDeadSlotsAtAll), and a connection accepted in the round  *)
(* before is listened to (lazy regenFDs against removals, construction,    *)
(* detach and early ends of rounds).                                       *)
(***************************************************************************)
SlotsExact == NoDeadSlots /\ NobodyForgotten

\* The same without the exception; the code does not keep it.
NoDeadSlotsAtAll ==
  pc = "sys" => \A i \in DOMAIN allpollfds : allpollfds[i].obj \in Registered

(***************************************************************************)
(* Output is never stranded: when poll(2) is called, a connection with     *)
(* queued output has its own slot and the slot asks for POLLOUT, across    *)
(* rebuilds, partial writes and output queued before the first rebuild.    *)
(***************************************************************************)
OutputPolled ==
  pc = "sys" =>
    \A l \in ConnLabels : ConnAt(l) /\ outputBuffer[pollables[l]] = "queued" =>
      LET i == indexInPollFD[pollables[l]] + 1 IN
      /\ i \in DOMAIN allpollfds
      /\ allpollfds[i] = [obj |-> pollables[l], out |-> TRUE]

\* The listener, a connection, or a device that has not taken a connection's label.
KeepsEvents(l) ==
  pollables[l] \in Sockets \/ (pollables[l] \in Devices /\ l \notin usurped)

(***************************************************************************)
(* eventsOf is "a reference to the events field for a Pollable"            *)
(* (Pollable.cpp:58): the slot of the listener, a connection or a device   *)
(* asks for POLLOUT exactly when that object does.  Output sent to the     *)
(* label of a connection reaches a device that has taken it.               *)
(***************************************************************************)
EventsInSync ==
  pc = "sys" =>
    \A l \in Labels : HasSlot(l) /\ KeepsEvents(l) =>
      allpollfds[indexInPollFD[pollables[l]] + 1].out = events[pollables[l]]

(***************************************************************************)
(* At the top of a round no object is registered that remove() was called  *)
(* for, whether the call came from a handler, from the destructor of a     *)
(* replaced or detached device or from a destructor run by doDeferrals.    *)
(***************************************************************************)
NoZombie == pc = "top" => doomed \cap Registered = {}

(***************************************************************************)
(* The control socket is no label of a connection that has gone or is      *)
(* about to go, so asyncMsg finds it and a new connection can become it,   *)
(* except for a label that clients have used for something else.           *)
(***************************************************************************)
ControlLive ==
  controlSocketLabel \notin usurped \cup {NoLabel} =>
    ConnAt(controlSocketLabel) /\ pollables[controlSocketLabel] \notin doomed

\* The same without the exception; the code does not keep it.
ControlAlwaysLive ==
  controlSocketLabel # NoLabel =>
    ConnAt(controlSocketLabel) /\ pollables[controlSocketLabel] \notin doomed

\* What remove() was called for is gone in time, for the registry and for asyncMsg.
RemovedIsGone == NoZombie /\ ControlLive

\* A client detaches its own connection, or opens a device under its label.
OwnLabelUsed == Detach(cursor) \/ \E o \in Objects : Construct(cursor, o)

(***************************************************************************)
(* The object whose handler runs is not destroyed or replaced under it by  *)
(* anything that happens in the handler, of devices and writers too, save  *)
(* the one thing a client can do: name its own connection's label.         *)
(***************************************************************************)
HandlerKeepsObject ==
  [][pc = "handler" /\ pollables'[cursor] # pollables[cursor] => OwnLabelUsed]_vars

\* The same without the exception; the code does not keep it.
HandlerAlwaysKeepsObject ==
  [][pc = "handler" => pollables'[cursor] = pollables[cursor]]_vars

(***************************************************************************)
(* An object that remove() was called for goes, unless the process stops.  *)
(***************************************************************************)
RemovedGoes == \A o \in Objects : o \in doomed ~> o \notin doomed \/ Over

(***************************************************************************)
(* Nobody is starved by the early end of rounds (Pollable.cpp:93): if      *)
(* handlers at last stop asking for new slots, every object with a slot,   *)
(* however late its label, is called again and again.                      *)
(***************************************************************************)
AsksForSlots == pc = "handler" /\ ~regen_pollfds /\ regen_pollfds'
Called(l) == pc = "handler" /\ cursor = l

EverybodyCalled ==
  <>[][~AsksForSlots]_vars =>
    \A l \in Labels : []<>(HasSlot(l) => Called(l) \/ Over)

\* The same whatever handlers ask for.
AlwaysCalled ==
  \A l \in Labels : []<>(HasSlot(l) => Called(l) \/ Over)
=============================================================================
