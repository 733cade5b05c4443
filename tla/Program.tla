------------------------------ MODULE Program ------------------------------
(***************************************************************************)
(* The server as a process: main, from its options to exit, the handler    *)
(* terminate that it installs for six signals, the thread that makes       *)
(* directories for a recording, and the destructors of the static objects, *)
(* which exit runs.                                                        *)
(*                                                                         *)
(* A signal handler runs on top of what its thread is doing.  terminate    *)
(* returns only if terminating is set, so that what was interrupted either *)
(* goes on as if nothing had happened or is never resumed; that is why one *)
(* position per thread is enough.                                          *)
(*                                                                         *)
(* Of the rounds (Pollable, VampAlsaHost) only what the end depends on is  *)
(* kept: is there a device, does it have plugins, is there a writer, and   *)
(* what may happen in a handler.                                           *)
(***************************************************************************)
EXTENDS Naturals, Sequences

CONSTANTS
  Asked,      (* signals that may be sent to the process at any time     *)
  Faults,     (* signals of faulty instructions that a handler may have  *)
  DirErrors   (* may it be impossible to make directories?               *)

\* In the order in which main calls signal.
Caught == <<"TERM", "INT", "SEGV", "ILL", "FPE", "ABRT">>
Signals == {Caught[i] : i \in 1..6}

VARIABLES
  at,           \* thread -> where it is
  status,       \* thread -> the argument of its latest call of exit
  mask,         \* thread -> the signals it handles, which are blocked meanwhile
  installed,    \* how many of Caught have a handler
  terminating,
  doing_poll,
  host,         \* "null", "live" or "deleted"
  registry,     \* Pollable::pollables: "device" and "writer", if there is one
  fed,          \* does the device have plugins in its map?
  dangling,     \* does pollables point to an object whose constructor has thrown?
  destroyed,    \* how many of Statics have been destroyed or begun to be
  locked,       \* has the allocator been left with its lock held?
  end,          \* <<>>, <<"exit", status>> or <<"killed", signal>>
  raised,       \* history: the signals for which terminate has been called
  misuse        \* history: what was used after its destruction, or by whom

objects == <<registry, fed, dangling>>
globals == <<installed, terminating, doing_poll, host>>
thread == <<at, status, mask, locked, raised, end>>
vars == <<objects, globals, thread, destroyed, misuse>>

Threads == {"main", "dirs"}
Leaving == {"set", "delete", "exit", "elements", "spinning", "deadlocked"}

\* The static objects of Pollable in the order of their destruction.
Statics == <<"controlSocketLabel", "deferred_removes", "pollables", "allpollfds">>

Init ==
  /\ at = [t \in Threads |-> IF t = "main" THEN "options" ELSE "none"]
  /\ status = [t \in Threads |-> "0"]
  /\ mask = [t \in Threads |-> {}]
  /\ installed = 0 /\ terminating = FALSE /\ doing_poll = FALSE /\ host = "null"
  /\ registry = {} /\ fed = FALSE /\ dangling = FALSE
  /\ destroyed = 0 /\ locked = FALSE
  /\ end = <<>> /\ raised = {} /\ misuse = {}

-----------------------------------------------------------------------------
Running(t, position) == end = <<>> /\ at[t] = position
Handled(s) == \E i \in 1..installed : Caught[i] = s

Go(t, position) ==
  /\ at' = [at EXCEPT ![t] = position]
  /\ UNCHANGED <<status, mask, locked, raised, end>>

Exit(t, code) ==
  /\ at' = [at EXCEPT ![t] = "exit"]
  /\ status' = [status EXCEPT ![t] = code]
  /\ UNCHANGED <<mask, locked, raised, end>>

Killed(s) == end' = <<"killed", s>> /\ UNCHANGED <<at, status, mask, locked, raised>>

\* Mutants of Ignored: the test is missing; it also looks at whether exit has been called.
IgnoredNever == FALSE
IgnoredInExit == terminating \/ destroyed > 0

\* The first test of terminate.
Ignored == terminating

\* The argument of exit in terminate.
Code(s) == s

\* terminate interrupts thread t, for good.  A lock of the allocator stays locked.
Handle(t, s) ==
  /\ at' = [at EXCEPT ![t] = "set"]
  /\ status' = [status EXCEPT ![t] = Code(s)]
  /\ mask' = [mask EXCEPT ![t] = @ \cup {s}]
  /\ locked' = (locked \/ at[t] = "allocating")
  /\ raised' = raised \cup {s}
  /\ UNCHANGED end

\* A faulty instruction: it is repeated if the handler returns.
Fault(t, s) ==
  IF ~Handled(s) \/ s \in mask[t] THEN Killed(s)
  ELSE IF Ignored THEN Go(t, "spinning") ELSE Handle(t, s)

\* abort, also because nobody catches an exception: deadly if the handler returns.
Abort(t) == IF ~Handled("ABRT") \/ Ignored THEN Killed("ABRT") ELSE Handle(t, "ABRT")

\* Thread t does what is undefined: all goes well, or there is a fault, or a check fails.
Undefined(t, position, what) ==
  /\ misuse' = misuse \cup {what}
  /\ Go(t, position) \/ Fault(t, "SEGV") \/ Abort(t)

\* A signal from outside, which main gets.
Signal(s) ==
  /\ end = <<>> /\ s \notin mask["main"]
  /\ IF ~Handled(s) THEN Killed(s)
     ELSE IF ~Ignored THEN Handle("main", s)
     ELSE raised' = raised \cup {s} /\ UNCHANGED <<at, status, mask, locked, end>>
  /\ UNCHANGED <<objects, globals, destroyed, misuse>>

-----------------------------------------------------------------------------
\* -h and what is unknown print the usage; the name of the socket has no slash.
Options ==
  /\ Running("main", "options")
  /\ Go("main", "socket") \/ \E code \in {"0", "1", "2"} : Exit("main", code)
  /\ UNCHANGED <<objects, globals, destroyed, misuse>>

\* An old socket is removed; anything else under its name is left alone.
Socket ==
  /\ Running("main", "socket")
  /\ Go("main", "install") \/ Exit("main", "3")
  /\ UNCHANGED <<objects, globals, destroyed, misuse>>

Install ==
  /\ Running("main", "install")
  /\ installed' = installed + 1
  /\ Go("main", IF installed' = Len(Caught) THEN "construct" ELSE "install")
  /\ UNCHANGED <<objects, terminating, doing_poll, host, destroyed, misuse>>

MakeHost ==
  /\ Running("main", "construct")
  /\ host' = "live"
  /\ Go("main", "listen")
  /\ UNCHANGED <<objects, installed, terminating, doing_poll, destroyed, misuse>>

\* The constructor of the listener registers it first and may throw then, outside of try.
Listen ==
  /\ Running("main", "listen")
  /\ \/ Go("main", "poll") /\ UNCHANGED dangling
     \/ Abort("main") /\ dangling' = TRUE
  /\ UNCHANGED <<registry, fed, globals, destroyed, misuse>>

-----------------------------------------------------------------------------
\* main goes on in its rounds, maybe while the other thread is in exit.
Round(position) ==
  IF destroyed = 0 /\ ~dangling THEN Go("main", position) /\ UNCHANGED misuse
  ELSE Undefined("main", position, "rounds")

StartRound ==
  /\ Running("main", "poll")
  /\ \/ doing_poll' = TRUE /\ Round("handler")
     \/ doing_poll' = FALSE /\ Exit("main", "errno") /\ UNCHANGED misuse
  /\ UNCHANGED <<objects, installed, terminating, host, destroyed>>

\* A handler goes on, calls the allocator or is the last one of the round.
Turn ==
  /\ Running("main", "handler") \/ Running("main", "allocating")
  /\ \E position \in {"handler", "allocating", "deferrals"} : Round(position)
  /\ UNCHANGED <<objects, globals, destroyed>>

\* Commands change which objects there are.  (In a registry that is being destroyed they do
\* what is undefined, as any other Turn.)
Command ==
  /\ Running("main", "handler") /\ destroyed = 0
  /\ registry' \in SUBSET {"device", "writer"}
  /\ fed' \in {FALSE, "device" \in registry'}
  /\ dangling' \in {dangling, TRUE}
  /\ Round("handler")
  /\ UNCHANGED <<globals, destroyed>>

\* A handler ends the program: quit and other runtime_errors, other exceptions, faults,
\* a connection whose client has gone since poll(2).
Fail ==
  /\ Running("main", "handler")
  /\ \/ Exit("main", "0") \/ Abort("main")
     \/ \E s \in Faults : Fault("main", s)
     \/ Killed("PIPE")
  /\ UNCHANGED <<objects, globals, destroyed, misuse>>

EndRound ==
  /\ Running("main", "deferrals")
  /\ doing_poll' = FALSE
  /\ registry' \in SUBSET registry
  /\ fed' = (fed /\ "device" \in registry')
  /\ Round("poll")
  /\ UNCHANGED <<dangling, installed, terminating, host, destroyed>>

-----------------------------------------------------------------------------
\* WavFileWriter::openOutputFile starts the thread; one at a time is enough.
StartThread ==
  /\ Running("main", "handler") /\ at["dirs"] = "none" /\ "writer" \in registry
  /\ Go("dirs", "making")
  /\ UNCHANGED <<objects, globals, destroyed, misuse>>

\* create_directories throws if it cannot do it, and nobody in the thread catches that.
MakeDirs ==
  /\ Running("dirs", "making")
  /\ Go("dirs", "storing") \/ (DirErrors /\ Abort("dirs"))
  /\ UNCHANGED <<objects, globals, destroyed, misuse>>

\* The state is stored in the writer, whether there is one or not.
Store ==
  /\ Running("dirs", "storing")
  /\ IF "writer" \in registry THEN Go("dirs", "none") /\ UNCHANGED misuse
     ELSE Undefined("dirs", "none", "thread")
  /\ UNCHANGED <<objects, globals, destroyed>>

-----------------------------------------------------------------------------
\* What frees memory waits for ever for the lock of an interrupted allocator, if it needs it.
Free(t, position) == Go(t, position) \/ (locked /\ Go(t, "deadlocked"))

Set(t) ==
  /\ Running(t, "set")
  /\ terminating' = TRUE
  /\ Go(t, "delete")
  /\ UNCHANGED <<objects, installed, doing_poll, host, destroyed, misuse>>

DeleteHost(t) ==
  /\ Running(t, "delete")
  /\ IF host = "deleted" THEN Undefined(t, "exit", "host") /\ UNCHANGED host
     ELSE /\ host' = (IF host = "live" THEN "deleted" ELSE "null")
          /\ Free(t, "exit") /\ UNCHANGED misuse
  /\ UNCHANGED <<objects, installed, terminating, doing_poll, destroyed>>

\* exit runs the destructors that have not been begun; a second call goes on with the next.
DestroyStatic(t) ==
  /\ Running(t, "exit") /\ destroyed < Len(Statics)
  /\ destroyed' = destroyed + 1
  /\ Free(t, IF Statics[destroyed'] = "pollables" THEN "elements" ELSE "exit")
  /\ UNCHANGED <<objects, globals, misuse>>

\* Mutant of Erased: the elements are given to Pollable::remove one by one.
ErasedByRemove(o) == IF doing_poll \/ terminating THEN registry ELSE registry \ {o}

\* The map is destroyed element by element.
Erased(o) == registry \ {o}

\* Unless terminating, a device's destructor removes its plugins: from the map it is in, or,
\* when a round has been left by an exception, by way of deferred_removes.
Elements(t) ==
  /\ Running(t, "elements")
  /\ \/ /\ registry = {} /\ ~dangling
        /\ Go(t, "exit") /\ UNCHANGED <<registry, dangling, misuse>>
     \/ /\ dangling /\ dangling' = FALSE
        /\ Undefined(t, "elements", "dangling") /\ UNCHANGED registry
     \/ \E o \in registry :
          /\ registry' = Erased(o)
          /\ IF o = "device" /\ fed /\ ~terminating
             THEN Undefined(t, "elements", IF doing_poll THEN "deferred_removes" ELSE "pollables")
             ELSE Free(t, "elements") /\ UNCHANGED misuse
          /\ UNCHANGED dangling
  /\ UNCHANGED <<fed, globals, destroyed>>

\* The process ends when a thread has found nothing left to destroy.
Finish(t) ==
  /\ Running(t, "exit") /\ destroyed = Len(Statics)
  /\ end' = <<"exit", status[t]>>
  /\ UNCHANGED <<objects, globals, at, status, mask, locked, raised, destroyed, misuse>>

-----------------------------------------------------------------------------
Start == Options \/ Socket \/ Install \/ MakeHost \/ Listen
Rounds == StartRound \/ Turn \/ Command \/ Fail \/ EndRound \/ StartThread
Thread == MakeDirs \/ Store
Leave(t) == Set(t) \/ DeleteHost(t) \/ DestroyStatic(t) \/ Elements(t) \/ Finish(t)

Next ==
  \/ Start \/ Rounds \/ Thread
  \/ \E t \in Threads : Leave(t)
  \/ \E s \in Asked : Signal(s)

\* A thread in terminate or exit is run to the end.
Spec == Init /\ [][Next]_vars /\ \A t \in Threads : WF_vars(Leave(t))

-----------------------------------------------------------------------------
\* What a destructor may use that has been destroyed.
Destructor == {"pollables", "deferred_removes"}

TypeOK ==
  /\ at \in [Threads ->
       {"options", "socket", "install", "construct", "listen", "poll", "handler",
        "allocating", "deferrals", "none", "making", "storing"} \cup Leaving]
  /\ status \in [Threads -> {"0", "1", "2", "3", "errno"} \cup Signals]
  /\ mask \in [Threads -> SUBSET Signals]
  /\ installed \in 0..6 /\ terminating \in BOOLEAN /\ doing_poll \in BOOLEAN
  /\ host \in {"null", "live", "deleted"}
  /\ registry \subseteq {"device", "writer"} /\ fed \in BOOLEAN /\ dangling \in BOOLEAN
  /\ destroyed \in 0..4 /\ locked \in BOOLEAN
  /\ raised \subseteq Signals
  /\ misuse \subseteq {"rounds", "thread", "host", "dangling"} \cup Destructor

\* Has the thread for directories failed, so that two threads may end the program?
ThreadEnds == at["dirs"] \in Leaving

(***************************************************************************)
(* However signals and faults follow each other, also while the program    *)
(* is ending, host is deleted once.                                        *)
(***************************************************************************)
HostDeletedOnce == "host" \in misuse => ThreadEnds

(***************************************************************************)
(* terminating: "if true, don't call e.g. map functions from destructors   *)
(* of element maps!"  Once a signal has been accepted, no destructor of an *)
(* object in pollables goes back into the map that is being destroyed.     *)
(***************************************************************************)
RegistrySpared ==
  [][raised # {} /\ ~ThreadEnds /\ Destructor \cap misuse = {}
       => Destructor \cap misuse' = {}]_vars

(***************************************************************************)
(* The same for every end of the program, quit and errors of poll(2)       *)
(* included.                                                               *)
(***************************************************************************)
RegistryAlwaysSpared == Destructor \cap misuse = {}

(***************************************************************************)
(* "handle signals gracefully": an accepted signal ends the program, but   *)
(* if it came inside the allocator or an object was left dangling.         *)
(***************************************************************************)
SignalEnds ==
  raised # {} ~> end # <<>> \/ locked \/ "dangling" \in misuse

\* An accepted signal always ends the program.
SignalAlwaysEnds == raised # {} ~> end # <<>>

\* The signals main has asked for never kill the process, nor does any other.
NeverKilled == end # <<>> => end[1] # "killed" \/ installed < 6

\* Nothing is used after its destruction by a thread that goes on.
NothingMisused == {"rounds", "thread"} \cap misuse = {}
=============================================================================
