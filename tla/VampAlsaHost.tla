---------------------------- MODULE VampAlsaHost ----------------------------
(***************************************************************************)
(* The commands of VampAlsaHost::runCommand and what they do, round by     *)
(* round, to the objects of the server: devices, plugins attached to them, *)
(* file writers and connections, which refer to each other through maps    *)
(* from labels to weak pointers.                                           *)
(*                                                                         *)
(* There is at most one object under a label and a weak pointer is kept    *)
(* under the label of its object, so an object is named by its label and a *)
(* weak pointer is "live" or, when its object has been destroyed since,    *)
(* "expired"; "none" is a label that is not in the map.                    *)
(*                                                                         *)
(* Clients may do anything: any command of any connection, several in a    *)
(* round, with labels that are or have been those of other objects, since  *)
(* nobody knows what others do in the same round, and since the label of a *)
(* connection is a descriptor, which the kernel uses again.                *)
(*                                                                         *)
(* Descriptors and the vector for poll(2) are the business of Pollable,    *)
(* recorded and plugin data that of WavFileWriter and PluginRunner.  The   *)
(* order in which a round visits objects is left open, because clients     *)
(* choose the labels.                                                      *)
(***************************************************************************)
EXTENDS Integers, Sequences

CONSTANTS
  DevLabels, PluginLabels,   (* what clients choose; they may have labels in common *)
  ConnLabels,                (* "Socket#", and a descriptor                          *)
  Wav,                       (* the label of a device plus Wav is label + "_FileWriter" *)
  Errors                     (* may loading plugins and opening files fail?          *)

WavLabel(d) == d + Wav
WavLabels == {WavLabel(d) : d \in DevLabels}
Labels == DevLabels \cup PluginLabels \cup ConnLabels \cup WavLabels
NoLabel == 0     \* the empty string

ASSUME VampAlsaHostAssumption ==
  /\ DevLabels \cup PluginLabels \cup ConnLabels \subseteq Nat \ {0}
  /\ Wav \in Nat \ {0} /\ WavLabels \cap ConnLabels = {}
  /\ Errors \in BOOLEAN

VARIABLES
  kind,                  \* Pollable::pollables: label -> what is registered there
  deferred_removes,      \* the labels in the vector
  regen_pollfds,
  reader,                \* the connection whose handler is running, or NoLabel
  plugins,               \* device -> plugin -> weak pointer
  rawListeners,          \* device -> connection or writer -> weak pointer
  outputListeners,       \* plugin -> label of a connection -> weak pointer
  defaultOutputListener,
  server,                \* "running", "stopped" or, after undefined behaviour, "undefined"
  source,                \* history: plugin -> device -> the device it is attached to
  attached,              \* history: the plugins, in the order of attach
  closed,                \* history: labels with a close command, or a connection whose
                         \* peer has gone, in this round
  latest,                \* history: the connection with the latest receiveAll
  recording,             \* history: devices with rawFile and no end since
  leftover,              \* history: devices whose writer is that of an earlier device
  doomed                 \* history: the labels that are down for removal because of
                         \* another object than the one that is asked for or there

rounds == <<deferred_removes, regen_pollfds>>
graph == <<plugins, rawListeners, outputListeners, source, attached>>
notes == <<closed, latest, recording, leftover, doomed>>
vars == <<kind, rounds, reader, graph, defaultOutputListener, server, notes>>

Weak == {"none", "live", "expired"}
Empty(labels) == [l \in labels |-> "none"]

Init ==
  /\ kind = [l \in Labels |-> "none"]
  /\ deferred_removes = {} /\ regen_pollfds = FALSE
  /\ reader = NoLabel
  /\ plugins = [d \in DevLabels |-> Empty(PluginLabels)]
  /\ rawListeners = [d \in DevLabels |-> Empty(ConnLabels \cup WavLabels)]
  /\ outputListeners = [p \in PluginLabels |-> Empty(ConnLabels)]
  /\ source = [p \in PluginLabels |-> Empty(DevLabels)]
  /\ defaultOutputListener = NoLabel
  /\ server = "running"
  /\ attached = <<>> /\ closed = {} /\ latest = NoLabel
  /\ recording = {} /\ leftover = {} /\ doomed = {}

-----------------------------------------------------------------------------
\* The labels of map m, live or not.
Keys(m) == {l \in DOMAIN m : m[l] # "none"}

\* What becomes of a weak pointer when the objects in gone have been destroyed.
Fate(pointer, holder, target, gone) ==
  IF holder \in gone THEN "none"
  ELSE IF target \in gone /\ pointer = "live" THEN "expired" ELSE pointer

After(maps, gone) ==
  [x \in DOMAIN maps |->
    [l \in DOMAIN maps[x] |-> Fate(maps[x][l], x, l, gone)]]

\* Dead weak pointers are dropped from the map of x.
Pruned(maps, x) ==
  [maps EXCEPT ![x] = [l \in DOMAIN @ |-> IF @[l] = "expired" THEN "none" ELSE @[l]]]

\* What becomes of recordings when the objects in gone are destroyed.
Recorded(gone) == {d \in recording : {d, WavLabel(d)} \cap gone = {}}

\* A writer outlives its device.
Left(gone) ==
  {d \in DevLabels :
    /\ WavLabel(d) \notin gone
    /\ d \in leftover \/ (d \in gone /\ kind[d] = "device" /\ kind[WavLabel(d)] = "writer")}

\* The objects in gone are destroyed; the raw listeners are seen to elsewhere.
Lose(gone) ==
  /\ plugins' = After(plugins, gone)
  /\ outputListeners' = After(outputListeners, gone)
  /\ source' = After(source, gone)
  /\ attached' = SelectSeq(attached, LAMBDA p : p \notin gone)
  /\ latest' = IF latest \in gone THEN NoLabel ELSE latest
  /\ leftover' = Left(gone)

\* The objects in gone are destroyed.
Destroy(gone) ==
  /\ Lose(gone)
  /\ rawListeners' = After(rawListeners, gone)
  /\ recording' = Recorded(gone)

\* Mutant of PluginsOf: the destructor of a device spares no plugin.
PluginsOfAll(l) == IF kind[l] = "device" THEN {p \in PluginLabels : kind[p] = "plugin"} ELSE {}

\* The labels the destructor of a device removes: all it has in its map and that are
\* those of an object, be it still the plugin or another.
PluginsOf(l) ==
  IF kind[l] = "device" THEN {p \in Keys(plugins[l]) : kind[p] # "none"} ELSE {}

\* Those that are not the plugin's any more.
Mistaken(l) == {p \in PluginsOf(l) : plugins[l][p] = "expired"}

(***************************************************************************)
(* Pollable::Pollable: an object of kind k takes the place of what has     *)
(* label l.  If that label is down for removal, so is the new object.      *)
(***************************************************************************)
Register(l, k) ==
  /\ kind' = [kind EXCEPT ![l] = k]
  /\ regen_pollfds' = TRUE
  /\ deferred_removes' = deferred_removes \cup PluginsOf(l)
  /\ doomed' = doomed \cup Mistaken(l) \cup ({l} \cap deferred_removes)

\* Some object has its turn in the round.
Turn ==
  /\ server = "running" /\ reader = NoLabel
  /\ UNCHANGED <<defaultOutputListener, server>>

\* The connection that is running has a command executed, which leaves the server so.
Command(outcome) ==
  /\ server = "running" /\ reader # NoLabel
  /\ server' = outcome
  /\ UNCHANGED reader

\* The handler of a connection goes on, in freed memory if that is destroyed.
Without(l) == IF l = reader THEN "undefined" ELSE "running"

-----------------------------------------------------------------------------
(***************************************************************************)
(* TCPListener::handleEvents: a connection gets the label of a free        *)
(* descriptor, be that the label of something else.                        *)
(***************************************************************************)
Accept(c) ==
  /\ Turn /\ ~regen_pollfds
  /\ kind[c] # "conn"
  /\ Register(c, "conn")
  /\ Destroy({c})
  /\ UNCHANGED <<reader, closed>>

\* TCPConnection::handleEvents: the peer has gone.
HangUp(c) ==
  /\ Turn /\ ~regen_pollfds
  /\ kind[c] = "conn"
  /\ deferred_removes' = deferred_removes \cup {c}
  /\ regen_pollfds' = TRUE
  /\ closed' = closed \cup {c}
  /\ UNCHANGED <<kind, reader, graph, latest, recording, leftover, doomed>>

\* TCPConnection::handleEvents: text is read, with any number of commands in it.
BeginRead(c) ==
  /\ Turn /\ ~regen_pollfds
  /\ kind[c] = "conn"
  /\ reader' = c
  /\ UNCHANGED <<kind, rounds, graph, notes>>

EndRead ==
  /\ server = "running" /\ reader # NoLabel
  /\ reader' = NoLabel
  /\ UNCHANGED <<kind, rounds, graph, defaultOutputListener, server, notes>>

-----------------------------------------------------------------------------
(***************************************************************************)
(* open: the constructor registers the device in place of whatever is      *)
(* there, which is destroyed.  If the hardware cannot be opened the reply  *)
(* is an error, but the device stays registered.                           *)
(***************************************************************************)
Open(d) ==
  /\ Command(Without(d))
  /\ Register(d, "device")
  /\ Destroy({d})
  /\ UNCHANGED <<defaultOutputListener, closed>>

\* close: the device goes at the end of the round.
Close(d) ==
  /\ Command("running")
  /\ kind[d] = "device"
  /\ deferred_removes' = deferred_removes \cup {d}
  /\ regen_pollfds' = TRUE
  /\ closed' = closed \cup {d} /\ recording' = recording \ {d}
  /\ UNCHANGED <<kind, graph, defaultOutputListener, latest, leftover, doomed>>

\* Mutant of DefaultListeners: receiveAll is not remembered for plugins to come.
DefaultListenersNone(p) == {}

(***************************************************************************)
(* addOutputListener for a new plugin p: whatever has the label of the     *)
(* default output listener, which may be p.                                *)
(***************************************************************************)
DefaultListeners(p) ==
  {c \in ConnLabels : c = defaultOutputListener /\ (kind[c] # "none" \/ c = p)}

\* Mutant of WithPlugin: addPluginRunner is forgotten.
WithPluginForgotten(d, p) == plugins

\* addPluginRunner.
WithPlugin(d, p) == [plugins EXCEPT ![d][p] = "live"]

(***************************************************************************)
(* loadPlugin: 0, or what is wrong with the library (1), with the domain   *)
(* or channels of the plugin (2), the output (3), the initialisation (4).  *)
(***************************************************************************)
LoadPlugin == IF Errors THEN 0..4 ELSE {0}

(***************************************************************************)
(* attach.  When the plugin cannot be loaded, the constructor throws after *)
(* Pollable's has registered the object, and pollables is left with a      *)
(* pointer to freed memory.                                                *)
(***************************************************************************)
Attach(d, p) ==
  /\ kind[d] = "device" /\ kind[p] = "none"
  /\ Register(p, "plugin")
  /\ \/ /\ 0 \in LoadPlugin /\ Command("running")
        /\ plugins' = WithPlugin(d, p)
        /\ source' = [source EXCEPT ![p][d] = "live"]
        /\ outputListeners' =
             [outputListeners EXCEPT ![p] =
                [c \in ConnLabels |-> IF c \in DefaultListeners(p) THEN "live" ELSE "none"]]
        /\ defaultOutputListener' =
             IF DefaultListeners(p) = {} THEN NoLabel ELSE defaultOutputListener
        /\ attached' = Append(attached, p)
     \/ /\ LoadPlugin # {0} /\ Command("undefined")
        /\ UNCHANGED <<plugins, source, outputListeners, defaultOutputListener, attached>>
  /\ UNCHANGED <<rawListeners, closed, latest, recording, leftover>>

\* The raw listener of a plugin's label is dropped from the device with the label of
\* the plugin's device.
Unlistened(l) ==
  [d \in DevLabels |->
    [k \in ConnLabels \cup WavLabels |->
      IF k = l /\ kind[l] = "plugin" /\ source[l][d] # "none" THEN "none"
      ELSE After(rawListeners, {l})[d][k]]]

(***************************************************************************)
(* detach: whatever has the label is erased from pollables at once.  It    *)
(* stays in maps, as an expired pointer, until data is delivered.          *)
(***************************************************************************)
Detach(l) ==
  /\ Command(Without(l))
  /\ kind[l] # "none"
  /\ kind' = [kind EXCEPT ![l] = "none"]
  /\ Lose({l})
  /\ rawListeners' = Unlistened(l)
  /\ recording' = Recorded({l})
  /\ deferred_removes' = deferred_removes \cup PluginsOf(l)
  /\ doomed' = doomed \cup Mistaken(l)
  /\ UNCHANGED <<regen_pollfds, defaultOutputListener, closed>>

\* Mutant of DefaultAfterReceive: receive is also for plugins to come.
DefaultAfterReceiveSelf == reader

\* Only receiveAll is for plugins to come.
DefaultAfterReceive == defaultOutputListener

\* receive: addOutputListener.
Receive(p) ==
  /\ Command("running")
  /\ kind[p] = "plugin"
  /\ outputListeners' = [outputListeners EXCEPT ![p][reader] = "live"]
  /\ defaultOutputListener' = DefaultAfterReceive
  /\ UNCHANGED <<kind, rounds, plugins, rawListeners, source, attached, notes>>

ReceiveAll ==
  /\ Command("running")
  /\ outputListeners' =
       [p \in PluginLabels |->
          IF kind[p] = "plugin" THEN [outputListeners[p] EXCEPT ![reader] = "live"]
          ELSE outputListeners[p]]
  /\ defaultOutputListener' = reader
  /\ latest' = reader
  /\ UNCHANGED <<kind, rounds, plugins, rawListeners, source, attached, closed,
                 recording, leftover, doomed>>

-----------------------------------------------------------------------------
\* rawStream and rawStreamOff: the connection as a raw listener.
RawStream(d) ==
  /\ Command("running")
  /\ kind[d] = "device"
  /\ \E state \in {"live", "none"} :
       rawListeners' = [rawListeners EXCEPT ![d][reader] = state]
  /\ UNCHANGED <<kind, rounds, plugins, outputListeners, source, attached,
                 defaultOutputListener, notes>>

\* Mutant of WithWriter: the new writer is not made a listener.
WithWriterForgotten(d) == rawListeners

\* addRawListener for a new writer.
WithWriter(d) ==
  [After(rawListeners, {WavLabel(d)}) EXCEPT ![d][WavLabel(d)] = "live"]

(***************************************************************************)
(* rawFile: a writer that is there is used again, whoever gets its data    *)
(* and even if it is down for removal; else there is a new one, in place   *)
(* of what has its label.                                                  *)
(***************************************************************************)
RawFile(d) ==
  LET w == WavLabel(d)
  IN /\ Command("running")
     /\ kind[d] = "device"
     /\ \/ /\ kind[w] = "writer"
           /\ recording' = recording \cup {d}
           /\ doomed' = doomed \cup ({w} \cap deferred_removes)
           /\ UNCHANGED <<kind, rounds, graph, latest, leftover>>
        \/ /\ kind[w] # "writer"
           /\ Register(w, "writer")
           /\ Lose({w})
           /\ rawListeners' = WithWriter(d)
           /\ recording' = Recorded({w}) \cup {d}
     /\ UNCHANGED <<defaultOutputListener, closed>>

\* rawFileOff: what has the label of the writer is removed.
RawFileOff(d) ==
  LET w == WavLabel(d)
      there == {l \in {w} : kind[l] # "none"}
  IN /\ Command("running")
     /\ kind[d] = "device"
     /\ rawListeners' = [rawListeners EXCEPT ![d][w] = "none"]
     /\ deferred_removes' = deferred_removes \cup there
     /\ doomed' = doomed \cup {l \in there : kind[l] # "writer"}
     /\ recording' = recording \ {d}
     /\ UNCHANGED <<kind, regen_pollfds, plugins, outputListeners, source, attached,
                    defaultOutputListener, closed, latest, leftover>>

\* start, stop, startAll, stopAll: what they do to a device does not matter here.
StartStop ==
  /\ Command("running")
  /\ regen_pollfds' = TRUE
  /\ UNCHANGED <<kind, deferred_removes, graph, defaultOutputListener, notes>>

\* status, list, help and what is no command: a reply.
Inquire ==
  /\ Command("running")
  /\ UNCHANGED <<kind, rounds, graph, defaultOutputListener, notes>>

\* param: the state of a plugin's library.
Param(p) ==
  /\ Command("running")
  /\ kind[p] = "plugin"
  /\ UNCHANGED <<kind, rounds, graph, defaultOutputListener, notes>>

\* quit: an exception that nobody catches before main.
Quit ==
  /\ Command("stopped")
  /\ UNCHANGED <<kind, rounds, graph, defaultOutputListener, notes>>

-----------------------------------------------------------------------------
(***************************************************************************)
(* DevMinder::handleEvents: data for the raw listeners and the plugins,    *)
(* some of which have output.  Dead listeners are dropped on the way.  A   *)
(* writer that cannot open its file removes itself.                        *)
(***************************************************************************)
Deliver(d) ==
  /\ Turn /\ ~regen_pollfds
  /\ kind[d] = "device"
  /\ rawListeners' = Pruned(rawListeners, d)
  /\ plugins' = Pruned(plugins, d)
  /\ \E talking \in SUBSET {p \in PluginLabels : plugins[d][p] = "live"} :
       outputListeners' =
         [p \in PluginLabels |->
            IF p \in talking THEN Pruned(outputListeners, p)[p] ELSE outputListeners[p]]
  /\ \/ UNCHANGED <<rounds, recording>>
     \/ /\ Errors /\ rawListeners[d][WavLabel(d)] = "live"
        /\ deferred_removes' = deferred_removes \cup {WavLabel(d)}
        /\ regen_pollfds' = TRUE
        /\ recording' = recording \ {d}
  /\ UNCHANGED <<kind, reader, source, attached, closed, latest, leftover, doomed>>

\* Mutant of Deferring: what destructors remove waits for the end of the next round.
DeferringStill == TRUE

\* doing_poll when doDeferrals runs: are removals by destructors put off again?
Deferring == FALSE

Devices == {d \in DevLabels : kind[d] = "device"}

\* Do the devices in ds include those that are removed by others of them?
Complete(ds) ==
  /\ Devices \cap deferred_removes \subseteq ds
  /\ \A d \in ds : Devices \cap PluginsOf(d) \subseteq ds

\* The devices that go, some because their label is in the map of one that goes.
Falling == {d \in Devices : \A ds \in SUBSET Devices : Complete(ds) => d \in ds}

\* What the destructors of the devices that go remove.
Orphans == UNION {PluginsOf(d) : d \in Falling}

\* What doDeferrals erases.
Deferrals == IF Deferring THEN deferred_removes ELSE deferred_removes \cup Orphans

\* The end of a round.  The next one begins with regenFDs.
EndRound ==
  /\ Turn
  /\ kind' = [l \in Labels |-> IF l \in Deferrals THEN "none" ELSE kind[l]]
  /\ Destroy({l \in Deferrals : kind[l] # "none"})
  /\ deferred_removes' = (IF Deferring THEN Orphans ELSE {})
  /\ regen_pollfds' = FALSE
  /\ closed' = {} /\ doomed' = {}
  /\ UNCHANGED reader

-----------------------------------------------------------------------------
DeviceCommand ==
  \E d \in DevLabels :
    \/ Open(d) \/ Close(d)
    \/ RawStream(d) \/ RawFile(d) \/ RawFileOff(d)
    \/ \E p \in PluginLabels : Attach(d, p)

Next ==
  \/ \E c \in ConnLabels : Accept(c) \/ HangUp(c) \/ BeginRead(c)
  \/ EndRead \/ EndRound
  \/ DeviceCommand
  \/ \E l \in Labels : Detach(l)
  \/ \E p \in PluginLabels : Receive(p) \/ Param(p)
  \/ ReceiveAll \/ StartStop \/ Inquire \/ Quit
  \/ \E d \in DevLabels : Deliver(d)

Spec == Init /\ [][Next]_vars

-----------------------------------------------------------------------------
PlainOK ==
  /\ kind \in [Labels -> {"none", "device", "plugin", "conn", "writer"}]
  /\ \A l \in Labels :
       /\ kind[l] = "device" => l \in DevLabels
       /\ kind[l] = "plugin" => l \in PluginLabels
       /\ kind[l] = "conn" => l \in ConnLabels
       /\ kind[l] = "writer" => l \in WavLabels
  /\ deferred_removes \subseteq Labels /\ closed \subseteq Labels /\ doomed \subseteq Labels
  /\ regen_pollfds \in BOOLEAN
  /\ reader \in ConnLabels \cup {NoLabel}
  /\ defaultOutputListener \in ConnLabels \cup {NoLabel}
  /\ server \in {"running", "stopped", "undefined"}
  /\ latest \in ConnLabels \cup {NoLabel}
  /\ recording \subseteq DevLabels /\ leftover \subseteq DevLabels

MapsOK ==
  /\ plugins \in [DevLabels -> [PluginLabels -> Weak]]
  /\ rawListeners \in [DevLabels -> [ConnLabels \cup WavLabels -> Weak]]
  /\ outputListeners \in [PluginLabels -> [ConnLabels -> Weak]]
  /\ source \in [PluginLabels -> [DevLabels -> Weak]]

\* The variables stay in their domains.
TypeOK == PlainOK /\ MapsOK

\* Weak pointers agree with what is registered.
PointersAgree ==
  /\ \A d \in DevLabels, p \in PluginLabels : plugins[d][p] # "none" =>
       kind[d] = "device" /\ (plugins[d][p] = "live" => kind[p] = "plugin")
  /\ \A d \in DevLabels, l \in ConnLabels \cup WavLabels : rawListeners[d][l] # "none" =>
       kind[d] = "device" /\ (rawListeners[d][l] = "live" => kind[l] \in {"conn", "writer"})
  /\ \A p \in PluginLabels, c \in ConnLabels : outputListeners[p][c] # "none" =>
       kind[p] = "plugin" /\ (outputListeners[p][c] = "live" => kind[c] # "none")

(***************************************************************************)
(* Every plugin is attached: the device it was attached to has it in its   *)
(* map and so feeds it, or that device is gone and the plugin goes at the  *)
(* end of the round.  None is left behind without a device, and none is    *)
(* registered without getting data.  And the weak pointers say so.         *)
(***************************************************************************)
PluginsAttached ==
  /\ PointersAgree
  /\ server = "running" =>
       \A p \in PluginLabels : kind[p] = "plugin" =>
         \E d \in DevLabels :
           \/ source[p][d] = "live" /\ plugins[d][p] = "live"
           \/ source[p][d] = "expired" /\ p \in deferred_removes

(***************************************************************************)
(* The connection with the latest receiveAll gets the output of every      *)
(* plugin, attached before or after that command.                          *)
(***************************************************************************)
ReceiveAllServed ==
  latest # NoLabel /\ server = "running" =>
    \A p \in PluginLabels : kind[p] = "plugin" => outputListeners[p][latest] = "live"

(***************************************************************************)
(* Clients get what receive and receiveAll promise: the output of the      *)
(* plugins they have asked for, and no other, whatever else is opened,     *)
(* attached, detached or closed.  The client for plugins to come is the    *)
(* one whose label is the default; a connection that happens to get the    *)
(* label of the one before it takes its place, unless an attach in between *)
(* has found nobody there ("in case a subsequent connection has the same   *)
(* label").  Nothing is promised once behaviour is undefined.              *)
(***************************************************************************)
Regular == server # "undefined"

Connected == {c \in ConnLabels : Regular /\ kind[c] = "conn"}
Running == {p \in PluginLabels : Regular /\ kind[p] = "plugin"}
Wanted ==
  {r \in ConnLabels \X PluginLabels :
    /\ Regular /\ kind[r[1]] = "conn"
    /\ outputListeners[r[2]][r[1]] = "live"}

Promise ==
  INSTANCE Subscriptions WITH
    Clients <- ConnLabels, Plugins <- PluginLabels, Nobody <- NoLabel,
    connected <- Connected, running <- Running, wanted <- Wanted,
    everything <- defaultOutputListener

ImplementsSubscriptions == Promise!Spec

(***************************************************************************)
(* After rawFile, and until the recording is ended by a command or fails,  *)
(* the device has a writer that stays and gets its data, except where the  *)
(* code loses it: the writer was left by an earlier device of that label,  *)
(* or its label was down for removal when rawFile came.                    *)
(***************************************************************************)
RawFileRecords ==
  \A d \in recording \ leftover : WavLabel(d) \notin doomed =>
    rawListeners[d][WavLabel(d)] = "live" /\ WavLabel(d) \notin deferred_removes

\* What the end of the round takes away because of another object of that label.
Doomed == doomed \cup UNION {Mistaken(d) : d \in Falling}

(***************************************************************************)
(* The end of a round takes away only devices that have been closed in it, *)
(* connections whose peer has gone, and plugins whose device is gone or    *)
(* goes, too: a device removes "plugins accepting input from this device". *)
(* The exceptions are labels that have been given to another object since  *)
(* they were put down for removal, or into the map of the device that      *)
(* goes.                                                                   *)
(***************************************************************************)
RoundRemoves ==
  \A l \in Deferrals \ Doomed :
    /\ kind[l] \in {"device", "conn"} => l \in closed
    /\ kind[l] = "plugin" =>
         \E d \in DevLabels :
           \/ source[l][d] = "expired"
           \/ source[l][d] = "live" /\ d \in Falling

\* Nobody takes the place of the connection with the latest receiveAll.
NobodyInherits ==
  defaultOutputListener # NoLabel /\ kind[defaultOutputListener] = "conn" =>
    latest = defaultOutputListener

\* Every recording has a writer that stays and gets its data.
AlwaysRecords ==
  \A d \in recording :
    rawListeners[d][WavLabel(d)] = "live" /\ WavLabel(d) \notin deferred_removes

\* What is taken away at the end of a round is what was meant.
NothingMistaken == Doomed \cap Deferrals = {}

(***************************************************************************)
(* A device feeds its plugins "in the same order in which they were        *)
(* attached"; the map is walked in the order of the labels.                *)
(***************************************************************************)
InAttachOrder ==
  \A d \in DevLabels : \A i, j \in DOMAIN attached :
    /\ i < j
    /\ plugins[d][attached[i]] = "live" /\ plugins[d][attached[j]] = "live"
    => attached[i] < attached[j]

\* The values of pollables are pointers to objects: nothing undefined is done.
NoDangling == server # "undefined"

(***************************************************************************)
(* The round in which a device is closed is the last one of its plugins,   *)
(* whatever else happens in it.                                            *)
(***************************************************************************)
CloseCompletes ==
  [][EndRound =>
       \A d \in closed \cap DevLabels, p \in PluginLabels :
         kind[p] = "plugin" /\ source[p][d] # "none" => kind'[p] = "none"]_vars
=============================================================================
