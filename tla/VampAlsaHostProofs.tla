------------------------- MODULE VampAlsaHostProofs -------------------------
(***************************************************************************)
(* Proofs about the commands of VampAlsaHost, for all sets of labels,      *)
(* with and without errors, and whatever clients do; and, in the last      *)
(* part, about the end of the process, which deletes the host.             *)
(***************************************************************************)
EXTENDS VampAlsaHost, MCProgram, TLAPS

\* The connection that is running is there.
ReaderLives == server = "running" /\ reader # NoLabel => kind[reader] = "conn"

(***************************************************************************)
(* A plugin was attached to a device that has it in its map, or whose      *)
(* destructor has put it down for removal.                                 *)
(***************************************************************************)
SourceAgrees ==
  \A p \in PluginLabels :
    /\ kind[p] # "plugin" => \A d \in DevLabels : source[p][d] = "none"
    /\ \A d \in DevLabels :
         /\ source[p][d] = "live" <=> plugins[d][p] = "live"
         /\ source[p][d] = "expired" => p \in deferred_removes
    /\ server = "running" /\ kind[p] = "plugin" =>
         \E d \in DevLabels : source[p][d] # "none"

(***************************************************************************)
(* The connection with the latest receiveAll is the default listener and   *)
(* listens to every plugin.                                                *)
(***************************************************************************)
LatestServed ==
  latest # NoLabel =>
    /\ kind[latest] = "conn" /\ defaultOutputListener = latest
    /\ server = "running" =>
         \A p \in PluginLabels : kind[p] = "plugin" => outputListeners[p][latest] = "live"

(***************************************************************************)
(* What is down for removal, and not because of another object, is what    *)
(* has been closed or has lost its device.                                 *)
(***************************************************************************)
RemovalsMeant ==
  /\ doomed \subseteq deferred_removes /\ closed \subseteq deferred_removes
  /\ \A l \in deferred_removes \ doomed :
       /\ kind[l] \in {"device", "conn"} => l \in closed
       /\ kind[l] = "plugin" => \E d \in DevLabels : source[l][d] = "expired"

(***************************************************************************)
(* A device and its writer belong together, unless the writer is that of   *)
(* an earlier device or has been put down for removal.                     *)
(***************************************************************************)
WritersAgree ==
  \A d \in DevLabels :
    /\ d \in leftover => kind[WavLabel(d)] = "writer"
    /\ d \in recording => kind[d] = "device" /\ kind[WavLabel(d)] = "writer"
    /\ kind[WavLabel(d)] = "writer" /\ d \notin leftover =>
         /\ kind[d] = "device"
         /\ \/ rawListeners[d][WavLabel(d)] = "live"
            \/ WavLabel(d) \in deferred_removes

IInv ==
  /\ PlainOK /\ MapsOK /\ ReaderLives /\ PointersAgree
  /\ SourceAgrees /\ LatestServed /\ RemovalsMeant /\ WritersAgree /\ RawFileRecords

-----------------------------------------------------------------------------
\* The labels of writers are theirs, and not those of connections.
LEMMA LabelsApart ==
  /\ \A d \in DevLabels : WavLabel(d) \in WavLabels /\ WavLabel(d) # d
  /\ \A d, e \in DevLabels : WavLabel(d) = WavLabel(e) => d = e
  /\ WavLabels \cap ConnLabels = {}
  /\ NoLabel \notin Labels
  /\ Labels = DevLabels \cup PluginLabels \cup ConnLabels \cup WavLabels
<1>1. \A n \in DevLabels \cup PluginLabels \cup ConnLabels : n \in Nat /\ n > 0
  BY VampAlsaHostAssumption
<1>2. Wav \in Nat /\ Wav > 0
  BY VampAlsaHostAssumption
<1>3. \A w \in WavLabels : w \in Nat /\ w > 0
  BY <1>1, <1>2 DEF WavLabels, WavLabel
<1>4. NoLabel \notin Labels
  BY <1>1, <1>3 DEF NoLabel, Labels
<1>5. \A d, e \in DevLabels : WavLabel(d) = WavLabel(e) => d = e
  BY <1>1, <1>2 DEF WavLabel
<1>6. \A d \in DevLabels : WavLabel(d) \in WavLabels /\ WavLabel(d) # d
  BY <1>1, <1>2 DEF WavLabels, WavLabel
<1> QED
  BY <1>4, <1>5, <1>6, VampAlsaHostAssumption DEF Labels

LEMMA PrunedTyped ==
  ASSUME NEW X, NEW Y, NEW maps \in [X -> [Y -> Weak]], NEW x \in X
  PROVE  Pruned(maps, x) \in [X -> [Y -> Weak]]
BY DEF Pruned, Weak

\* The entries of the maps stay in their domain.
LEMMA AfterTyped ==
  ASSUME NEW X, NEW Y, NEW maps \in [X -> [Y -> Weak]], NEW gone
  PROVE  After(maps, gone) \in [X -> [Y -> Weak]]
BY DEF After, Fate, Weak

\* The raw listeners after objects have been destroyed.
LEMMA RawListenersAfter ==
  ASSUME MapsOK, NEW gone
  PROVE  /\ After(rawListeners, gone) \in [DevLabels -> [ConnLabels \cup WavLabels -> Weak]]
         /\ \A x \in DevLabels, y \in ConnLabels \cup WavLabels :
              After(rawListeners, gone)[x][y] = Fate(rawListeners[x][y], x, y, gone)
<1>1. rawListeners \in [DevLabels -> [ConnLabels \cup WavLabels -> Weak]]
  BY DEF MapsOK
<1>2. After(rawListeners, gone) \in [DevLabels -> [ConnLabels \cup WavLabels -> Weak]]
  BY <1>1, AfterTyped, Zenon
<1> QED
  BY <1>1, <1>2 DEF After

\* What the destruction of objects does to the other maps.
LEMMA LoseTells ==
  ASSUME MapsOK, NEW gone, Lose(gone)
  PROVE  /\ plugins' \in [DevLabels -> [PluginLabels -> Weak]]
         /\ \A x \in DevLabels, y \in PluginLabels :
              plugins'[x][y] = Fate(plugins[x][y], x, y, gone)
         /\ outputListeners' \in [PluginLabels -> [ConnLabels -> Weak]]
         /\ \A x \in PluginLabels, y \in ConnLabels :
              outputListeners'[x][y] = Fate(outputListeners[x][y], x, y, gone)
         /\ source' \in [PluginLabels -> [DevLabels -> Weak]]
         /\ \A x \in PluginLabels, y \in DevLabels :
              source'[x][y] = Fate(source[x][y], x, y, gone)
         /\ latest' = (IF latest \in gone THEN NoLabel ELSE latest)
         /\ leftover' = Left(gone)
<1>1. /\ plugins \in [DevLabels -> [PluginLabels -> Weak]]
      /\ outputListeners \in [PluginLabels -> [ConnLabels -> Weak]]
      /\ source \in [PluginLabels -> [DevLabels -> Weak]]
  BY DEF MapsOK
<1>2. /\ plugins' = After(plugins, gone)
      /\ outputListeners' = After(outputListeners, gone)
      /\ source' = After(source, gone)
  BY DEF Lose
<1>3. /\ plugins' \in [DevLabels -> [PluginLabels -> Weak]]
      /\ outputListeners' \in [PluginLabels -> [ConnLabels -> Weak]]
      /\ source' \in [PluginLabels -> [DevLabels -> Weak]]
  BY <1>1, <1>2, AfterTyped, Zenon
<1>4. \A x \in DevLabels, y \in PluginLabels :
        plugins'[x][y] = Fate(plugins[x][y], x, y, gone)
  BY <1>1, <1>2 DEF After
<1>5. \A x \in PluginLabels, y \in ConnLabels :
        outputListeners'[x][y] = Fate(outputListeners[x][y], x, y, gone)
  BY <1>1, <1>2 DEF After
<1>6. \A x \in PluginLabels, y \in DevLabels :
        source'[x][y] = Fate(source[x][y], x, y, gone)
  BY <1>1, <1>2 DEF After
<1> QED
  BY <1>3, <1>4, <1>5, <1>6 DEF Lose

\* The labels a destructor removes, rightly or not.
LEMMA KeysOfPlugins ==
  ASSUME PlainOK, MapsOK, NEW l \in Labels
  PROVE  /\ PluginsOf(l) \subseteq PluginLabels
         /\ kind[l] # "device" => PluginsOf(l) = {}
         /\ kind[l] = "device" => l \in DevLabels
         /\ l \in DevLabels => \A p \in PluginLabels :
              /\ p \in PluginsOf(l) <=>
                   kind[l] = "device" /\ plugins[l][p] # "none" /\ kind[p] # "none"
              /\ p \in Mistaken(l) <=> p \in PluginsOf(l) /\ plugins[l][p] = "expired"
         /\ Mistaken(l) \subseteq PluginsOf(l)
<1>1. kind[l] = "device" => l \in DevLabels
  BY DEF PlainOK
<1>2. l \in DevLabels => DOMAIN plugins[l] = PluginLabels
  BY DEF MapsOK
<1> QED
  BY <1>1, <1>2 DEF PluginsOf, Mistaken, Keys

\* A plugin a device removes rightly is attached to it.
LEMMA RightlyRemoved ==
  ASSUME IInv, NEW l \in Labels, NEW p \in PluginsOf(l) \ Mistaken(l)
  PROVE  /\ l \in DevLabels /\ kind[l] = "device" /\ p \in PluginLabels
         /\ kind[p] = "plugin" /\ plugins[l][p] = "live" /\ source[p][l] = "live" /\ p # l
<1>1. l \in DevLabels /\ kind[l] = "device" /\ p \in PluginLabels
  BY KeysOfPlugins DEF IInv
<1>2. plugins[l][p] # "none" /\ plugins[l][p] # "expired"
  BY <1>1, KeysOfPlugins DEF IInv
<1>3. plugins[l][p] \in {"none", "live", "expired"}
  BY <1>1 DEF IInv, MapsOK, Weak
<1>4. plugins[l][p] = "live"
  BY <1>2, <1>3
<1> QED
  BY <1>1, <1>4 DEF IInv, PointersAgree, SourceAgrees

\* Only a plugin's entry in the map of a device is live; a writer is removed by mistake.
LEMMA OthersMistaken ==
  ASSUME IInv, NEW l \in Labels, NEW p \in PluginsOf(l), kind[p] # "plugin"
  PROVE  p \in Mistaken(l)
BY RightlyRemoved

-----------------------------------------------------------------------------
(***************************************************************************)
(* A new object of kind k takes the place of what has label l: what this   *)
(* means for everything but writers.                                       *)
(***************************************************************************)
LEMMA RegisterKeeps ==
  ASSUME IInv, NEW l \in Labels, NEW k \in {"device", "conn", "writer"},
         k = "device" => l \in DevLabels,
         k = "conn" => l \in ConnLabels,
         k = "writer" => l \in WavLabels,
         Register(l, k), Lose({l}),
         UNCHANGED <<reader, defaultOutputListener, closed>>,
         server = "running",
         server' = "running" \/ server' = "undefined",
         server' = "running" => reader = NoLabel \/ reader # l
  PROVE  /\ kind' \in [Labels -> {"none", "device", "plugin", "conn", "writer"}]
         /\ \A x \in Labels : kind'[x] = IF x = l THEN k ELSE kind[x]
         /\ deferred_removes' = deferred_removes \cup PluginsOf(l)
         /\ doomed' = doomed \cup Mistaken(l) \cup ({l} \cap deferred_removes)
         /\ leftover' = Left({l})
         /\ (recording' \subseteq DevLabels => PlainOK')
         /\ (rawListeners' \in [DevLabels -> [ConnLabels \cup WavLabels -> Weak]] => MapsOK')
         /\ ReaderLives' /\ SourceAgrees' /\ LatestServed' /\ RemovalsMeant'
         /\ \A d \in DevLabels, p \in PluginLabels : plugins'[d][p] # "none" =>
              kind'[d] = "device" /\ (plugins'[d][p] = "live" => kind'[p] = "plugin")
         /\ \A p \in PluginLabels, c \in ConnLabels : outputListeners'[p][c] # "none" =>
              kind'[p] = "plugin" /\ (outputListeners'[p][c] = "live" => kind'[c] # "none")
<1>1. /\ kind' \in [Labels -> {"none", "device", "plugin", "conn", "writer"}]
      /\ \A x \in Labels : kind'[x] = IF x = l THEN k ELSE kind[x]
  BY DEF Register, IInv, PlainOK
<1>2. /\ deferred_removes' = deferred_removes \cup PluginsOf(l)
      /\ doomed' = doomed \cup Mistaken(l) \cup ({l} \cap deferred_removes)
      /\ regen_pollfds' = TRUE
  BY DEF Register
<1>3. /\ \A x \in DevLabels, y \in PluginLabels :
           plugins'[x][y] = Fate(plugins[x][y], x, y, {l})
      /\ \A x \in PluginLabels, y \in ConnLabels :
           outputListeners'[x][y] = Fate(outputListeners[x][y], x, y, {l})
      /\ \A x \in PluginLabels, y \in DevLabels :
           source'[x][y] = Fate(source[x][y], x, y, {l})
      /\ latest' = (IF latest \in {l} THEN NoLabel ELSE latest)
      /\ leftover' = Left({l})
  BY LoseTells DEF IInv
<1>4. /\ PluginsOf(l) \subseteq PluginLabels /\ Mistaken(l) \subseteq PluginsOf(l)
      /\ kind[l] # "device" => PluginsOf(l) = {}
      /\ l \in DevLabels => \A p \in PluginLabels :
           /\ p \in PluginsOf(l) <=>
                kind[l] = "device" /\ plugins[l][p] # "none" /\ kind[p] # "none"
           /\ p \in Mistaken(l) <=> p \in PluginsOf(l) /\ plugins[l][p] = "expired"
  BY KeysOfPlugins DEF IInv
<1>5. recording' \subseteq DevLabels => PlainOK'
  <2>1. leftover' \subseteq DevLabels
    BY <1>3 DEF Left
  <2>2. deferred_removes' \subseteq Labels /\ doomed' \subseteq Labels /\ closed' \subseteq Labels
    BY <1>2, <1>4, LabelsApart DEF IInv, PlainOK
  <2>3. latest' \in ConnLabels \cup {NoLabel}
    BY <1>3 DEF IInv, PlainOK
  <2>4. \A x \in Labels :
          /\ kind'[x] = "device" => x \in DevLabels
          /\ kind'[x] = "plugin" => x \in PluginLabels
          /\ kind'[x] = "conn" => x \in ConnLabels
          /\ kind'[x] = "writer" => x \in WavLabels
    BY <1>1 DEF IInv, PlainOK
  <2> QED
    BY <1>1, <1>2, <2>1, <2>2, <2>3, <2>4 DEF IInv, PlainOK
<1>6. rawListeners' \in [DevLabels -> [ConnLabels \cup WavLabels -> Weak]] => MapsOK'
  BY LoseTells, Zenon DEF IInv, MapsOK
<1>7. ReaderLives'
  BY <1>1, LabelsApart DEF IInv, ReaderLives, PlainOK
<1>8. SourceAgrees'
  <2> SUFFICES ASSUME NEW p \in PluginLabels
               PROVE  /\ kind'[p] # "plugin" => \A d \in DevLabels : source'[p][d] = "none"
                      /\ \A d \in DevLabels :
                           /\ source'[p][d] = "live" <=> plugins'[d][p] = "live"
                           /\ source'[p][d] = "expired" => p \in deferred_removes'
                      /\ server' = "running" /\ kind'[p] = "plugin" =>
                           \E d \in DevLabels : source'[p][d] # "none"
    BY DEF SourceAgrees
  <2>1. p \in Labels
    BY LabelsApart
  <2>2. kind'[p] # "plugin" => \A d \in DevLabels : source'[p][d] = "none"
    BY <1>1, <1>3, <2>1 DEF IInv, SourceAgrees, Fate
  <2>3. ASSUME NEW d \in DevLabels
        PROVE  /\ source'[p][d] = "live" <=> plugins'[d][p] = "live"
               /\ source'[p][d] = "expired" => p \in deferred_removes'
    BY <1>2, <1>3, <1>4 DEF IInv, SourceAgrees, PointersAgree, Fate
  <2>4. server' = "running" /\ kind'[p] = "plugin" =>
          \E d \in DevLabels : source'[p][d] # "none"
    BY <1>1, <1>3, <2>1 DEF IInv, SourceAgrees, Fate
  <2> QED
    BY <2>2, <2>3, <2>4
<1>9. LatestServed'
  BY <1>1, <1>3, LabelsApart DEF IInv, LatestServed, PlainOK, Fate
<1>10. RemovalsMeant'
  <2>1. doomed' \subseteq deferred_removes' /\ closed' \subseteq deferred_removes'
    BY <1>2, <1>4 DEF IInv, RemovalsMeant
  <2>2. ASSUME NEW x \in deferred_removes' \ doomed'
        PROVE  /\ kind'[x] \in {"device", "conn"} => x \in closed'
               /\ kind'[x] = "plugin" => \E d \in DevLabels : source'[x][d] = "expired"
    <3>1. CASE x \in deferred_removes
      <4>1. x # l /\ x \notin doomed /\ x \in Labels
        BY <1>2, <2>2, <3>1 DEF IInv, PlainOK
      <4>2. kind'[x] = kind[x]
        BY <1>1, <4>1
      <4>3. kind[x] = "plugin" => x \in PluginLabels
        BY <4>1 DEF IInv, PlainOK
      <4> QED
        BY <1>3, <3>1, <4>1, <4>2, <4>3 DEF IInv, RemovalsMeant, Fate
    <3>2. CASE x \notin deferred_removes
      <4>1. x \in PluginsOf(l) \ Mistaken(l)
        BY <1>2, <2>2, <3>2
      <4>2. /\ l \in DevLabels /\ x \in PluginLabels /\ x # l
            /\ kind[x] = "plugin" /\ source[x][l] = "live"
        BY <4>1, RightlyRemoved
      <4>3. kind'[x] = "plugin" /\ source'[x][l] = "expired"
        BY <1>1, <1>3, <4>2, LabelsApart DEF Fate
      <4> QED
        BY <4>2, <4>3
    <3> QED
      BY <3>1, <3>2
  <2> QED
    BY <2>1, <2>2 DEF RemovalsMeant
<1>11. \A d \in DevLabels, p \in PluginLabels : plugins'[d][p] # "none" =>
         kind'[d] = "device" /\ (plugins'[d][p] = "live" => kind'[p] = "plugin")
  BY <1>1, <1>3, LabelsApart DEF IInv, PointersAgree, Fate
<1>12. \A p \in PluginLabels, c \in ConnLabels : outputListeners'[p][c] # "none" =>
         kind'[p] = "plugin" /\ (outputListeners'[p][c] = "live" => kind'[c] # "none")
  BY <1>1, <1>3, LabelsApart DEF IInv, PointersAgree, Fate
<1> QED
  BY <1>1, <1>2, <1>3, <1>5, <1>6, <1>7, <1>8, <1>9, <1>10, <1>11, <1>12

(***************************************************************************)
(* And what it means for writers if the new object is none.                *)
(***************************************************************************)
LEMMA ReplaceKeeps ==
  ASSUME IInv, NEW l \in Labels, NEW k \in {"device", "conn"},
         k = "device" => l \in DevLabels,
         k = "conn" => l \in ConnLabels,
         Register(l, k), Destroy({l}),
         UNCHANGED <<reader, defaultOutputListener, closed>>,
         server = "running",
         server' = "running" \/ server' = "undefined",
         server' = "running" => reader = NoLabel \/ reader # l
  PROVE  IInv'
<1>1. Lose({l})
  BY DEF Destroy
<1>2. /\ kind' \in [Labels -> {"none", "device", "plugin", "conn", "writer"}]
      /\ \A x \in Labels : kind'[x] = IF x = l THEN k ELSE kind[x]
      /\ deferred_removes' = deferred_removes \cup PluginsOf(l)
      /\ doomed' = doomed \cup Mistaken(l) \cup ({l} \cap deferred_removes)
      /\ leftover' = Left({l})
      /\ (recording' \subseteq DevLabels => PlainOK')
      /\ (rawListeners' \in [DevLabels -> [ConnLabels \cup WavLabels -> Weak]] => MapsOK')
      /\ ReaderLives' /\ SourceAgrees' /\ LatestServed' /\ RemovalsMeant'
      /\ \A d \in DevLabels, p \in PluginLabels : plugins'[d][p] # "none" =>
           kind'[d] = "device" /\ (plugins'[d][p] = "live" => kind'[p] = "plugin")
      /\ \A p \in PluginLabels, c \in ConnLabels : outputListeners'[p][c] # "none" =>
           kind'[p] = "plugin" /\ (outputListeners'[p][c] = "live" => kind'[c] # "none")
  <2>1. k \in {"device", "conn", "writer"} /\ k # "writer"
    OBVIOUS
  <2> QED
    BY <1>1, <2>1, RegisterKeeps
<1>3. /\ rawListeners' \in [DevLabels -> [ConnLabels \cup WavLabels -> Weak]]
      /\ \A x \in DevLabels, y \in ConnLabels \cup WavLabels :
           rawListeners'[x][y] = Fate(rawListeners[x][y], x, y, {l})
      /\ recording' = Recorded({l}) /\ recording' \subseteq DevLabels
  <2>1. rawListeners' = After(rawListeners, {l}) /\ recording' = Recorded({l})
    BY DEF Destroy
  <2>2. Recorded({l}) \subseteq DevLabels
    BY DEF Recorded, IInv, PlainOK
  <2> QED
    BY <2>1, <2>2, RawListenersAfter DEF IInv
<1>4. PointersAgree'
  <2>1. \A d \in DevLabels, y \in ConnLabels \cup WavLabels : rawListeners'[d][y] # "none" =>
          kind'[d] = "device" /\ (rawListeners'[d][y] = "live" => kind'[y] \in {"conn", "writer"})
    BY <1>2, <1>3, LabelsApart DEF IInv, PointersAgree, Fate
  <2> QED
    BY <1>2, <2>1 DEF PointersAgree
<1>5. \A d \in DevLabels :
        /\ d \in leftover' <=>
             /\ WavLabel(d) # l
             /\ \/ d \in leftover
                \/ d = l /\ kind[d] = "device" /\ kind[WavLabel(d)] = "writer"
        /\ d \in recording' <=> d \in recording /\ d # l /\ WavLabel(d) # l
        /\ d \in Labels /\ WavLabel(d) \in Labels /\ WavLabel(d) \in ConnLabels \cup WavLabels
        /\ WavLabel(d) # d
  <2>1. ASSUME NEW d \in DevLabels
        PROVE  /\ d \in Left({l}) <=>
                    /\ WavLabel(d) # l
                    /\ \/ d \in leftover
                       \/ d = l /\ kind[d] = "device" /\ kind[WavLabel(d)] = "writer"
               /\ d \in Recorded({l}) <=> d \in recording /\ d # l /\ WavLabel(d) # l
    BY DEF Left, Recorded
  <2>2. \A d \in DevLabels :
          /\ d \in Labels /\ WavLabel(d) \in Labels /\ WavLabel(d) \in ConnLabels \cup WavLabels
          /\ WavLabel(d) # d
    BY LabelsApart
  <2> QED
    BY <1>2, <1>3, <2>1, <2>2
<1>6. WritersAgree'
  <2> SUFFICES ASSUME NEW d \in DevLabels
               PROVE  /\ d \in leftover' => kind'[WavLabel(d)] = "writer"
                      /\ d \in recording' => kind'[d] = "device" /\ kind'[WavLabel(d)] = "writer"
                      /\ kind'[WavLabel(d)] = "writer" /\ d \notin leftover' =>
                           /\ kind'[d] = "device"
                           /\ \/ rawListeners'[d][WavLabel(d)] = "live"
                              \/ WavLabel(d) \in deferred_removes'
    BY DEF WritersAgree
  <2>1. /\ kind'[d] = IF d = l THEN k ELSE kind[d]
        /\ kind'[WavLabel(d)] = IF WavLabel(d) = l THEN k ELSE kind[WavLabel(d)]
        /\ rawListeners'[d][WavLabel(d)] = Fate(rawListeners[d][WavLabel(d)], d, WavLabel(d), {l})
    <3>1. d \in Labels /\ WavLabel(d) \in Labels /\ WavLabel(d) \in ConnLabels \cup WavLabels
      BY LabelsApart
    <3>2. /\ kind'[d] = IF d = l THEN k ELSE kind[d]
          /\ kind'[WavLabel(d)] = IF WavLabel(d) = l THEN k ELSE kind[WavLabel(d)]
      BY <1>2, <3>1, Zenon
    <3>3. rawListeners'[d][WavLabel(d)] = Fate(rawListeners[d][WavLabel(d)], d, WavLabel(d), {l})
      BY <1>3, <3>1, Zenon
    <3> QED
      BY <3>2, <3>3
  <2>2. /\ d \in leftover => kind[WavLabel(d)] = "writer"
        /\ d \in recording => kind[d] = "device" /\ kind[WavLabel(d)] = "writer"
        /\ kind[WavLabel(d)] = "writer" /\ d \notin leftover =>
             /\ kind[d] = "device"
             /\ rawListeners[d][WavLabel(d)] = "live" \/ WavLabel(d) \in deferred_removes
    BY DEF IInv, WritersAgree
  <2>3. /\ deferred_removes \subseteq deferred_removes'
        /\ d \notin leftover' => WavLabel(d) = l \/
             /\ d \notin leftover
             /\ d = l => ~(kind[d] = "device" /\ kind[WavLabel(d)] = "writer")
        /\ d \in leftover' => WavLabel(d) # l /\ (d \in leftover \/ kind[WavLabel(d)] = "writer")
        /\ d \in recording' => d \in recording /\ d # l /\ WavLabel(d) # l
    BY <1>2, <1>5
  <2>4. CASE WavLabel(d) = l
    BY <2>1, <2>3, <2>4
  <2>5. CASE WavLabel(d) # l /\ d = l
    BY <2>1, <2>2, <2>3, <2>5
  <2>6. CASE WavLabel(d) # l /\ d # l
    <3>1. rawListeners'[d][WavLabel(d)] = rawListeners[d][WavLabel(d)]
      BY <2>1, <2>6 DEF Fate
    <3> QED
      BY <2>1, <2>2, <2>3, <2>6, <3>1
  <2> QED
    BY <2>4, <2>5, <2>6
<1>7. RawFileRecords'
  <2> SUFFICES ASSUME NEW d \in recording' \ leftover', WavLabel(d) \notin doomed'
               PROVE  /\ rawListeners'[d][WavLabel(d)] = "live"
                      /\ WavLabel(d) \notin deferred_removes'
    BY DEF RawFileRecords
  <2>1. d \in DevLabels /\ d \in recording /\ d \notin leftover /\ d # l /\ WavLabel(d) # l
    BY <1>3, <1>5
  <2>2. /\ rawListeners[d][WavLabel(d)] = "live" /\ WavLabel(d) \notin deferred_removes
        /\ kind[WavLabel(d)] = "writer"
    BY <1>2, <2>1 DEF IInv, RawFileRecords, WritersAgree
  <2>3. WavLabel(d) \notin PluginsOf(l)
    BY <1>2, <2>2, OthersMistaken
  <2> QED
    BY <1>2, <1>3, <1>5, <2>1, <2>2, <2>3 DEF Fate
<1> QED
  BY <1>2, <1>3, <1>4, <1>6, <1>7 DEF IInv

LEMMA AcceptKeeps ==
  ASSUME IInv, NEW c \in ConnLabels, Accept(c)
  PROVE  IInv'
<1>1. /\ server = "running" /\ server' = "running" /\ reader = NoLabel
      /\ UNCHANGED <<reader, defaultOutputListener, closed>>
      /\ Register(c, "conn") /\ Destroy({c}) /\ c \in Labels
  BY LabelsApart DEF Accept, Turn
<1>2. "conn" \in {"device", "conn"}
  OBVIOUS
<1> QED
  BY <1>1, <1>2, ReplaceKeeps

LEMMA OpenKeeps ==
  ASSUME IInv, NEW d \in DevLabels, Open(d)
  PROVE  IInv'
<1>1. /\ server = "running" /\ (server' = "running" \/ server' = "undefined")
      /\ server' = "running" => reader # d
      /\ UNCHANGED <<reader, defaultOutputListener, closed>>
      /\ Register(d, "device") /\ Destroy({d}) /\ d \in Labels
  BY LabelsApart DEF Open, Command, Without
<1>2. "device" \in {"device", "conn"}
  OBVIOUS
<1> QED
  BY <1>1, <1>2, ReplaceKeeps

-----------------------------------------------------------------------------
\* Steps that leave the objects and the maps alone.
LEMMA HangUpKeeps ==
  ASSUME IInv, NEW c \in ConnLabels, HangUp(c)
  PROVE  IInv'
<1>1. /\ server = "running" /\ reader = NoLabel /\ kind[c] = "conn"
      /\ deferred_removes' = deferred_removes \cup {c} /\ closed' = closed \cup {c}
      /\ regen_pollfds' = TRUE
      /\ UNCHANGED <<kind, reader, plugins, rawListeners, outputListeners, source,
                     defaultOutputListener, server, latest, recording, leftover, doomed>>
  BY DEF HangUp, Turn, graph
<1>2. c \in Labels /\ \A d \in DevLabels : WavLabel(d) # c
  BY LabelsApart
<1>3. PlainOK'
  BY <1>1, <1>2 DEF IInv, PlainOK
<1>8. MapsOK' /\ PointersAgree'
  <2>1. MapsOK'
    <3>1. UNCHANGED <<plugins, rawListeners, outputListeners, source>>
      BY <1>1
    <3>2. MapsOK
      BY DEF IInv
    <3> QED
      BY <3>1, <3>2 DEF MapsOK
  <2>2. PointersAgree'
    <3>1. UNCHANGED <<kind, plugins, rawListeners, outputListeners>>
      BY <1>1
    <3>2. PointersAgree
      BY DEF IInv
    <3> QED
      BY <3>1, <3>2 DEF PointersAgree
  <2> QED
    BY <2>1, <2>2
<1>9. ReaderLives' /\ LatestServed'
  BY <1>1 DEF IInv, ReaderLives, LatestServed
<1>4. SourceAgrees'
  BY <1>1 DEF IInv, SourceAgrees
<1>5. RemovalsMeant'
  BY <1>1 DEF IInv, RemovalsMeant
<1>6. WritersAgree' /\ RawFileRecords'
  BY <1>1, <1>2 DEF IInv, WritersAgree, RawFileRecords, PlainOK
<1> QED
  BY <1>3, <1>4, <1>5, <1>6, <1>8, <1>9 DEF IInv

LEMMA CloseKeeps ==
  ASSUME IInv, NEW d \in DevLabels, Close(d)
  PROVE  IInv'
<1>1. /\ server = "running" /\ reader # NoLabel /\ kind[d] = "device"
      /\ deferred_removes' = deferred_removes \cup {d} /\ closed' = closed \cup {d}
      /\ regen_pollfds' = TRUE /\ recording' = recording \ {d}
      /\ UNCHANGED <<kind, reader, plugins, rawListeners, outputListeners, source,
                     defaultOutputListener, server, latest, leftover, doomed>>
  BY DEF Close, Command, graph
<1>2. d \in Labels
  BY LabelsApart
<1>3. PlainOK'
  BY <1>1, <1>2 DEF IInv, PlainOK
<1>8. MapsOK' /\ PointersAgree'
  <2>1. MapsOK'
    <3>1. UNCHANGED <<plugins, rawListeners, outputListeners, source>>
      BY <1>1
    <3>2. MapsOK
      BY DEF IInv
    <3> QED
      BY <3>1, <3>2 DEF MapsOK
  <2>2. PointersAgree'
    <3>1. UNCHANGED <<kind, plugins, rawListeners, outputListeners>>
      BY <1>1
    <3>2. PointersAgree
      BY DEF IInv
    <3> QED
      BY <3>1, <3>2 DEF PointersAgree
  <2> QED
    BY <2>1, <2>2
<1>9. ReaderLives' /\ LatestServed'
  BY <1>1 DEF IInv, ReaderLives, LatestServed
<1>4. SourceAgrees'
  BY <1>1 DEF IInv, SourceAgrees
<1>5. RemovalsMeant'
  BY <1>1 DEF IInv, RemovalsMeant
<1>6. WritersAgree'
  BY <1>1 DEF IInv, WritersAgree
<1>7. RawFileRecords'
  BY <1>1 DEF IInv, WritersAgree, RawFileRecords, PlainOK
<1> QED
  BY <1>3, <1>4, <1>5, <1>6, <1>7, <1>8, <1>9 DEF IInv

LEMMA RestKeeps ==
  ASSUME IInv,
         \/ EndRead \/ StartStop \/ Inquire \/ Quit
         \/ \E c \in ConnLabels : BeginRead(c)
         \/ \E p \in PluginLabels : Param(p)
  PROVE  IInv'
<1>1. /\ server = "running" /\ server' \in {"running", "stopped"}
      /\ regen_pollfds' \in {regen_pollfds, TRUE}
      /\ \/ UNCHANGED reader
         \/ reader' \in ConnLabels /\ kind[reader'] = "conn"
         \/ reader' = NoLabel
      /\ UNCHANGED <<kind, deferred_removes, plugins, rawListeners, outputListeners,
                     source, defaultOutputListener, closed, latest, recording, leftover,
                     doomed>>
  BY DEF EndRead, StartStop, Inquire, Quit, BeginRead, Param, Turn, Command, rounds, graph,
         notes
<1>2. PlainOK' /\ MapsOK'
  BY <1>1 DEF IInv, PlainOK, MapsOK
<1>4. ReaderLives' /\ PointersAgree' /\ LatestServed'
  BY <1>1 DEF IInv, PlainOK, ReaderLives, PointersAgree, LatestServed
<1>3. SourceAgrees' /\ RemovalsMeant' /\ WritersAgree' /\ RawFileRecords'
  BY <1>1 DEF IInv, SourceAgrees, RemovalsMeant, WritersAgree, RawFileRecords
<1> QED
  BY <1>2, <1>3, <1>4 DEF IInv

LEMMA ReceiveKeeps ==
  ASSUME IInv, NEW p \in PluginLabels, Receive(p)
  PROVE  IInv'
<1>1. /\ server = "running" /\ reader # NoLabel
      /\ reader \in ConnLabels /\ kind[reader] = "conn" /\ kind[p] = "plugin"
      /\ UNCHANGED <<kind, deferred_removes, regen_pollfds, reader, plugins,
                     rawListeners, source, defaultOutputListener, server,
                     closed, latest, recording, leftover, doomed>>
  BY DEF Receive, DefaultAfterReceive, Command, rounds, notes, IInv, PlainOK, ReaderLives
<1>2. outputListeners' = [outputListeners EXCEPT ![p][reader] = "live"] /\ "live" \in Weak
  BY DEF Receive, Weak
<1>3. /\ outputListeners' \in [PluginLabels -> [ConnLabels -> Weak]]
      /\ \A z \in PluginLabels, v \in ConnLabels :
           outputListeners'[z][v] = IF z = p /\ v = reader THEN "live" ELSE outputListeners[z][v]
  <2>1. outputListeners \in [PluginLabels -> [ConnLabels -> Weak]]
    BY DEF IInv, MapsOK
  <2> QED
    BY <1>1, <1>2, <2>1
<1>4. MapsOK'
  BY <1>1, <1>3, Zenon DEF IInv, MapsOK
<1>5. PlainOK' /\ ReaderLives' /\ PointersAgree' /\ LatestServed'
  BY <1>1, <1>3 DEF IInv, PlainOK, ReaderLives, PointersAgree, LatestServed
<1>6. SourceAgrees' /\ RemovalsMeant' /\ WritersAgree' /\ RawFileRecords'
  BY <1>1 DEF IInv, SourceAgrees, RemovalsMeant, WritersAgree, RawFileRecords
<1> QED
  BY <1>4, <1>5, <1>6 DEF IInv

LEMMA ReceiveAllKeeps ==
  ASSUME IInv, ReceiveAll
  PROVE  IInv'
<1>1. /\ server = "running" /\ reader # NoLabel
      /\ reader \in ConnLabels /\ kind[reader] = "conn"
      /\ defaultOutputListener' = reader /\ latest' = reader
      /\ UNCHANGED <<kind, deferred_removes, regen_pollfds, reader, plugins,
                     rawListeners, source, server, closed, recording, leftover, doomed>>
  BY DEF ReceiveAll, Command, rounds, IInv, PlainOK, ReaderLives
<1>2. /\ outputListeners' \in [PluginLabels -> [ConnLabels -> Weak]]
      /\ \A p \in PluginLabels, c \in ConnLabels :
           outputListeners'[p][c] =
             IF kind[p] = "plugin" /\ c = reader THEN "live" ELSE outputListeners[p][c]
  <2>1. outputListeners \in [PluginLabels -> [ConnLabels -> Weak]]
    BY DEF IInv, MapsOK
  <2> QED
    BY <1>1, <2>1 DEF ReceiveAll, Weak
<1>3. MapsOK'
  BY <1>1, <1>2, Zenon DEF IInv, MapsOK
<1>4. PlainOK' /\ ReaderLives' /\ PointersAgree' /\ LatestServed'
  BY <1>1, <1>2 DEF IInv, PlainOK, ReaderLives, PointersAgree, LatestServed
<1>5. SourceAgrees' /\ RemovalsMeant' /\ WritersAgree' /\ RawFileRecords'
  BY <1>1 DEF IInv, SourceAgrees, RemovalsMeant, WritersAgree, RawFileRecords
<1> QED
  BY <1>3, <1>4, <1>5 DEF IInv

LEMMA RawStreamKeeps ==
  ASSUME IInv, NEW d \in DevLabels, RawStream(d)
  PROVE  IInv'
<1>1. /\ server = "running" /\ reader # NoLabel
      /\ reader \in ConnLabels /\ kind[reader] = "conn" /\ kind[d] = "device"
      /\ UNCHANGED <<kind, deferred_removes, regen_pollfds, reader, plugins,
                     outputListeners, source, defaultOutputListener, server,
                     closed, latest, recording, leftover, doomed>>
  BY DEF RawStream, Command, rounds, notes, IInv, PlainOK, ReaderLives
<1>2. PICK state \in Weak : rawListeners' = [rawListeners EXCEPT ![d][reader] = state]
  BY DEF RawStream, Weak
<1>3. /\ rawListeners' \in [DevLabels -> [ConnLabels \cup WavLabels -> Weak]]
      /\ \A z \in DevLabels, v \in ConnLabels \cup WavLabels :
           rawListeners'[z][v] = IF z = d /\ v = reader THEN state ELSE rawListeners[z][v]
  <2>1. rawListeners \in [DevLabels -> [ConnLabels \cup WavLabels -> Weak]]
    BY DEF IInv, MapsOK
  <2> QED
    BY <1>1, <1>2, <2>1
<1>4. \A z \in DevLabels : rawListeners'[z][WavLabel(z)] = rawListeners[z][WavLabel(z)]
  BY <1>1, <1>3, LabelsApart
<1>5. MapsOK'
  BY <1>1, <1>3, Zenon DEF IInv, MapsOK
<1>6. PlainOK' /\ ReaderLives' /\ PointersAgree' /\ LatestServed'
  BY <1>1, <1>3 DEF IInv, PlainOK, ReaderLives, PointersAgree, LatestServed
<1>7. SourceAgrees' /\ RemovalsMeant'
  BY <1>1 DEF IInv, SourceAgrees, RemovalsMeant
<1>8. WritersAgree' /\ RawFileRecords'
  BY <1>1, <1>4 DEF IInv, WritersAgree, RawFileRecords, PlainOK
<1> QED
  BY <1>5, <1>6, <1>7, <1>8 DEF IInv

LEMMA RawFileOffKeeps ==
  ASSUME IInv, NEW d \in DevLabels, RawFileOff(d)
  PROVE  IInv'
<1>1. /\ server = "running" /\ reader # NoLabel /\ kind[d] = "device"
      /\ recording' = recording \ {d}
      /\ UNCHANGED <<kind, regen_pollfds, reader, plugins, outputListeners, source,
                     defaultOutputListener, server, closed, latest, leftover>>
  BY DEF RawFileOff, Command
<1>2. /\ \A l : l \in deferred_removes' <=>
           l \in deferred_removes \/ (l = WavLabel(d) /\ kind[l] # "none")
      /\ \A l : l \in doomed' <=>
           l \in doomed \/ (l = WavLabel(d) /\ kind[l] \notin {"none", "writer"})
  BY DEF RawFileOff
<1>3. /\ rawListeners' = [rawListeners EXCEPT ![d][WavLabel(d)] = "none"]
      /\ "none" \in Weak /\ WavLabel(d) \in ConnLabels \cup WavLabels
      /\ WavLabel(d) \in Labels
  BY LabelsApart DEF RawFileOff, Weak
<1>4. /\ rawListeners' \in [DevLabels -> [ConnLabels \cup WavLabels -> Weak]]
      /\ \A z \in DevLabels, v \in ConnLabels \cup WavLabels :
           rawListeners'[z][v] = IF z = d /\ v = WavLabel(d) THEN "none" ELSE rawListeners[z][v]
  <2>1. rawListeners \in [DevLabels -> [ConnLabels \cup WavLabels -> Weak]]
    BY DEF IInv, MapsOK
  <2> QED
    BY <1>3, <2>1
<1>5. \A z \in DevLabels :
        /\ z # d => rawListeners'[z][WavLabel(z)] = rawListeners[z][WavLabel(z)]
        /\ z # d => WavLabel(z) # WavLabel(d)
  BY <1>4, LabelsApart
<1>6. MapsOK'
  BY <1>1, <1>4, Zenon DEF IInv, MapsOK
<1>7. PlainOK'
  <2>1. deferred_removes' \subseteq Labels /\ doomed' \subseteq Labels
    BY <1>2, <1>3 DEF IInv, PlainOK
  <2> QED
    BY <1>1, <2>1 DEF IInv, PlainOK
<1>8. ReaderLives' /\ PointersAgree' /\ LatestServed'
  BY <1>1, <1>4 DEF IInv, ReaderLives, PointersAgree, LatestServed
<1>9. SourceAgrees'
  BY <1>1, <1>2 DEF IInv, SourceAgrees
<1>10. RemovalsMeant'
  BY <1>1, <1>2 DEF IInv, RemovalsMeant
<1>11. WritersAgree'
  BY <1>1, <1>2, <1>5 DEF IInv, WritersAgree
<1>12. RawFileRecords'
  BY <1>1, <1>2, <1>5 DEF IInv, RawFileRecords, PlainOK
<1> QED
  BY <1>6, <1>7, <1>8, <1>9, <1>10, <1>11, <1>12 DEF IInv

LEMMA DeliverKeeps ==
  ASSUME IInv, NEW d \in DevLabels, Deliver(d)
  PROVE  IInv'
<1>1. /\ server = "running" /\ reader = NoLabel
      /\ UNCHANGED <<kind, reader, source, defaultOutputListener, server, closed, latest,
                     leftover, doomed>>
  BY DEF Deliver, Turn
<1>2. plugins' = Pruned(plugins, d) /\ rawListeners' = Pruned(rawListeners, d)
  BY DEF Deliver
<1>3. \A x \in DevLabels, y \in PluginLabels :
        plugins'[x][y] =
          IF x = d /\ plugins[x][y] = "expired" THEN "none" ELSE plugins[x][y]
  <2>1. plugins \in [DevLabels -> [PluginLabels -> Weak]]
    BY DEF IInv, MapsOK
  <2> QED
    BY <1>2, <2>1 DEF Pruned
<1>4. \A x \in DevLabels, y \in ConnLabels \cup WavLabels :
        rawListeners'[x][y] =
          IF x = d /\ rawListeners[x][y] = "expired" THEN "none" ELSE rawListeners[x][y]
  <2>1. rawListeners \in [DevLabels -> [ConnLabels \cup WavLabels -> Weak]]
    BY DEF IInv, MapsOK
  <2> QED
    BY <1>2, <2>1 DEF Pruned
<1>5. PICK talking \in SUBSET PluginLabels :
        outputListeners' =
          [p \in PluginLabels |->
             IF p \in talking THEN Pruned(outputListeners, p)[p] ELSE outputListeners[p]]
  BY DEF Deliver
<1>6. outputListeners' \in [PluginLabels -> [ConnLabels -> Weak]]
  <2>1. ASSUME NEW p \in PluginLabels
        PROVE  Pruned(outputListeners, p)[p] \in [ConnLabels -> Weak]
    <3>1. Pruned(outputListeners, p) \in [PluginLabels -> [ConnLabels -> Weak]]
      BY PrunedTyped, Zenon DEF IInv, MapsOK
    <3> QED
      BY <3>1
  <2>2. outputListeners \in [PluginLabels -> [ConnLabels -> Weak]]
    BY DEF IInv, MapsOK
  <2> QED
    BY <1>5, <2>1, <2>2, Zenon
<1>7. \A p \in PluginLabels, c \in ConnLabels :
        \/ outputListeners'[p][c] = outputListeners[p][c]
        \/ outputListeners[p][c] = "expired" /\ outputListeners'[p][c] = "none"
  <2>1. ASSUME NEW p \in PluginLabels, NEW c \in ConnLabels
        PROVE  Pruned(outputListeners, p)[p][c] =
                 IF outputListeners[p][c] = "expired" THEN "none"
                 ELSE outputListeners[p][c]
    <3>1. outputListeners \in [PluginLabels -> [ConnLabels -> Weak]]
      BY DEF IInv, MapsOK
    <3> QED
      BY <3>1 DEF Pruned
  <2> QED
    BY <1>5, <2>1
<1>8. \/ UNCHANGED <<deferred_removes, regen_pollfds, recording>>
      \/ /\ rawListeners[d][WavLabel(d)] = "live"
         /\ deferred_removes' = deferred_removes \cup {WavLabel(d)}
         /\ regen_pollfds' = TRUE /\ recording' = recording \ {d}
  BY DEF Deliver, rounds
<1>9. MapsOK'
  BY <1>1, <1>2, <1>6, PrunedTyped, Zenon DEF IInv, MapsOK
<1>10. PlainOK'
  <2>1. deferred_removes' \subseteq Labels /\ recording' \subseteq DevLabels
    BY <1>8, LabelsApart DEF IInv, PlainOK
  <2>2. regen_pollfds' \in BOOLEAN
    BY <1>8 DEF IInv, PlainOK
  <2> QED
    BY <1>1, <2>1, <2>2 DEF IInv, PlainOK
<1>11. ReaderLives' /\ LatestServed'
  BY <1>1, <1>7 DEF IInv, ReaderLives, LatestServed, PlainOK
<1>12. PointersAgree'
  BY <1>1, <1>3, <1>4, <1>7 DEF IInv, PointersAgree
<1>13. SourceAgrees'
  BY <1>1, <1>3, <1>8 DEF IInv, SourceAgrees
<1>14. RemovalsMeant'
  <2>1. rawListeners[d][WavLabel(d)] = "live" => kind[WavLabel(d)] = "writer"
    BY LabelsApart DEF IInv, PointersAgree, PlainOK
  <2> QED
    BY <1>1, <1>8, <2>1 DEF IInv, RemovalsMeant
<1>15. \A z \in DevLabels :
         /\ rawListeners[z][WavLabel(z)] = "live" => rawListeners'[z][WavLabel(z)] = "live"
         /\ WavLabel(z) = WavLabel(d) => z = d
  BY <1>4, LabelsApart
<1>16. WritersAgree'
  BY <1>1, <1>8, <1>15 DEF IInv, WritersAgree
<1>17. RawFileRecords'
  BY <1>1, <1>8, <1>15 DEF IInv, RawFileRecords, PlainOK
<1> QED
  BY <1>9, <1>10, <1>11, <1>12, <1>13, <1>14, <1>16, <1>17 DEF IInv

-----------------------------------------------------------------------------
\* Commands that change the objects.
LEMMA AttachKeeps ==
  ASSUME IInv, NEW d \in DevLabels, NEW p \in PluginLabels, Attach(d, p)
  PROVE  IInv'
<1>1. /\ server = "running" /\ reader # NoLabel
      /\ kind[d] = "device" /\ kind[p] = "none"
      /\ regen_pollfds' = TRUE /\ p \in Labels
      /\ UNCHANGED <<reader, rawListeners, closed, latest, recording, leftover>>
  BY LabelsApart DEF Attach, Register, Command
<1>2. /\ kind' \in [Labels -> {"none", "device", "plugin", "conn", "writer"}]
      /\ \A l \in Labels : kind'[l] = IF l = p THEN "plugin" ELSE kind[l]
  BY <1>1 DEF Attach, Register, IInv, PlainOK
<1>3. /\ UNCHANGED deferred_removes
      /\ doomed' = doomed \cup ({p} \cap deferred_removes)
  <2>1. PluginsOf(p) = {} /\ Mistaken(p) = {}
    BY <1>1, KeysOfPlugins DEF IInv
  <2> QED
    BY <2>1 DEF Attach, Register
<1>4. /\ MapsOK'
      /\ \/ /\ server' = "undefined"
            /\ UNCHANGED <<plugins, source, outputListeners, defaultOutputListener>>
         \/ /\ server' = "running"
            /\ defaultOutputListener' =
                 IF DefaultListeners(p) = {} THEN NoLabel ELSE defaultOutputListener
            /\ \A x \in DevLabels, y \in PluginLabels :
                 plugins'[x][y] = IF x = d /\ y = p THEN "live" ELSE plugins[x][y]
            /\ \A x \in PluginLabels, y \in DevLabels :
                 source'[x][y] = IF x = p /\ y = d THEN "live" ELSE source[x][y]
            /\ \A x \in PluginLabels, c \in ConnLabels :
                 outputListeners'[x][c] =
                   IF x = p THEN IF c \in DefaultListeners(p) THEN "live" ELSE "none"
                   ELSE outputListeners[x][c]
  <2>1. CASE server' = "undefined"
    BY <1>1, <2>1 DEF Attach, Command, IInv, MapsOK
  <2>2. CASE server' = "running"
    <3>1. /\ plugins' = [plugins EXCEPT ![d][p] = "live"]
          /\ source' = [source EXCEPT ![p][d] = "live"]
          /\ outputListeners' =
               [outputListeners EXCEPT ![p] =
                  [c \in ConnLabels |-> IF c \in DefaultListeners(p) THEN "live" ELSE "none"]]
          /\ defaultOutputListener' =
               IF DefaultListeners(p) = {} THEN NoLabel ELSE defaultOutputListener
      BY <2>2 DEF Attach, Command, WithPlugin
    <3>2. MapsOK /\ "live" \in Weak
      BY DEF IInv, Weak
    <3>3. /\ plugins' \in [DevLabels -> [PluginLabels -> Weak]]
          /\ \A x \in DevLabels, y \in PluginLabels :
               plugins'[x][y] = IF x = d /\ y = p THEN "live" ELSE plugins[x][y]
      <4>1. plugins \in [DevLabels -> [PluginLabels -> Weak]]
        BY <3>2 DEF MapsOK
      <4> QED
        BY <3>1, <3>2, <4>1
    <3>4. /\ source' \in [PluginLabels -> [DevLabels -> Weak]]
          /\ \A x \in PluginLabels, y \in DevLabels :
               source'[x][y] = IF x = p /\ y = d THEN "live" ELSE source[x][y]
      <4>1. source \in [PluginLabels -> [DevLabels -> Weak]]
        BY <3>2 DEF MapsOK
      <4> QED
        BY <3>1, <3>2, <4>1
    <3>5. /\ outputListeners' \in [PluginLabels -> [ConnLabels -> Weak]]
          /\ \A x \in PluginLabels, c \in ConnLabels :
               outputListeners'[x][c] =
                 IF x = p THEN IF c \in DefaultListeners(p) THEN "live" ELSE "none"
                 ELSE outputListeners[x][c]
      <4>1. outputListeners \in [PluginLabels -> [ConnLabels -> Weak]]
        BY <3>2 DEF MapsOK
      <4>2. [c \in ConnLabels |-> IF c \in DefaultListeners(p) THEN "live" ELSE "none"]
              \in [ConnLabels -> Weak]
        BY DEF Weak
      <4> QED
        BY <3>1, <4>1, <4>2
    <3>6. MapsOK'
      BY <1>1, <3>2, <3>3, <3>4, <3>5, Zenon DEF MapsOK
    <3> QED
      BY <2>2, <3>1, <3>3, <3>4, <3>5, <3>6
  <2> QED
    BY <2>1, <2>2 DEF Attach, Command
<1>5. \A c \in ConnLabels :
        c \in DefaultListeners(p) <=> c = defaultOutputListener /\ (kind[c] # "none" \/ c = p)
  BY DEF DefaultListeners
<1>6. PlainOK'
  BY <1>1, <1>2, <1>3, <1>4 DEF IInv, PlainOK
<1>7. ReaderLives'
  BY <1>1, <1>2, LabelsApart DEF IInv, ReaderLives, PlainOK
<1>8. PointersAgree'
  BY <1>1, <1>2, <1>4, <1>5, LabelsApart DEF IInv, PointersAgree
<1>9. SourceAgrees'
  BY <1>1, <1>2, <1>3, <1>4, LabelsApart DEF IInv, SourceAgrees
<1>10. LatestServed'
  <2> SUFFICES ASSUME latest # NoLabel
               PROVE  /\ kind'[latest] = "conn" /\ defaultOutputListener' = latest
                      /\ server' = "running" => \A q \in PluginLabels :
                           kind'[q] = "plugin" => outputListeners'[q][latest] = "live"
    BY <1>1 DEF LatestServed
  <2>1. /\ latest \in ConnLabels /\ latest \in Labels /\ kind[latest] = "conn" /\ latest # p
        /\ defaultOutputListener = latest
        /\ \A q \in PluginLabels : kind[q] = "plugin" => outputListeners[q][latest] = "live"
    BY <1>1, LabelsApart DEF IInv, LatestServed, PlainOK
  <2>2. kind'[latest] = "conn" /\ latest \in DefaultListeners(p)
    BY <1>2, <1>5, <2>1
  <2>3. defaultOutputListener' = latest
    BY <1>4, <2>1, <2>2
  <2>4. ASSUME server' = "running", NEW q \in PluginLabels, kind'[q] = "plugin"
        PROVE  outputListeners'[q][latest] = "live"
    <3>1. q = p \/ kind[q] = "plugin"
      BY <1>2, <2>4, LabelsApart
    <3> QED
      BY <1>4, <2>1, <2>2, <2>4, <3>1
  <2> QED
    BY <2>2, <2>3, <2>4
<1>11. RemovalsMeant'
  <2>1. doomed' \subseteq deferred_removes' /\ closed' \subseteq deferred_removes'
    BY <1>1, <1>3 DEF IInv, RemovalsMeant
  <2>2. ASSUME NEW l \in deferred_removes' \ doomed'
        PROVE  /\ kind'[l] \in {"device", "conn"} => l \in closed'
               /\ kind'[l] = "plugin" => \E x \in DevLabels : source'[l][x] = "expired"
    <3>1. l \in deferred_removes \ doomed /\ l # p /\ l \in Labels
      BY <1>3, <2>2 DEF IInv, PlainOK
    <3>2. kind'[l] = kind[l] /\ (kind[l] = "plugin" => l \in PluginLabels)
      BY <1>2, <3>1 DEF IInv, PlainOK
    <3> QED
      BY <1>1, <1>4, <3>1, <3>2 DEF IInv, RemovalsMeant
  <2> QED
    BY <2>1, <2>2 DEF RemovalsMeant
<1>12. \A z \in DevLabels :
         /\ kind'[z] = "device" <=> kind[z] = "device"
         /\ kind'[WavLabel(z)] = "writer" <=> kind[WavLabel(z)] = "writer"
  BY <1>1, <1>2, LabelsApart
<1>13. WritersAgree'
  BY <1>1, <1>3, <1>12 DEF IInv, WritersAgree
<1>14. RawFileRecords'
  BY <1>1, <1>3 DEF IInv, RawFileRecords
<1> QED
  BY <1>4, <1>6, <1>7, <1>8, <1>9, <1>10, <1>11, <1>13, <1>14 DEF IInv

LEMMA DetachKeeps ==
  ASSUME IInv, NEW l \in Labels, Detach(l)
  PROVE  IInv'
<1>1. /\ server = "running" /\ reader # NoLabel
      /\ server' = (IF l = reader THEN "undefined" ELSE "running")
      /\ kind[l] # "none"
      /\ deferred_removes' = deferred_removes \cup PluginsOf(l)
      /\ doomed' = doomed \cup Mistaken(l)
      /\ rawListeners' = Unlistened(l) /\ recording' = Recorded({l})
      /\ UNCHANGED <<reader, regen_pollfds, defaultOutputListener, closed>>
  BY DEF Detach, Command, Without
<1>2. /\ kind' \in [Labels -> {"none", "device", "plugin", "conn", "writer"}]
      /\ \A k \in Labels : kind'[k] = IF k = l THEN "none" ELSE kind[k]
  BY DEF Detach, IInv, PlainOK
<1>3. /\ plugins' \in [DevLabels -> [PluginLabels -> Weak]]
      /\ outputListeners' \in [PluginLabels -> [ConnLabels -> Weak]]
      /\ source' \in [PluginLabels -> [DevLabels -> Weak]]
      /\ \A x \in DevLabels, y \in PluginLabels :
           plugins'[x][y] = Fate(plugins[x][y], x, y, {l})
      /\ \A x \in PluginLabels, y \in ConnLabels :
           outputListeners'[x][y] = Fate(outputListeners[x][y], x, y, {l})
      /\ \A x \in PluginLabels, y \in DevLabels :
           source'[x][y] = Fate(source[x][y], x, y, {l})
      /\ latest' = (IF latest \in {l} THEN NoLabel ELSE latest)
      /\ leftover' = Left({l})
  BY LoseTells DEF IInv, Detach
<1>4. /\ PluginsOf(l) \subseteq PluginLabels /\ Mistaken(l) \subseteq PluginsOf(l)
      /\ kind[l] # "device" => PluginsOf(l) = {}
      /\ l \in DevLabels => \A p \in PluginLabels :
           /\ p \in PluginsOf(l) <=>
                kind[l] = "device" /\ plugins[l][p] # "none" /\ kind[p] # "none"
           /\ p \in Mistaken(l) <=> p \in PluginsOf(l) /\ plugins[l][p] = "expired"
  BY KeysOfPlugins DEF IInv
<1>5. /\ rawListeners' \in [DevLabels -> [ConnLabels \cup WavLabels -> Weak]]
      /\ \A x \in DevLabels, y \in ConnLabels \cup WavLabels :
           rawListeners'[x][y] =
             IF y = l /\ kind[l] = "plugin" /\ source[l][x] # "none" THEN "none"
             ELSE Fate(rawListeners[x][y], x, y, {l})
  <2>1. /\ After(rawListeners, {l}) \in [DevLabels -> [ConnLabels \cup WavLabels -> Weak]]
        /\ \A x \in DevLabels, y \in ConnLabels \cup WavLabels :
             After(rawListeners, {l})[x][y] = Fate(rawListeners[x][y], x, y, {l})
    BY RawListenersAfter DEF IInv
  <2>2. "none" \in Weak
    BY DEF Weak
  <2> QED
    BY <1>1, <2>1, <2>2 DEF Unlistened
<1>6. MapsOK'
  BY <1>3, <1>5, Zenon DEF MapsOK
<1>7. PlainOK'
  <2>1. leftover' \subseteq DevLabels /\ recording' \subseteq DevLabels
    BY <1>1, <1>3 DEF Left, Recorded, IInv, PlainOK
  <2>2. deferred_removes' \subseteq Labels /\ doomed' \subseteq Labels /\ closed' \subseteq Labels
    BY <1>1, <1>4, LabelsApart DEF IInv, PlainOK
  <2>3. latest' \in ConnLabels \cup {NoLabel}
    BY <1>3 DEF IInv, PlainOK
  <2>4. \A x \in Labels :
          /\ kind'[x] = "device" => x \in DevLabels
          /\ kind'[x] = "plugin" => x \in PluginLabels
          /\ kind'[x] = "conn" => x \in ConnLabels
          /\ kind'[x] = "writer" => x \in WavLabels
    BY <1>2 DEF IInv, PlainOK
  <2> QED
    BY <1>1, <1>2, <2>1, <2>2, <2>3, <2>4 DEF IInv, PlainOK
<1>8. ReaderLives'
  BY <1>1, <1>2, LabelsApart DEF IInv, ReaderLives, PlainOK
<1>9. PointersAgree'
  <2>1. \A d \in DevLabels, p \in PluginLabels : plugins'[d][p] # "none" =>
          kind'[d] = "device" /\ (plugins'[d][p] = "live" => kind'[p] = "plugin")
    BY <1>2, <1>3, LabelsApart DEF IInv, PointersAgree, Fate
  <2>2. \A p \in PluginLabels, c \in ConnLabels : outputListeners'[p][c] # "none" =>
          kind'[p] = "plugin" /\ (outputListeners'[p][c] = "live" => kind'[c] # "none")
    BY <1>2, <1>3, LabelsApart DEF IInv, PointersAgree, Fate
  <2>3. \A d \in DevLabels, y \in ConnLabels \cup WavLabels : rawListeners'[d][y] # "none" =>
          kind'[d] = "device" /\ (rawListeners'[d][y] = "live" => kind'[y] \in {"conn", "writer"})
    BY <1>2, <1>5, LabelsApart DEF IInv, PointersAgree, Fate
  <2> QED
    BY <2>1, <2>2, <2>3 DEF PointersAgree
<1>10. SourceAgrees'
  <2> SUFFICES ASSUME NEW p \in PluginLabels
               PROVE  /\ kind'[p] # "plugin" => \A d \in DevLabels : source'[p][d] = "none"
                      /\ \A d \in DevLabels :
                           /\ source'[p][d] = "live" <=> plugins'[d][p] = "live"
                           /\ source'[p][d] = "expired" => p \in deferred_removes'
                      /\ server' = "running" /\ kind'[p] = "plugin" =>
                           \E d \in DevLabels : source'[p][d] # "none"
    BY DEF SourceAgrees
  <2>1. p \in Labels
    BY LabelsApart
  <2>2. kind'[p] # "plugin" => \A d \in DevLabels : source'[p][d] = "none"
    <3>1. p # l => kind'[p] = kind[p]
      BY <1>2, <2>1
    <3>2. \A d \in DevLabels : source'[p][d] = Fate(source[p][d], p, d, {l})
      BY <1>3
    <3> QED
      BY <3>1, <3>2 DEF IInv, SourceAgrees, Fate
  <2>3. ASSUME NEW d \in DevLabels
        PROVE  /\ source'[p][d] = "live" <=> plugins'[d][p] = "live"
               /\ source'[p][d] = "expired" => p \in deferred_removes'
    <3>1. /\ source'[p][d] = Fate(source[p][d], p, d, {l})
          /\ plugins'[d][p] = Fate(plugins[d][p], d, p, {l})
      BY <1>3
    <3>2. /\ source[p][d] = "live" <=> plugins[d][p] = "live"
          /\ source[p][d] = "expired" => p \in deferred_removes
          /\ plugins[d][p] = "live" => kind[d] = "device" /\ kind[p] = "plugin"
      BY DEF IInv, SourceAgrees, PointersAgree
    <3>3. d = l /\ plugins[d][p] = "live" => p \in PluginsOf(l)
      BY <1>4, <3>2
    <3> QED
      BY <1>1, <3>1, <3>2, <3>3 DEF Fate
  <2>4. server' = "running" /\ kind'[p] = "plugin" =>
          \E d \in DevLabels : source'[p][d] # "none"
    <3>1. kind'[p] = "plugin" => p # l /\ kind[p] = "plugin"
      BY <1>2, <2>1
    <3>2. \A d \in DevLabels : source'[p][d] = Fate(source[p][d], p, d, {l})
      BY <1>3
    <3>3. kind[p] = "plugin" => \E d \in DevLabels : source[p][d] # "none"
      BY <1>1 DEF IInv, SourceAgrees
    <3> QED
      BY <3>1, <3>2, <3>3 DEF Fate
  <2> QED
    BY <2>2, <2>3, <2>4
<1>11. LatestServed'
  <2> SUFFICES ASSUME latest' # NoLabel
               PROVE  /\ kind'[latest'] = "conn" /\ defaultOutputListener' = latest'
                      /\ \A p \in PluginLabels :
                           kind'[p] = "plugin" => outputListeners'[p][latest'] = "live"
    BY DEF LatestServed
  <2>1. /\ latest' = latest /\ latest # l /\ latest \in ConnLabels /\ kind[latest] = "conn"
        /\ defaultOutputListener = latest
        /\ \A p \in PluginLabels : kind[p] = "plugin" => outputListeners[p][latest] = "live"
    BY <1>1, <1>3 DEF IInv, LatestServed, PlainOK
  <2>2. kind'[latest] = "conn"
    BY <1>2, <2>1, LabelsApart
  <2>3. ASSUME NEW p \in PluginLabels, kind'[p] = "plugin"
        PROVE  outputListeners'[p][latest] = "live"
    <3>1. p # l /\ kind[p] = "plugin"
      BY <1>2, <2>3, LabelsApart
    <3>2. outputListeners'[p][latest] = Fate(outputListeners[p][latest], p, latest, {l})
      BY <1>3, <2>1
    <3> QED
      BY <2>1, <3>1, <3>2 DEF Fate
  <2> QED
    BY <1>1, <2>1, <2>2, <2>3
<1>12. RemovalsMeant'
  <2>1. doomed' \subseteq deferred_removes' /\ closed' \subseteq deferred_removes'
    BY <1>1, <1>4 DEF IInv, RemovalsMeant
  <2>2. ASSUME NEW x \in deferred_removes' \ doomed'
        PROVE  /\ kind'[x] \in {"device", "conn"} => x \in closed'
               /\ kind'[x] = "plugin" => \E d \in DevLabels : source'[x][d] = "expired"
    <3>1. CASE x \in deferred_removes
      <4>1. x \notin doomed /\ x \in Labels /\ (kind[x] = "plugin" => x \in PluginLabels)
        BY <1>1, <2>2, <3>1 DEF IInv, PlainOK
      <4>2. kind'[x] # "none" => x # l /\ kind'[x] = kind[x]
        BY <1>2, <4>1
      <4> QED
        BY <1>1, <1>3, <3>1, <4>1, <4>2 DEF IInv, RemovalsMeant, Fate
    <3>2. CASE x \notin deferred_removes
      <4>1. x \in PluginsOf(l) \ Mistaken(l)
        BY <1>1, <2>2, <3>2
      <4>2. /\ l \in DevLabels /\ x \in PluginLabels /\ x # l
            /\ kind[x] = "plugin" /\ source[x][l] = "live"
        BY <4>1, RightlyRemoved
      <4>3. kind'[x] = "plugin" /\ source'[x][l] = "expired"
        BY <1>2, <1>3, <4>2, LabelsApart DEF Fate
      <4> QED
        BY <4>2, <4>3
    <3> QED
      BY <3>1, <3>2
  <2> QED
    BY <2>1, <2>2 DEF RemovalsMeant
<1>13. \A d \in DevLabels :
         /\ d \in leftover' <=>
              /\ WavLabel(d) # l
              /\ \/ d \in leftover
                 \/ d = l /\ kind[d] = "device" /\ kind[WavLabel(d)] = "writer"
         /\ d \in recording' <=> d \in recording /\ d # l /\ WavLabel(d) # l
  <2>1. ASSUME NEW d \in DevLabels
        PROVE  /\ d \in Left({l}) <=>
                    /\ WavLabel(d) # l
                    /\ \/ d \in leftover
                       \/ d = l /\ kind[d] = "device" /\ kind[WavLabel(d)] = "writer"
               /\ d \in Recorded({l}) <=> d \in recording /\ d # l /\ WavLabel(d) # l
    BY DEF Left, Recorded
  <2> QED
    BY <1>1, <1>3, <2>1
<1>14. ASSUME NEW d \in DevLabels
       PROVE  /\ kind'[d] = IF d = l THEN "none" ELSE kind[d]
              /\ kind'[WavLabel(d)] = IF WavLabel(d) = l THEN "none" ELSE kind[WavLabel(d)]
              /\ WavLabel(d) # l /\ d # l =>
                   rawListeners'[d][WavLabel(d)] = rawListeners[d][WavLabel(d)]
  <2>1. d \in Labels /\ WavLabel(d) \in Labels /\ WavLabel(d) \in ConnLabels \cup WavLabels
    BY LabelsApart
  <2>2. /\ kind'[d] = IF d = l THEN "none" ELSE kind[d]
        /\ kind'[WavLabel(d)] = IF WavLabel(d) = l THEN "none" ELSE kind[WavLabel(d)]
    BY <1>2, <2>1, Zenon
  <2>3. WavLabel(d) # l /\ d # l =>
          rawListeners'[d][WavLabel(d)] = Fate(rawListeners[d][WavLabel(d)], d, WavLabel(d), {l})
    BY <1>5, <2>1, Zenon
  <2> QED
    BY <2>2, <2>3 DEF Fate
<1>15. WritersAgree'
  BY <1>1, <1>13, <1>14 DEF IInv, WritersAgree
<1>16. RawFileRecords'
  <2> SUFFICES ASSUME NEW d \in recording' \ leftover', WavLabel(d) \notin doomed'
               PROVE  /\ rawListeners'[d][WavLabel(d)] = "live"
                      /\ WavLabel(d) \notin deferred_removes'
    BY DEF RawFileRecords
  <2>1. d \in DevLabels /\ d \in recording /\ d \notin leftover /\ d # l /\ WavLabel(d) # l
    BY <1>7, <1>13 DEF PlainOK
  <2>2. /\ rawListeners[d][WavLabel(d)] = "live" /\ WavLabel(d) \notin deferred_removes
        /\ kind[WavLabel(d)] = "writer"
    BY <1>1, <2>1 DEF IInv, RawFileRecords, WritersAgree
  <2>3. WavLabel(d) \notin PluginsOf(l)
    BY <1>1, <2>2, OthersMistaken
  <2> QED
    BY <1>1, <1>14, <2>1, <2>2, <2>3
<1> QED
  BY <1>6, <1>7, <1>8, <1>9, <1>10, <1>11, <1>12, <1>15, <1>16 DEF IInv

LEMMA RawFileKeeps ==
  ASSUME IInv, NEW d \in DevLabels, RawFile(d)
  PROVE  IInv'
<1>1. /\ server = "running" /\ server' = "running" /\ reader # NoLabel
      /\ kind[d] = "device" /\ UNCHANGED <<reader, defaultOutputListener, closed>>
      /\ reader \in ConnLabels
  BY DEF RawFile, Command, IInv, PlainOK
<1>2. /\ WavLabel(d) \in WavLabels /\ WavLabel(d) \in Labels /\ d \in Labels
      /\ WavLabel(d) # d /\ WavLabel(d) # reader
      /\ \A e \in DevLabels :
           /\ e \in Labels /\ WavLabel(e) \in Labels
           /\ WavLabel(e) \in ConnLabels \cup WavLabels
           /\ WavLabel(e) = WavLabel(d) => e = d
  BY <1>1, LabelsApart
<1>3. CASE kind[WavLabel(d)] = "writer"
  <2>1. /\ recording' = recording \cup {d}
        /\ doomed' = doomed \cup ({WavLabel(d)} \cap deferred_removes)
        /\ UNCHANGED <<kind, deferred_removes, regen_pollfds, plugins, rawListeners,
                       outputListeners, source, latest, leftover>>
    BY <1>3 DEF RawFile, rounds, graph
  <2>2. PlainOK'
    BY <1>1, <1>2, <2>1 DEF IInv, PlainOK
  <2>3. MapsOK' /\ PointersAgree'
    <3>1. MapsOK /\ PointersAgree /\ UNCHANGED <<kind, plugins, rawListeners,
                                                 outputListeners, source>>
      BY <2>1 DEF IInv
    <3>2. MapsOK'
      BY <3>1 DEF MapsOK
    <3>3. PointersAgree'
      BY <3>1 DEF PointersAgree
    <3> QED
      BY <3>2, <3>3
  <2>4. ReaderLives' /\ LatestServed'
    BY <1>1, <2>1 DEF IInv, ReaderLives, LatestServed
  <2>5. SourceAgrees' /\ RemovalsMeant'
    BY <1>1, <2>1 DEF IInv, SourceAgrees, RemovalsMeant
  <2>6. WritersAgree'
    BY <1>1, <1>3, <2>1 DEF IInv, WritersAgree
  <2>7. RawFileRecords'
    BY <1>1, <1>3, <2>1 DEF IInv, WritersAgree, RawFileRecords
  <2> QED
    BY <2>2, <2>3, <2>4, <2>5, <2>6, <2>7 DEF IInv
<1>4. CASE kind[WavLabel(d)] # "writer"
  <2>1. /\ Register(WavLabel(d), "writer") /\ Lose({WavLabel(d)})
        /\ rawListeners' = WithWriter(d)
        /\ recording' = Recorded({WavLabel(d)}) \cup {d}
    BY <1>4 DEF RawFile
  <2>2. \A e \in DevLabels :
          /\ e \in Left({WavLabel(d)}) <=>
               /\ WavLabel(e) # WavLabel(d)
               /\ \/ e \in leftover
                  \/ e = WavLabel(d) /\ kind[e] = "device" /\ kind[WavLabel(e)] = "writer"
          /\ e \in recording' <=>
               e = d \/ (e \in recording /\ e # WavLabel(d) /\ WavLabel(e) # WavLabel(d))
    BY <2>1 DEF Left, Recorded
  <2>3. recording' \subseteq DevLabels
    BY <2>1 DEF Recorded, IInv, PlainOK
  <2>4. /\ rawListeners' \in [DevLabels -> [ConnLabels \cup WavLabels -> Weak]]
        /\ \A x \in DevLabels, y \in ConnLabels \cup WavLabels :
             rawListeners'[x][y] =
               IF x = d /\ y = WavLabel(d) THEN "live"
               ELSE Fate(rawListeners[x][y], x, y, {WavLabel(d)})
    <3>1. /\ After(rawListeners, {WavLabel(d)})
               \in [DevLabels -> [ConnLabels \cup WavLabels -> Weak]]
          /\ \A x \in DevLabels, y \in ConnLabels \cup WavLabels :
               After(rawListeners, {WavLabel(d)})[x][y] =
                 Fate(rawListeners[x][y], x, y, {WavLabel(d)})
      BY RawListenersAfter DEF IInv
    <3>2. /\ rawListeners' =
               [After(rawListeners, {WavLabel(d)}) EXCEPT ![d][WavLabel(d)] = "live"]
          /\ "live" \in Weak /\ WavLabel(d) \in ConnLabels \cup WavLabels
      BY <1>2, <2>1 DEF WithWriter, Weak
    <3> QED
      BY <3>1, <3>2
  <2>5. /\ \A x \in Labels : kind'[x] = IF x = WavLabel(d) THEN "writer" ELSE kind[x]
        /\ deferred_removes' = deferred_removes \cup PluginsOf(WavLabel(d))
        /\ doomed' = doomed \cup Mistaken(WavLabel(d))
                            \cup ({WavLabel(d)} \cap deferred_removes)
        /\ leftover' = Left({WavLabel(d)})
        /\ PlainOK' /\ MapsOK' /\ ReaderLives' /\ SourceAgrees'
        /\ LatestServed' /\ RemovalsMeant'
        /\ \A e \in DevLabels, p \in PluginLabels : plugins'[e][p] # "none" =>
             kind'[e] = "device" /\ (plugins'[e][p] = "live" => kind'[p] = "plugin")
        /\ \A p \in PluginLabels, c \in ConnLabels : outputListeners'[p][c] # "none" =>
             kind'[p] = "plugin" /\ (outputListeners'[p][c] = "live" => kind'[c] # "none")
    <3>1. "writer" \in {"device", "conn", "writer"}
      OBVIOUS
    <3> QED
      BY <1>1, <1>2, <2>1, <2>3, <2>4, <3>1, RegisterKeeps
  <2>6. PointersAgree'
    <3>1. \A e \in DevLabels, y \in ConnLabels \cup WavLabels : rawListeners'[e][y] # "none" =>
            /\ kind'[e] = "device"
            /\ rawListeners'[e][y] = "live" => kind'[y] \in {"conn", "writer"}
      BY <1>1, <1>2, <2>4, <2>5, LabelsApart DEF IInv, PointersAgree, Fate
    <3> QED
      BY <2>5, <3>1 DEF PointersAgree
  <2>7. ASSUME NEW e \in DevLabels
        PROVE  /\ kind'[e] = IF e = WavLabel(d) THEN "writer" ELSE kind[e]
               /\ kind'[WavLabel(e)] = IF e = d THEN "writer" ELSE kind[WavLabel(e)]
               /\ e = d => rawListeners'[e][WavLabel(e)] = "live"
               /\ e # d /\ e # WavLabel(d) =>
                    rawListeners'[e][WavLabel(e)] = rawListeners[e][WavLabel(e)]
    <3>1. /\ kind'[e] = IF e = WavLabel(d) THEN "writer" ELSE kind[e]
          /\ kind'[WavLabel(e)] = IF e = d THEN "writer" ELSE kind[WavLabel(e)]
      BY <1>2, <2>5
    <3>2. /\ e = d => rawListeners'[e][WavLabel(e)] = "live"
          /\ e # d => rawListeners'[e][WavLabel(e)] =
                        Fate(rawListeners[e][WavLabel(e)], e, WavLabel(e), {WavLabel(d)})
      BY <1>2, <2>4
    <3>3. e # d => WavLabel(e) # WavLabel(d)
      BY <1>2
    <3> QED
      BY <3>1, <3>2, <3>3 DEF Fate
  <2>8. WritersAgree'
    <3> SUFFICES ASSUME NEW e \in DevLabels
                 PROVE  /\ e \in leftover' => kind'[WavLabel(e)] = "writer"
                        /\ e \in recording' =>
                             kind'[e] = "device" /\ kind'[WavLabel(e)] = "writer"
                        /\ kind'[WavLabel(e)] = "writer" /\ e \notin leftover' =>
                             /\ kind'[e] = "device"
                             /\ \/ rawListeners'[e][WavLabel(e)] = "live"
                                \/ WavLabel(e) \in deferred_removes'
      BY DEF WritersAgree
    <3>1. /\ e \in leftover => kind[WavLabel(e)] = "writer"
          /\ e \in recording => kind[e] = "device" /\ kind[WavLabel(e)] = "writer"
          /\ kind[WavLabel(e)] = "writer" /\ e \notin leftover =>
               /\ kind[e] = "device"
               /\ rawListeners[e][WavLabel(e)] = "live" \/ WavLabel(e) \in deferred_removes
      BY DEF IInv, WritersAgree
    <3>2. /\ WavLabel(e) # WavLabel(d) <=> e # d
          /\ e \in leftover' <=>
               /\ WavLabel(e) # WavLabel(d)
               /\ \/ e \in leftover
                  \/ e = WavLabel(d) /\ kind[e] = "device" /\ kind[WavLabel(e)] = "writer"
          /\ e \in recording' <=>
               e = d \/ (e \in recording /\ e # WavLabel(d) /\ WavLabel(e) # WavLabel(d))
          /\ deferred_removes \subseteq deferred_removes'
      BY <1>2, <2>2, <2>5
    <3>3. CASE e = d
      BY <1>1, <1>2, <2>7, <3>2, <3>3
    <3>4. CASE e # d
      BY <2>7, <3>1, <3>2, <3>4
    <3> QED
      BY <3>3, <3>4
  <2>9. RawFileRecords'
    <3> SUFFICES ASSUME NEW e \in recording' \ leftover', WavLabel(e) \notin doomed'
                 PROVE  /\ rawListeners'[e][WavLabel(e)] = "live"
                        /\ WavLabel(e) \notin deferred_removes'
      BY DEF RawFileRecords
    <3>1. e \in DevLabels
      BY <2>3
    <3>2. kind[WavLabel(e)] # "plugin" => WavLabel(e) \notin PluginsOf(WavLabel(d))
      BY <1>2, <2>5, OthersMistaken
    <3>3. CASE e = d
      <4>1. WavLabel(d) \notin deferred_removes
        BY <2>5, <3>3
      <4>2. WavLabel(d) \notin PluginsOf(WavLabel(d))
        BY <1>2, <3>2, <3>3, KeysOfPlugins DEF IInv
      <4> QED
        BY <2>5, <2>7, <3>1, <3>3, <4>1, <4>2
    <3>4. CASE e # d
      <4>1. e \in recording /\ e # WavLabel(d) /\ e \notin leftover
        BY <1>2, <2>2, <2>5, <3>1, <3>4
      <4>2. WavLabel(e) \notin doomed
        BY <2>5
      <4>3. /\ rawListeners[e][WavLabel(e)] = "live" /\ WavLabel(e) \notin deferred_removes
            /\ kind[WavLabel(e)] = "writer"
        BY <3>1, <4>1, <4>2 DEF IInv, RawFileRecords, WritersAgree
      <4> QED
        BY <2>5, <2>7, <3>1, <3>2, <3>4, <4>1, <4>3
    <3> QED
      BY <3>3, <3>4
  <2> QED
    BY <2>5, <2>6, <2>8, <2>9 DEF IInv
<1> QED
  BY <1>3, <1>4

-----------------------------------------------------------------------------
\* The devices that go are those that are removed, and go with all they remove.
LEMMA FallingAre ==
  /\ Falling = Devices \cap Deferrals
  /\ \A d \in Falling : PluginsOf(d) \subseteq Deferrals
  /\ deferred_removes \subseteq Deferrals /\ Deferrals = deferred_removes \cup Orphans
<1>1. Deferrals = deferred_removes \cup Orphans
  BY DEF Deferrals, Deferring
<1>2. \A d \in Falling : PluginsOf(d) \subseteq Deferrals
  BY <1>1 DEF Orphans
<1>3. Falling \subseteq Devices /\ Devices \cap deferred_removes \subseteq Falling
  BY DEF Falling, Complete
<1>4. \A d \in Falling : Devices \cap PluginsOf(d) \subseteq Falling
  <2> SUFFICES ASSUME NEW d \in Falling, NEW e \in Devices \cap PluginsOf(d),
                      NEW ds \in SUBSET Devices, Complete(ds)
               PROVE  e \in ds
    BY DEF Falling
  <2>1. d \in ds
    BY DEF Falling
  <2> QED
    BY <2>1 DEF Complete
<1>5. Complete(Falling \cap Deferrals) /\ Falling \cap Deferrals \in SUBSET Devices
  BY <1>1, <1>2, <1>3, <1>4 DEF Complete
<1>6. Falling \subseteq Deferrals
  BY <1>5 DEF Falling
<1>7. Devices \cap Deferrals \subseteq Falling
  BY <1>1, <1>3, <1>4 DEF Orphans
<1> QED
  BY <1>1, <1>2, <1>3, <1>6, <1>7

LEMMA EndRoundKeeps ==
  ASSUME IInv, EndRound
  PROVE  IInv'
<1> DEFINE gone == {l \in Deferrals : kind[l] # "none"}
<1>1. /\ server = "running" /\ reader = NoLabel /\ UNCHANGED <<reader, server>>
      /\ UNCHANGED defaultOutputListener
      /\ Lose(gone) /\ rawListeners' = After(rawListeners, gone)
      /\ recording' = Recorded(gone)
      /\ deferred_removes' = {} /\ closed' = {} /\ doomed' = {} /\ regen_pollfds' = FALSE
  BY DEF EndRound, Turn, Destroy, Deferring
<1>2. /\ kind' \in [Labels -> {"none", "device", "plugin", "conn", "writer"}]
      /\ \A l \in Labels : kind'[l] = IF l \in gone THEN "none" ELSE kind[l]
  BY DEF EndRound, IInv, PlainOK
<1> HIDE DEF gone
<1>3. /\ plugins' \in [DevLabels -> [PluginLabels -> Weak]]
      /\ outputListeners' \in [PluginLabels -> [ConnLabels -> Weak]]
      /\ source' \in [PluginLabels -> [DevLabels -> Weak]]
      /\ \A x \in DevLabels, y \in PluginLabels :
           plugins'[x][y] = Fate(plugins[x][y], x, y, gone)
      /\ \A x \in PluginLabels, y \in ConnLabels :
           outputListeners'[x][y] = Fate(outputListeners[x][y], x, y, gone)
      /\ \A x \in PluginLabels, y \in DevLabels :
           source'[x][y] = Fate(source[x][y], x, y, gone)
      /\ latest' = (IF latest \in gone THEN NoLabel ELSE latest)
      /\ leftover' = Left(gone)
  BY <1>1, LoseTells DEF IInv
<1>4. /\ rawListeners' \in [DevLabels -> [ConnLabels \cup WavLabels -> Weak]]
      /\ \A x \in DevLabels, y \in ConnLabels \cup WavLabels :
           rawListeners'[x][y] = Fate(rawListeners[x][y], x, y, gone)
  BY <1>1, RawListenersAfter DEF IInv
<1>5. \A d \in DevLabels :
        /\ d \in leftover' <=>
             /\ WavLabel(d) \notin gone
             /\ \/ d \in leftover
                \/ d \in gone /\ kind[d] = "device" /\ kind[WavLabel(d)] = "writer"
        /\ d \in recording' <=> d \in recording /\ d \notin gone /\ WavLabel(d) \notin gone
        /\ d \in Labels /\ WavLabel(d) \in Labels /\ WavLabel(d) \in ConnLabels \cup WavLabels
  <2>1. \A d \in DevLabels :
          d \in Labels /\ WavLabel(d) \in Labels /\ WavLabel(d) \in ConnLabels \cup WavLabels
    BY LabelsApart
  <2> QED
    BY <1>1, <1>3, <2>1 DEF Left, Recorded
<1>6. PlainOK'
  <2>1. leftover' \subseteq DevLabels /\ recording' \subseteq DevLabels
    BY <1>1, <1>3 DEF Left, Recorded, IInv, PlainOK
  <2>2. latest' \in ConnLabels \cup {NoLabel}
    BY <1>3 DEF IInv, PlainOK
  <2>3. \A x \in Labels :
          /\ kind'[x] = "device" => x \in DevLabels
          /\ kind'[x] = "plugin" => x \in PluginLabels
          /\ kind'[x] = "conn" => x \in ConnLabels
          /\ kind'[x] = "writer" => x \in WavLabels
    BY <1>2 DEF IInv, PlainOK
  <2> QED
    BY <1>1, <1>2, <2>1, <2>2, <2>3 DEF IInv, PlainOK
<1>7. MapsOK'
  BY <1>3, <1>4, Zenon DEF MapsOK
<1>8. ReaderLives' /\ RemovalsMeant'
  BY <1>1 DEF ReaderLives, RemovalsMeant
<1>9. PointersAgree'
  <2>1. \A d \in DevLabels, p \in PluginLabels : plugins'[d][p] # "none" =>
          kind'[d] = "device" /\ (plugins'[d][p] = "live" => kind'[p] = "plugin")
    BY <1>2, <1>3, LabelsApart DEF IInv, PointersAgree, Fate
  <2>2. \A p \in PluginLabels, c \in ConnLabels : outputListeners'[p][c] # "none" =>
          kind'[p] = "plugin" /\ (outputListeners'[p][c] = "live" => kind'[c] # "none")
    BY <1>2, <1>3, LabelsApart DEF IInv, PointersAgree, Fate
  <2>3. \A d \in DevLabels, y \in ConnLabels \cup WavLabels : rawListeners'[d][y] # "none" =>
          kind'[d] = "device" /\ (rawListeners'[d][y] = "live" => kind'[y] \in {"conn", "writer"})
    BY <1>2, <1>4, LabelsApart DEF IInv, PointersAgree, Fate
  <2> QED
    BY <2>1, <2>2, <2>3 DEF PointersAgree
<1>10. SourceAgrees'
  <2> SUFFICES ASSUME NEW p \in PluginLabels
               PROVE  /\ kind'[p] # "plugin" => \A d \in DevLabels : source'[p][d] = "none"
                      /\ \A d \in DevLabels :
                           /\ source'[p][d] = "live" <=> plugins'[d][p] = "live"
                           /\ source'[p][d] # "expired"
                      /\ kind'[p] = "plugin" => \E d \in DevLabels : source'[p][d] # "none"
    BY DEF SourceAgrees
  <2>1. /\ p \in Labels
        /\ kind'[p] = IF p \in gone THEN "none" ELSE kind[p]
        /\ kind[p] # "plugin" => \A d \in DevLabels : source[p][d] = "none"
        /\ kind[p] = "plugin" => \E d \in DevLabels : source[p][d] # "none"
    BY <1>1, <1>2, LabelsApart DEF IInv, SourceAgrees
  <2>2. \A d \in DevLabels : source'[p][d] = Fate(source[p][d], p, d, gone)
    BY <1>3
  <2>3. kind'[p] # "plugin" => \A d \in DevLabels : source'[p][d] = "none"
    BY <2>1, <2>2 DEF Fate
  <2>4. kind'[p] = "plugin" => \E d \in DevLabels : source'[p][d] # "none"
    BY <2>1, <2>2 DEF Fate
  <2>5. ASSUME NEW d \in DevLabels
        PROVE  /\ source'[p][d] = "live" <=> plugins'[d][p] = "live"
               /\ source'[p][d] # "expired"
    <3>1. /\ source'[p][d] = Fate(source[p][d], p, d, gone)
          /\ plugins'[d][p] = Fate(plugins[d][p], d, p, gone)
      BY <1>3
    <3>2. /\ source[p][d] = "live" <=> plugins[d][p] = "live"
          /\ source[p][d] = "expired" => p \in deferred_removes
          /\ plugins[d][p] = "live" => kind[d] = "device" /\ kind[p] = "plugin"
          /\ source[p][d] # "none" => kind[p] = "plugin"
      BY DEF IInv, SourceAgrees, PointersAgree
    <3>3. source[p][d] = "expired" => p \in gone
      BY <3>2, FallingAre DEF gone
    <3>4. source[p][d] = "live" /\ d \in gone => p \in gone
      <4>1. source[p][d] = "live" /\ d \in gone => d \in Falling
        BY <3>2, FallingAre DEF gone, Devices
      <4>2. source[p][d] = "live" => p \in PluginsOf(d)
        BY <1>5, <3>2, KeysOfPlugins DEF IInv
      <4> QED
        BY <3>2, <4>1, <4>2, FallingAre DEF gone
    <3> QED
      BY <3>1, <3>2, <3>3, <3>4 DEF Fate
  <2> QED
    BY <2>3, <2>4, <2>5
<1>11. LatestServed'
  <2> SUFFICES ASSUME latest' # NoLabel
               PROVE  /\ kind'[latest'] = "conn" /\ defaultOutputListener' = latest'
                      /\ \A p \in PluginLabels :
                           kind'[p] = "plugin" => outputListeners'[p][latest'] = "live"
    BY DEF LatestServed
  <2>1. /\ latest' = latest /\ latest \notin gone /\ latest \in ConnLabels
        /\ kind[latest] = "conn" /\ defaultOutputListener = latest
        /\ \A p \in PluginLabels : kind[p] = "plugin" => outputListeners[p][latest] = "live"
    BY <1>1, <1>3 DEF IInv, LatestServed, PlainOK
  <2>2. kind'[latest] = "conn"
    BY <1>2, <2>1, LabelsApart
  <2>3. ASSUME NEW p \in PluginLabels, kind'[p] = "plugin"
        PROVE  outputListeners'[p][latest] = "live"
    <3>1. p \notin gone /\ kind[p] = "plugin"
      BY <1>2, <2>3, LabelsApart
    <3>2. outputListeners'[p][latest] = Fate(outputListeners[p][latest], p, latest, gone)
      BY <1>3, <2>1
    <3> QED
      BY <2>1, <3>1, <3>2 DEF Fate
  <2> QED
    BY <1>1, <2>1, <2>2, <2>3
<1>12. WritersAgree'
  <2> SUFFICES ASSUME NEW d \in DevLabels
               PROVE  /\ d \in leftover' => kind'[WavLabel(d)] = "writer"
                      /\ d \in recording' => kind'[d] = "device" /\ kind'[WavLabel(d)] = "writer"
                      /\ kind'[WavLabel(d)] = "writer" /\ d \notin leftover' =>
                           /\ kind'[d] = "device"
                           /\ rawListeners'[d][WavLabel(d)] = "live"
    BY DEF WritersAgree
  <2>1. /\ d \in leftover => kind[WavLabel(d)] = "writer"
        /\ d \in recording => kind[d] = "device" /\ kind[WavLabel(d)] = "writer"
        /\ kind[WavLabel(d)] = "writer" /\ d \notin leftover =>
             /\ kind[d] = "device"
             /\ rawListeners[d][WavLabel(d)] = "live" \/ WavLabel(d) \in deferred_removes
    BY DEF IInv, WritersAgree
  <2>2. /\ kind'[d] = IF d \in gone THEN "none" ELSE kind[d]
        /\ kind'[WavLabel(d)] = IF WavLabel(d) \in gone THEN "none" ELSE kind[WavLabel(d)]
        /\ rawListeners'[d][WavLabel(d)] =
             Fate(rawListeners[d][WavLabel(d)], d, WavLabel(d), gone)
    BY <1>2, <1>4, <1>5
  <2>3. kind[WavLabel(d)] = "writer" /\ WavLabel(d) \in deferred_removes => WavLabel(d) \in gone
    BY FallingAre DEF gone
  <2> QED
    BY <1>5, <2>1, <2>2, <2>3 DEF Fate
<1>13. RawFileRecords'
  BY <1>1, <1>6, <1>12 DEF RawFileRecords, WritersAgree, PlainOK
<1> QED
  BY <1>6, <1>7, <1>8, <1>9, <1>10, <1>11, <1>12, <1>13 DEF IInv

-----------------------------------------------------------------------------
\* At the start there is nothing.
LEMMA InitInv == Init => IInv
<1> SUFFICES ASSUME Init PROVE IInv
  OBVIOUS
<1>1. /\ \A l \in Labels : kind[l] = "none"
      /\ kind \in [Labels -> {"none", "device", "plugin", "conn", "writer"}]
  BY DEF Init
<1>2. /\ plugins \in [DevLabels -> [PluginLabels -> Weak]]
      /\ rawListeners \in [DevLabels -> [ConnLabels \cup WavLabels -> Weak]]
      /\ outputListeners \in [PluginLabels -> [ConnLabels -> Weak]]
      /\ source \in [PluginLabels -> [DevLabels -> Weak]]
  <2>1. /\ Empty(PluginLabels) \in [PluginLabels -> Weak]
        /\ Empty(ConnLabels \cup WavLabels) \in [ConnLabels \cup WavLabels -> Weak]
        /\ Empty(ConnLabels) \in [ConnLabels -> Weak]
        /\ Empty(DevLabels) \in [DevLabels -> Weak]
    BY DEF Empty, Weak
  <2> QED
    BY <2>1 DEF Init
<1>3. PlainOK
  BY <1>1 DEF Init, PlainOK
<1>4. MapsOK
  BY <1>2 DEF MapsOK
<1>5. PointersAgree /\ SourceAgrees
  BY <1>1, LabelsApart DEF Init, Empty, PointersAgree, SourceAgrees
<1>6. ReaderLives /\ LatestServed /\ RemovalsMeant /\ RawFileRecords
  BY DEF Init, ReaderLives, LatestServed, RemovalsMeant, RawFileRecords
<1>7. WritersAgree
  BY <1>1, LabelsApart DEF Init, WritersAgree
<1> QED
  BY <1>3, <1>4, <1>5, <1>6, <1>7 DEF IInv

LEMMA StutterKeeps ==
  ASSUME IInv, UNCHANGED vars
  PROVE  IInv'
<1>1. UNCHANGED <<kind, deferred_removes, regen_pollfds, reader, plugins, rawListeners,
                  outputListeners, source, defaultOutputListener, server, closed, latest,
                  recording, leftover, doomed>>
  BY DEF vars, rounds, graph, notes
<1>2. PlainOK' /\ ReaderLives' /\ LatestServed' /\ RemovalsMeant'
  BY <1>1 DEF IInv, PlainOK, ReaderLives, LatestServed, RemovalsMeant
<1>3. MapsOK'
  BY <1>1 DEF IInv, MapsOK
<1>4. PointersAgree' /\ SourceAgrees'
  BY <1>1 DEF IInv, PointersAgree, SourceAgrees
<1>5. WritersAgree' /\ RawFileRecords'
  BY <1>1 DEF IInv, WritersAgree, RawFileRecords
<1> QED
  BY <1>2, <1>3, <1>4, <1>5 DEF IInv

LEMMA NextInv ==
  ASSUME IInv, [Next]_vars
  PROVE  IInv'
<1>1. CASE UNCHANGED vars
  BY <1>1, StutterKeeps
<1>2. ASSUME NEW c \in ConnLabels, Accept(c) \/ HangUp(c) \/ BeginRead(c) PROVE IInv'
  BY <1>2, AcceptKeeps, HangUpKeeps, RestKeeps
<1>3. CASE EndRead \/ StartStop \/ Inquire \/ Quit \/ (\E p \in PluginLabels : Param(p))
  BY <1>3, RestKeeps
<1>4. CASE EndRound
  BY <1>4, EndRoundKeeps
<1>5. CASE DeviceCommand
  BY <1>5, OpenKeeps, CloseKeeps, RawStreamKeeps, RawFileKeeps, RawFileOffKeeps, AttachKeeps
     DEF DeviceCommand
<1>6. CASE \E l \in Labels : Detach(l)
  BY <1>6, DetachKeeps
<1>7. CASE ReceiveAll \/ \E p \in PluginLabels : Receive(p)
  BY <1>7, ReceiveKeeps, ReceiveAllKeeps
<1>8. CASE \E d \in DevLabels : Deliver(d)
  BY <1>8, DeliverKeeps
<1> QED
  BY <1>1, <1>2, <1>3, <1>4, <1>5, <1>6, <1>7, <1>8 DEF Next

LEMMA Invariance == Spec => []IInv
<1>1. IInv /\ [Next]_vars => IInv'
  BY NextInv
<1> QED
  BY InitInv, <1>1, PTL DEF Spec

\* The variables stay in their domains.
THEOREM TypesHold == Spec => []TypeOK
<1>1. IInv => TypeOK
  BY DEF IInv, TypeOK
<1> QED
  BY <1>1, Invariance, PTL

-----------------------------------------------------------------------------
(***************************************************************************)
(* Whatever any number of clients do, with labels in any use, every plugin *)
(* is fed by the device it was attached to, or goes at the end of the      *)
(* round because that device is gone.                                      *)
(***************************************************************************)
THEOREM PluginsStayAttached == Spec => []PluginsAttached
<1>1. IInv => PluginsAttached
  <2> SUFFICES ASSUME IInv PROVE PluginsAttached
    OBVIOUS
  <2>1. \A p \in PluginLabels, d \in DevLabels : source[p][d] \in {"none", "live", "expired"}
    BY DEF IInv, MapsOK, Weak
  <2> QED
    BY <2>1 DEF IInv, PluginsAttached, SourceAgrees
<1> QED
  BY <1>1, Invariance, PTL

(***************************************************************************)
(* After receiveAll a connection gets the output of every plugin, attached *)
(* before or after, until another connection says receiveAll.              *)
(***************************************************************************)
THEOREM ReceiveAllHeeded == Spec => []ReceiveAllServed
<1>1. IInv => ReceiveAllServed
  BY DEF IInv, ReceiveAllServed, LatestServed
<1> QED
  BY <1>1, Invariance, PTL

(***************************************************************************)
(* rawFile gives the device a writer that stays and gets its data, unless  *)
(* the writer is left from an earlier device or its label was down for     *)
(* removal when rawFile came.                                              *)
(***************************************************************************)
THEOREM WritersStay == Spec => []RawFileRecords
<1>1. IInv => RawFileRecords
  BY DEF IInv
<1> QED
  BY <1>1, Invariance, PTL

(***************************************************************************)
(* The end of a round takes away only devices that have been closed,       *)
(* connections whose peer has gone and plugins that lose their device,     *)
(* however many connections had commands executed in the round, unless     *)
(* labels have changed hands.                                              *)
(***************************************************************************)
THEOREM OnlyClosedGoes == Spec => []RoundRemoves
<1>1. IInv => RoundRemoves
  <2> SUFFICES ASSUME IInv, NEW l \in Deferrals \ Doomed
               PROVE  /\ kind[l] \in {"device", "conn"} => l \in closed
                      /\ kind[l] = "plugin" =>
                           \E d \in DevLabels :
                             \/ source[l][d] = "expired"
                             \/ source[l][d] = "live" /\ d \in Falling
    BY DEF RoundRemoves
  <2>1. CASE l \in deferred_removes
    <3>1. l \in deferred_removes \ doomed
      BY <2>1 DEF Doomed
    <3> QED
      BY <3>1 DEF IInv, RemovalsMeant
  <2>2. CASE l \notin deferred_removes
    <3>1. PICK d \in Falling : l \in PluginsOf(d)
      BY <2>2, FallingAre DEF Orphans
    <3>2. l \notin Mistaken(d) /\ d \in Labels
      BY <3>1, LabelsApart DEF Doomed, Falling, Devices
    <3>3. d \in DevLabels /\ kind[l] = "plugin" /\ source[l][d] = "live"
      BY <3>1, <3>2, RightlyRemoved
    <3> QED
      BY <3>1, <3>3
  <2> QED
    BY <2>1, <2>2
<1> QED
  BY <1>1, Invariance, PTL

(***************************************************************************)
(* The round in which a device is closed is the last one of its plugins.   *)
(***************************************************************************)
THEOREM PluginsGoWithDevice == Spec => CloseCompletes
<1>1. IInv /\ [Next]_vars =>
        [EndRound => \A d \in closed \cap DevLabels, p \in PluginLabels :
           kind[p] = "plugin" /\ source[p][d] # "none" => kind'[p] = "none"]_vars
  <2> SUFFICES ASSUME IInv, EndRound, NEW d \in closed \cap DevLabels, NEW p \in PluginLabels,
                      kind[p] = "plugin", source[p][d] # "none"
               PROVE  kind'[p] = "none"
    OBVIOUS
  <2>1. d \in DevLabels /\ d \in Labels /\ d \in deferred_removes
    BY LabelsApart DEF IInv, RemovalsMeant
  <2>2. source[p][d] \in {"live", "expired"}
    BY <2>1 DEF IInv, MapsOK, Weak
  <2>3. p \in Deferrals
    <3>1. CASE source[p][d] = "expired"
      BY <2>1, <3>1, FallingAre DEF IInv, SourceAgrees
    <3>2. CASE source[p][d] = "live"
      <4>1. plugins[d][p] = "live" /\ kind[d] = "device"
        BY <2>1, <3>2 DEF IInv, SourceAgrees, PointersAgree
      <4>2. p \in PluginsOf(d)
        BY <2>1, <4>1, KeysOfPlugins DEF IInv
      <4>3. d \in Falling
        BY <2>1, <4>1, FallingAre DEF Devices
      <4> QED
        BY <4>2, <4>3, FallingAre
    <3> QED
      BY <2>2, <3>1, <3>2
  <2> QED
    BY <2>3, LabelsApart DEF EndRound
<1> QED
  BY <1>1, Invariance, PTL DEF Spec, CloseCompletes

-----------------------------------------------------------------------------
\* A step that changes nothing a client has asked for.
LEMMA QuietStep ==
  ASSUME UNCHANGED <<kind, defaultOutputListener>>, Regular, Regular',
         \A c \in ConnLabels, p \in PluginLabels :
           outputListeners'[p][c] = "live" <=> outputListeners[p][c] = "live"
  PROVE  UNCHANGED <<Connected, Running, Wanted, defaultOutputListener>>
BY DEF Connected, Running, Wanted

\* Who is there, and what is asked for.
LEMMA Promised ==
  ASSUME IInv, Regular
  PROVE  /\ \A c \in ConnLabels : c \in Connected <=> kind[c] = "conn"
         /\ \A p \in PluginLabels : p \in Running <=> kind[p] = "plugin"
         /\ \A c \in ConnLabels, p \in PluginLabels :
              /\ <<c, p>> \in Wanted <=> kind[c] = "conn" /\ outputListeners[p][c] = "live"
              /\ <<c, p>> \in Wanted => kind[p] = "plugin"
         /\ Connected \subseteq ConnLabels /\ Running \subseteq PluginLabels
         /\ Wanted \subseteq ConnLabels \X PluginLabels
<1>1. /\ \A c \in ConnLabels : c \in Connected <=> kind[c] = "conn"
      /\ \A p \in PluginLabels : p \in Running <=> kind[p] = "plugin"
      /\ Connected \subseteq ConnLabels /\ Running \subseteq PluginLabels
  BY DEF Connected, Running
<1>2. \A c \in ConnLabels, p \in PluginLabels :
        <<c, p>> \in Wanted <=> kind[c] = "conn" /\ outputListeners[p][c] = "live"
  BY DEF Wanted
<1>3. \A c \in ConnLabels, p \in PluginLabels :
        outputListeners[p][c] = "live" => kind[p] = "plugin"
  BY DEF IInv, PointersAgree
<1>4. Wanted \subseteq ConnLabels \X PluginLabels
  BY DEF Wanted
<1> QED
  BY <1>1, <1>2, <1>3, <1>4

LEMMA ServerUp ==
  ASSUME Next
  PROVE  server = "running"
BY DEF Next, DeviceCommand, Accept, HangUp, BeginRead, EndRead, EndRound, Open, Close, Attach,
       Detach, Receive, ReceiveAll, RawStream, RawFile, RawFileOff, StartStop, Inquire, Param,
       Quit, Deliver, Turn, Command

\* A connection comes, if need be in place of a plugin.
LEMMA AcceptPromised ==
  ASSUME IInv, IInv', Regular, Regular', NEW c \in ConnLabels, Accept(c)
  PROVE  Promise!Connect(c)
<1>1. /\ kind[c] # "conn" /\ UNCHANGED defaultOutputListener
      /\ \A l \in ConnLabels \cup PluginLabels : kind'[l] = IF l = c THEN "conn" ELSE kind[l]
  BY LabelsApart DEF Accept, Turn, Register, IInv, PlainOK
<1>2. \A p \in PluginLabels, b \in ConnLabels :
        outputListeners'[p][b] = Fate(outputListeners[p][b], p, b, {c})
  BY LoseTells DEF Accept, Destroy, IInv
<1>3. Connected' = Connected \cup {c} /\ Running' = Running \ {c}
  BY <1>1 DEF Connected, Running
<1>4. Wanted' = {r \in Wanted : r[2] # c}
  <2>1. \A b \in ConnLabels, p \in PluginLabels :
          <<b, p>> \in Wanted' <=> <<b, p>> \in Wanted /\ p # c
    <3>1. \A b \in ConnLabels, p \in PluginLabels :
            /\ <<b, p>> \in Wanted <=> kind[b] = "conn" /\ outputListeners[p][b] = "live"
            /\ <<b, p>> \in Wanted' <=> kind'[b] = "conn" /\ outputListeners'[p][b] = "live"
      BY Promised DEF Wanted
    <3>2. \A b \in ConnLabels, p \in PluginLabels :
            outputListeners'[p][b] = "live" <=>
              outputListeners[p][b] = "live" /\ p # c /\ b # c
      BY <1>2 DEF Fate
    <3>3. \A b \in ConnLabels : b # c => kind'[b] = kind[b]
      BY <1>1
    <3> SUFFICES ASSUME NEW b \in ConnLabels, NEW p \in PluginLabels
                 PROVE  <<b, p>> \in Wanted' <=> <<b, p>> \in Wanted /\ p # c
      OBVIOUS
    <3>4. CASE b = c
      <4>1. <<b, p>> \notin Wanted
        BY <1>1, <3>1, <3>4
      <4>2. <<b, p>> \notin Wanted'
        BY <3>1, <3>2, <3>4
      <4> QED
        BY <4>1, <4>2
    <3>5. CASE b # c
      <4>1. kind'[b] = kind[b]
        BY <3>3, <3>5
      <4>2. outputListeners'[p][b] = "live" <=> outputListeners[p][b] = "live" /\ p # c
        BY <3>2, <3>5
      <4> QED
        BY <3>1, <4>1, <4>2
    <3> QED
      BY <3>4, <3>5
  <2>2. Wanted \subseteq ConnLabels \X PluginLabels /\ Wanted' \subseteq ConnLabels \X PluginLabels
    BY DEF Wanted
  <2>3. {r \in Wanted : r[2] # c} \subseteq ConnLabels \X PluginLabels
    BY <2>2
  <2>4. \A b \in ConnLabels, p \in PluginLabels :
          <<b, p>> \in {r \in Wanted : r[2] # c} <=> <<b, p>> \in Wanted /\ p # c
    OBVIOUS
  <2> QED
    BY <2>1, <2>2, <2>3, <2>4
<1>5. c \notin Connected
  BY <1>1 DEF Connected
<1> QED
  BY <1>1, <1>3, <1>4, <1>5 DEF Promise!Connect

\* The objects in gone are destroyed, and what is in their place is neither a
\* connection nor a plugin.
LEMMA GonePromised ==
  ASSUME IInv, IInv', Regular, Regular', NEW gone,
         \A l \in ConnLabels \cup PluginLabels :
           IF l \in gone THEN kind'[l] \notin {"conn", "plugin"} ELSE kind'[l] = kind[l],
         Lose(gone),
         UNCHANGED defaultOutputListener
  PROVE  Promise!Next
<1> DEFINE cs == ConnLabels \cap gone
           ps == PluginLabels \cap gone
<1>1. Connected' = Connected \ cs /\ Running' = Running \ ps
  BY DEF Connected, Running
<1>2. \A p \in PluginLabels, c \in ConnLabels :
        outputListeners'[p][c] = "live" <=>
          outputListeners[p][c] = "live" /\ p \notin gone /\ c \notin gone
  <2>1. \A p \in PluginLabels, c \in ConnLabels :
          outputListeners'[p][c] = Fate(outputListeners[p][c], p, c, gone)
    BY LoseTells DEF IInv
  <2> QED
    BY <2>1 DEF Fate
<1>3. Wanted' = Wanted \cap (Connected' \X Running')
  <2>1. \A c \in ConnLabels, p \in PluginLabels :
          <<c, p>> \in Wanted' <=> <<c, p>> \in Wanted /\ c \in Connected' /\ p \in Running'
    <3>1. \A c \in ConnLabels, p \in PluginLabels :
            /\ <<c, p>> \in Wanted <=> kind[c] = "conn" /\ outputListeners[p][c] = "live"
            /\ <<c, p>> \in Wanted => c \in Connected /\ p \in Running
            /\ <<c, p>> \in Wanted' <=> kind'[c] = "conn" /\ outputListeners'[p][c] = "live"
      BY Promised DEF Wanted
    <3>2. \A c \in ConnLabels : kind'[c] = "conn" <=> c \in Connected'
      BY DEF Connected
    <3>3. /\ \A c \in ConnLabels : c \in Connected' <=> c \in Connected /\ c \notin gone
          /\ \A p \in PluginLabels : p \in Running' <=> p \in Running /\ p \notin gone
      BY <1>1
    <3>4. \A c \in ConnLabels : kind[c] = "conn" <=> c \in Connected
      BY DEF Connected
    <3> QED
      BY <1>2, <3>1, <3>2, <3>3, <3>4, Zenon
  <2>2. Wanted \subseteq ConnLabels \X PluginLabels /\ Wanted' \subseteq ConnLabels \X PluginLabels
    BY DEF Wanted
  <2> QED
    BY <2>1, <2>2
<1>4. Promise!Go(cs, ps)
  BY <1>1, <1>3 DEF Promise!Go
<1> QED
  BY <1>4 DEF Promise!Next

\* Undefined behaviour ends what is promised.
LEMMA AllGone ==
  ASSUME IInv, Regular, ~Regular', Next
  PROVE  Promise!Next
<1>1. Connected' = {} /\ Running' = {} /\ Wanted' = {}
  BY DEF Connected, Running, Wanted
<1>2. UNCHANGED defaultOutputListener
  BY DEF Regular, Next, DeviceCommand, Accept, HangUp, BeginRead, EndRead, EndRound, Open, Close,
         Attach, Detach, Receive, ReceiveAll, RawStream, RawFile, RawFileOff, StartStop, Inquire,
         Param, Quit, Deliver, Turn, Command
<1>3. Promise!Go(ConnLabels, PluginLabels)
  <2>1. Connected \subseteq ConnLabels /\ Running \subseteq PluginLabels
    BY DEF Connected, Running
  <2> QED
    BY <1>1, <1>2, <2>1 DEF Promise!Go
<1> QED
  BY <1>3 DEF Promise!Next

LEMMA AttachPromised ==
  ASSUME IInv, IInv', Regular, Regular', NEW d \in DevLabels, NEW p \in PluginLabels,
         Attach(d, p)
  PROVE  Promise!Start(p)
<1>1. /\ kind[p] = "none"
      /\ \A l \in ConnLabels \cup PluginLabels :
           kind'[l] = IF l = p THEN "plugin" ELSE kind[l]
  BY LabelsApart DEF Attach, Register, IInv, PlainOK
<1>2. /\ outputListeners' =
           [outputListeners EXCEPT ![p] =
              [c \in ConnLabels |-> IF c \in DefaultListeners(p) THEN "live" ELSE "none"]]
      /\ defaultOutputListener' =
           IF DefaultListeners(p) = {} THEN NoLabel ELSE defaultOutputListener
  BY DEF Attach, Command, Regular
<1>3. /\ \A c \in ConnLabels : c \in DefaultListeners(p) <=>
           c = defaultOutputListener /\ (kind[c] # "none" \/ c = p)
      /\ defaultOutputListener \in ConnLabels \cup {NoLabel}
  BY DEF DefaultListeners, IInv, PlainOK
<1>4. Running' = Running \cup {p} /\ UNCHANGED Connected /\ p \notin Running
  BY <1>1 DEF Connected, Running
<1>5. Wanted' = Wanted \cup {<<c, p>> : c \in Connected \cap {defaultOutputListener}}
  <2>1. outputListeners \in [PluginLabels -> [ConnLabels -> Weak]]
    BY DEF IInv, MapsOK
  <2>2. \A c \in ConnLabels, q \in PluginLabels :
          <<c, q>> \in Wanted' <=>
            <<c, q>> \in Wanted \/ (q = p /\ c \in Connected \cap {defaultOutputListener})
    <3>1. \A c \in ConnLabels : <<c, p>> \notin Wanted
      BY <1>1, Promised
    <3>2. \A c \in ConnLabels, q \in PluginLabels :
            /\ <<c, q>> \in Wanted <=> kind[c] = "conn" /\ outputListeners[q][c] = "live"
            /\ <<c, q>> \in Wanted' <=> kind'[c] = "conn" /\ outputListeners'[q][c] = "live"
            /\ c \in Connected <=> kind[c] = "conn"
      BY DEF Wanted, Connected
    <3>3. \A c \in ConnLabels, q \in PluginLabels :
            outputListeners'[q][c] =
              IF q = p THEN IF c \in DefaultListeners(p) THEN "live" ELSE "none"
              ELSE outputListeners[q][c]
      BY <1>2, <2>1
    <3>4. \A c \in ConnLabels : kind'[c] = "conn" <=> kind[c] = "conn"
      BY <1>1
    <3>5. ASSUME NEW c \in ConnLabels
          PROVE  <<c, p>> \in Wanted' <=> c \in Connected \cap {defaultOutputListener}
      <4>1. outputListeners'[p][c] = "live" <=> c \in DefaultListeners(p)
        BY <3>3
      <4> QED
        BY <1>3, <3>2, <3>4, <4>1
    <3>6. ASSUME NEW c \in ConnLabels, NEW q \in PluginLabels, q # p
          PROVE  <<c, q>> \in Wanted' <=> <<c, q>> \in Wanted
      BY <3>2, <3>3, <3>4, <3>6
    <3> QED
      BY <3>1, <3>5, <3>6
  <2>3. Wanted \subseteq ConnLabels \X PluginLabels /\ Wanted' \subseteq ConnLabels \X PluginLabels
    BY DEF Wanted
  <2>4. Connected \subseteq ConnLabels
    BY DEF Connected
  <2> QED
    BY <2>2, <2>3, <2>4
<1>6. defaultOutputListener' \in
        {defaultOutputListener} \cup {e \in {NoLabel} : defaultOutputListener \notin Connected}
  <2>1. DefaultListeners(p) = {} => defaultOutputListener \notin Connected
    BY <1>3 DEF Connected
  <2> QED
    BY <1>2, <2>1
<1> QED
  BY <1>4, <1>5, <1>6 DEF Promise!Start

LEMMA ReceivePromised ==
  ASSUME IInv, IInv', Regular, Regular', NEW p \in PluginLabels, Receive(p)
  PROVE  Promise!Receive(reader, p)
<1>1. /\ reader \in ConnLabels /\ kind[reader] = "conn" /\ kind[p] = "plugin"
      /\ UNCHANGED <<kind, defaultOutputListener>>
      /\ outputListeners' = [outputListeners EXCEPT ![p][reader] = "live"]
  BY DEF Receive, DefaultAfterReceive, Command, IInv, PlainOK, ReaderLives
<1>2. /\ UNCHANGED <<Connected, Running>>
      /\ reader \in Connected /\ p \in Running
  BY <1>1 DEF Connected, Running
<1>3. Wanted' = Wanted \cup {<<reader, p>>}
  <2>1. outputListeners \in [PluginLabels -> [ConnLabels -> Weak]]
    BY DEF IInv, MapsOK
  <2>2. \A c \in ConnLabels, q \in PluginLabels :
          <<c, q>> \in Wanted' <=> <<c, q>> \in Wanted \/ (c = reader /\ q = p)
    <3>1. \A c \in ConnLabels, q \in PluginLabels :
            /\ <<c, q>> \in Wanted <=> kind[c] = "conn" /\ outputListeners[q][c] = "live"
            /\ <<c, q>> \in Wanted' <=> kind'[c] = "conn" /\ outputListeners'[q][c] = "live"
      BY DEF Wanted
    <3> QED
      BY <1>1, <2>1, <3>1
  <2>3. Wanted \subseteq ConnLabels \X PluginLabels /\ Wanted' \subseteq ConnLabels \X PluginLabels
    BY DEF Wanted
  <2> QED
    BY <1>1, <2>2, <2>3
<1> QED
  BY <1>1, <1>2, <1>3 DEF Promise!Receive

LEMMA ReceiveAllPromised ==
  ASSUME IInv, IInv', Regular, Regular', ReceiveAll
  PROVE  Promise!ReceiveAll(reader)
<1>1. /\ reader \in ConnLabels /\ kind[reader] = "conn"
      /\ UNCHANGED kind /\ defaultOutputListener' = reader
      /\ outputListeners' =
           [p \in PluginLabels |->
              IF kind[p] = "plugin" THEN [outputListeners[p] EXCEPT ![reader] = "live"]
              ELSE outputListeners[p]]
  BY DEF ReceiveAll, Command, IInv, PlainOK, ReaderLives
<1>2. UNCHANGED <<Connected, Running>> /\ reader \in Connected
  BY <1>1 DEF Connected, Running
<1>3. Wanted' = Wanted \cup ({reader} \X Running)
  <2>1. outputListeners \in [PluginLabels -> [ConnLabels -> Weak]]
    BY DEF IInv, MapsOK
  <2>2. \A c \in ConnLabels, q \in PluginLabels :
          <<c, q>> \in Wanted' <=> <<c, q>> \in Wanted \/ (c = reader /\ q \in Running)
    <3>1. \A c \in ConnLabels, q \in PluginLabels :
            /\ <<c, q>> \in Wanted <=> kind[c] = "conn" /\ outputListeners[q][c] = "live"
            /\ <<c, q>> \in Wanted' <=> kind'[c] = "conn" /\ outputListeners'[q][c] = "live"
      BY DEF Wanted
    <3>2. \A q \in PluginLabels : q \in Running <=> kind[q] = "plugin"
      BY DEF Running
    <3> QED
      BY <1>1, <2>1, <3>1, <3>2
  <2>3. Wanted \subseteq ConnLabels \X PluginLabels /\ Wanted' \subseteq ConnLabels \X PluginLabels
    BY DEF Wanted
  <2>4. Running \subseteq PluginLabels
    BY DEF Running
  <2> QED
    BY <1>1, <2>2, <2>3, <2>4
<1> QED
  BY <1>1, <1>2, <1>3 DEF Promise!ReceiveAll

\* The steps that change nothing a client has asked for.
LEMMA RestQuiet ==
  ASSUME IInv, Regular, Regular',
         \/ \E c \in ConnLabels : HangUp(c) \/ BeginRead(c)
         \/ EndRead \/ StartStop \/ Inquire \/ Quit
         \/ \E p \in PluginLabels : Param(p)
         \/ \E d \in DevLabels : Close(d) \/ RawStream(d) \/ RawFileOff(d)
  PROVE  UNCHANGED <<Connected, Running, Wanted, defaultOutputListener>>
<1>1. UNCHANGED <<kind, outputListeners, defaultOutputListener>>
  BY DEF HangUp, BeginRead, EndRead, StartStop, Inquire, Quit, Param, Close, RawStream,
         RawFileOff, Turn, Command, graph
<1> QED
  BY <1>1, QuietStep

LEMMA DeliverQuiet ==
  ASSUME IInv, Regular, Regular', NEW d \in DevLabels, Deliver(d)
  PROVE  UNCHANGED <<Connected, Running, Wanted, defaultOutputListener>>
<1>1. UNCHANGED <<kind, defaultOutputListener>>
  BY DEF Deliver, Turn
<1>2. \A c \in ConnLabels, p \in PluginLabels :
        outputListeners'[p][c] = "live" <=> outputListeners[p][c] = "live"
  <2>1. PICK talking \in SUBSET PluginLabels :
          outputListeners' =
            [p \in PluginLabels |->
               IF p \in talking THEN Pruned(outputListeners, p)[p] ELSE outputListeners[p]]
    BY DEF Deliver
  <2>2. outputListeners \in [PluginLabels -> [ConnLabels -> Weak]]
    BY DEF IInv, MapsOK
  <2>3. \A c \in ConnLabels, p \in PluginLabels :
          Pruned(outputListeners, p)[p][c] = "live" <=> outputListeners[p][c] = "live"
    BY <2>2 DEF Pruned
  <2> QED
    BY <2>1, <2>3
<1> QED
  BY <1>1, <1>2, QuietStep

LEMMA RawFilePromised ==
  ASSUME IInv, IInv', Regular, Regular', NEW d \in DevLabels, RawFile(d)
  PROVE  Promise!Next \/ UNCHANGED <<Connected, Running, Wanted, defaultOutputListener>>
<1>1. UNCHANGED defaultOutputListener
  BY DEF RawFile
<1>2. CASE kind[WavLabel(d)] = "writer"
  <2>1. UNCHANGED <<kind, outputListeners>>
    BY <1>2 DEF RawFile, graph
  <2> QED
    BY <1>1, <2>1, QuietStep
<1>3. CASE kind[WavLabel(d)] # "writer"
  <2>1. Lose({WavLabel(d)}) /\ kind' = [kind EXCEPT ![WavLabel(d)] = "writer"]
    BY <1>3 DEF RawFile, Register
  <2>2. \A l \in ConnLabels \cup PluginLabels :
          IF l \in {WavLabel(d)} THEN kind'[l] \notin {"conn", "plugin"} ELSE kind'[l] = kind[l]
    BY <2>1, LabelsApart DEF IInv, PlainOK
  <2> QED
    BY <1>1, <2>1, <2>2, GonePromised
<1> QED
  BY <1>2, <1>3

LEMMA NextPromised ==
  ASSUME IInv, IInv', [Next]_vars
  PROVE  [Promise!Next]_Promise!vars
<1> SUFFICES ASSUME Next PROVE Promise!Next \/ UNCHANGED Promise!vars
  <2>1. CASE UNCHANGED vars
    BY <2>1 DEF vars, graph, Connected, Running, Wanted, Regular, Promise!vars
  <2> QED
    BY <2>1
<1>1. Regular
  BY ServerUp DEF Regular
<1>2. CASE ~Regular'
  BY <1>1, <1>2, AllGone
<1>3. CASE Regular'
  <2> USE <1>1, <1>3
  <2>1. ASSUME NEW c \in ConnLabels, Accept(c) PROVE Promise!Next
    BY <2>1, AcceptPromised DEF Promise!Next
  <2>2. CASE EndRound
    <3>1. /\ UNCHANGED defaultOutputListener
          /\ kind' = [l \in Labels |-> IF l \in Deferrals THEN "none" ELSE kind[l]]
          /\ Lose({l \in Deferrals : kind[l] # "none"})
      BY <2>2 DEF EndRound, Destroy, Turn
    <3>2. \A l \in ConnLabels \cup PluginLabels :
            IF l \in {k \in Deferrals : kind[k] # "none"}
            THEN kind'[l] \notin {"conn", "plugin"} ELSE kind'[l] = kind[l]
      BY <3>1, LabelsApart
    <3> QED
      BY <3>1, <3>2, GonePromised
  <2>3. ASSUME NEW l \in Labels, Detach(l) PROVE Promise!Next
    <3>1. /\ UNCHANGED defaultOutputListener
          /\ kind' = [kind EXCEPT ![l] = "none"] /\ Lose({l})
      BY <2>3 DEF Detach
    <3>2. \A k \in ConnLabels \cup PluginLabels :
            IF k \in {l} THEN kind'[k] \notin {"conn", "plugin"} ELSE kind'[k] = kind[k]
      BY <3>1, LabelsApart DEF IInv, PlainOK
    <3> QED
      BY <3>1, <3>2, GonePromised
  <2>4. ASSUME NEW d \in DevLabels, Open(d) PROVE Promise!Next
    <3>1. /\ UNCHANGED defaultOutputListener
          /\ kind' = [kind EXCEPT ![d] = "device"] /\ Lose({d})
      BY <2>4 DEF Open, Register, Destroy
    <3>2. \A k \in ConnLabels \cup PluginLabels :
            IF k \in {d} THEN kind'[k] \notin {"conn", "plugin"} ELSE kind'[k] = kind[k]
      BY <3>1, LabelsApart DEF IInv, PlainOK
    <3> QED
      BY <3>1, <3>2, GonePromised
  <2>5. ASSUME NEW d \in DevLabels, NEW p \in PluginLabels, Attach(d, p) PROVE Promise!Next
    BY <2>5, AttachPromised DEF Promise!Next
  <2>6. ASSUME NEW p \in PluginLabels, Receive(p) PROVE Promise!Next
    <3>1. reader \in ConnLabels
      BY <2>6 DEF Receive, Command, IInv, PlainOK
    <3> QED
      BY <2>6, <3>1, ReceivePromised DEF Promise!Next
  <2>7. CASE ReceiveAll
    <3>1. reader \in ConnLabels
      BY <2>7 DEF ReceiveAll, Command, IInv, PlainOK
    <3> QED
      BY <2>7, <3>1, ReceiveAllPromised DEF Promise!Next
  <2>8. ASSUME NEW d \in DevLabels, Deliver(d) PROVE UNCHANGED Promise!vars
    BY <2>8, DeliverQuiet DEF Promise!vars
  <2>9. ASSUME NEW d \in DevLabels, RawFile(d) PROVE Promise!Next \/ UNCHANGED Promise!vars
    BY <2>9, RawFilePromised DEF Promise!vars
  <2>10. ASSUME \/ \E c \in ConnLabels : HangUp(c) \/ BeginRead(c)
                \/ EndRead \/ StartStop \/ Inquire \/ Quit
                \/ \E p \in PluginLabels : Param(p)
                \/ \E d \in DevLabels : Close(d) \/ RawStream(d) \/ RawFileOff(d)
         PROVE  UNCHANGED Promise!vars
    BY <2>10, RestQuiet DEF Promise!vars
  <2> QED
    BY <2>1, <2>2, <2>3, <2>4, <2>5, <2>6, <2>7, <2>8, <2>9, <2>10 DEF Next, DeviceCommand
<1> QED
  BY <1>2, <1>3

(***************************************************************************)
(* The commands keep what receive and receiveAll promise, to any number of *)
(* clients that do anything: the output they have asked for, and no other. *)
(***************************************************************************)
THEOREM PromiseKept == Spec => ImplementsSubscriptions
<1>1. Init => Promise!Init
  BY LabelsApart DEF Init, Empty, Promise!Init, Connected, Running, Wanted, Regular, Labels
<1>2. IInv /\ IInv' /\ [Next]_vars => [Promise!Next]_Promise!vars
  BY NextPromised
<1> QED
  BY <1>1, <1>2, Invariance, PTL DEF Spec, Promise!Spec, ImplementsSubscriptions

-----------------------------------------------------------------------------
(***************************************************************************)
(* The end of the process (module Program), which deletes the host, for    *)
(* all signals and faults.                                                 *)
(*                                                                         *)
(* A helper of Program moves one thread, either to a place named by its    *)
(* caller, or to where it waits or spins for ever, or into terminate,      *)
(* which it enters only as long as terminating is not set.                 *)
(***************************************************************************)
Places ==
  {"options", "socket", "install", "construct", "listen", "poll", "handler",
   "allocating", "deferrals", "none", "making", "storing"} \cup Process!Leaving

AtOK == at \in [Process!Threads -> Places]

\* Until the thread for directories fails, main goes through terminate once.
OnceByMain ==
  /\ raised # {} => terminating \/ at["main"] = "set"
  /\ host = "deleted" => terminating
  /\ at["main"] = "set" => ~terminating
  /\ at["main"] = "delete" => terminating /\ host # "deleted"
  /\ "host" \notin misuse

EndInv == AtOK /\ (Process!ThreadEnds \/ OnceByMain)

\* Thread t moves, to one of ps if it is neither killed nor interrupted.
Moves(t, ps) ==
  /\ AtOK'
  /\ \A u \in Process!Threads \ {t} : at'[u] = at[u]
  /\ \/ at'[t] \in ps /\ raised' = raised
     \/ at'[t] = at[t] /\ raised' = raised
     \/ at'[t] = "set" /\ ~terminating

Stuck == {"spinning", "deadlocked"}

-----------------------------------------------------------------------------
\* The helpers move a thread.
LEMMA GoMoves ==
  ASSUME AtOK, NEW t \in Process!Threads, NEW p \in Places, Process!Go(t, p)
  PROVE  Moves(t, {p})
BY DEF Process!Go, Moves, AtOK

LEMMA ExitMoves ==
  ASSUME AtOK, NEW t \in Process!Threads, NEW code, Process!Exit(t, code)
  PROVE  Moves(t, {"exit"})
BY DEF Process!Exit, Moves, AtOK, Places, Process!Leaving

LEMMA KilledMoves ==
  ASSUME AtOK, NEW t \in Process!Threads, NEW s, Process!Killed(s)
  PROVE  Moves(t, {})
BY DEF Process!Killed, Moves, AtOK

LEMMA HandleMoves ==
  ASSUME AtOK, NEW t \in Process!Threads, NEW s, Process!Handle(t, s), ~terminating
  PROVE  Moves(t, {})
BY DEF Process!Handle, Moves, AtOK, Places, Process!Leaving

LEMMA FaultMoves ==
  ASSUME AtOK, NEW t \in Process!Threads, NEW s, Process!Fault(t, s)
  PROVE  Moves(t, Stuck)
<1>1. CASE Process!Killed(s)
  BY <1>1, KilledMoves DEF Moves
<1>2. CASE Process!Go(t, "spinning")
  BY <1>2, GoMoves DEF Moves, Stuck, Places, Process!Leaving
<1>3. CASE Process!Handle(t, s) /\ ~terminating
  BY <1>3, HandleMoves DEF Moves
<1> QED
  BY <1>1, <1>2, <1>3 DEF Process!Fault, Process!Ignored

LEMMA AbortMoves ==
  ASSUME AtOK, NEW t \in Process!Threads, Process!Abort(t)
  PROVE  Moves(t, {})
BY KilledMoves, HandleMoves DEF Process!Abort, Process!Ignored

LEMMA UndefinedMoves ==
  ASSUME AtOK, NEW t \in Process!Threads, NEW p \in Places, NEW what, Process!Undefined(t, p,
     what)
  PROVE  Moves(t, {p} \cup Stuck) /\ misuse' = misuse \cup {what}
<1>1. CASE Process!Go(t, p)
  BY <1>1, GoMoves DEF Moves, Process!Undefined
<1>2. CASE Process!Fault(t, "SEGV")
  BY <1>2, FaultMoves DEF Moves, Process!Undefined
<1>3. CASE Process!Abort(t)
  BY <1>3, AbortMoves DEF Moves, Process!Undefined
<1> QED
  BY <1>1, <1>2, <1>3 DEF Process!Undefined

LEMMA FreeMoves ==
  ASSUME AtOK, NEW t \in Process!Threads, NEW p \in Places, Process!Free(t, p)
  PROVE  Moves(t, {p} \cup Stuck)
<1>1. "deadlocked" \in Places
  BY DEF Places, Process!Leaving
<1>2. CASE Process!Go(t, p)
  BY <1>2, GoMoves DEF Moves
<1>3. CASE Process!Go(t, "deadlocked")
  BY <1>1, <1>3, GoMoves DEF Moves, Stuck
<1> QED
  BY <1>2, <1>3 DEF Process!Free

LEMMA RoundMoves ==
  ASSUME AtOK, NEW p \in Places, Process!Round(p)
  PROVE  Moves("main", {p} \cup Stuck) /\ misuse' \subseteq misuse \cup {"rounds"}
<1>0. "main" \in Process!Threads
  BY DEF Process!Threads
<1>1. CASE Process!Go("main", p) /\ UNCHANGED misuse
  BY <1>0, <1>1, GoMoves DEF Moves
<1>2. CASE Process!Undefined("main", p, "rounds")
  BY <1>0, <1>2, UndefinedMoves
<1> QED
  BY <1>1, <1>2 DEF Process!Round

-----------------------------------------------------------------------------
(***************************************************************************)
(* What is neither Set nor DeleteHost keeps the invariant, if a thread     *)
(* that is leaving goes on leaving and terminate begins with Set.          *)
(***************************************************************************)
LEMMA MovesKeep ==
  ASSUME EndInv, NEW t \in Process!Threads, NEW ps, Moves(t, ps),
         "set" \notin ps, "delete" \notin ps,
         t = "dirs" /\ at[t] \in Process!Leaving => ps \subseteq Process!Leaving,
         t = "main" /\ at[t] = "set" => ps = {},
         terminating' = terminating, host' = host,
         "host" \in misuse' => "host" \in misuse
  PROVE  EndInv'
<1>1. AtOK'
  BY DEF Moves
<1>2. ASSUME Process!ThreadEnds
      PROVE  Process!ThreadEnds'
  BY <1>2 DEF Process!ThreadEnds, Moves, Process!Threads, Process!Leaving
<1>3. ASSUME OnceByMain, ~Process!ThreadEnds'
      PROVE  OnceByMain'
  <2>1. at'["main"] = "set" => ~terminating
    BY <1>3 DEF OnceByMain, Moves, Process!Threads
  <2>2. at'["main"] = "delete" => at["main"] = "delete"
    BY DEF Moves, Process!Threads
  <2>3. at'["dirs"] # "set"
    BY <1>3 DEF Process!ThreadEnds, Process!Leaving
  <2>4. raised' # {} => terminating \/ at'["main"] = "set"
    <3>1. CASE t = "main"
      <4>1. CASE at'[t] \in ps /\ raised' = raised
        BY <1>3, <3>1, <4>1 DEF OnceByMain
      <4> QED
        BY <1>3, <3>1, <4>1 DEF OnceByMain, Moves
    <3>2. CASE t = "dirs"
      BY <1>3, <2>3, <3>2 DEF OnceByMain, Moves, Process!Threads
    <3> QED
      BY <3>1, <3>2 DEF Process!Threads
  <2> QED
    BY <1>3, <2>1, <2>2, <2>4 DEF OnceByMain
<1> QED
  BY <1>1, <1>2, <1>3 DEF EndInv

-----------------------------------------------------------------------------
\* The places named by the actions.
LEMMA PlacesNamed ==
  /\ {"options", "socket", "install", "construct", "listen", "poll", "handler", "allocating",
       "deferrals", "none", "making", "storing", "set", "delete", "exit", "elements",
       "spinning", "deadlocked"} \subseteq Places
  /\ Process!Leaving \subseteq Places
  /\ Stuck \subseteq Process!Leaving /\ "set" \notin Stuck /\ "delete" \notin Stuck
BY DEF Places, Process!Leaving, Stuck

LEMMA StartKeeps ==
  ASSUME EndInv, Process!Start
  PROVE  EndInv'
<1>0. AtOK /\ "main" \in Process!Threads
  BY DEF EndInv, Process!Threads
<1>1. CASE Process!Options
  <2>1. Moves("main", {"socket", "exit"})
    BY <1>0, <1>1, GoMoves, ExitMoves, PlacesNamed DEF Process!Options, Moves
  <2> QED
    BY <1>0, <1>1, <2>1, MovesKeep, PlacesNamed
       DEF Process!Options, Process!globals, Process!Running
<1>2. CASE Process!Socket
  <2>1. Moves("main", {"install", "exit"})
    BY <1>0, <1>2, GoMoves, ExitMoves, PlacesNamed DEF Process!Socket, Moves
  <2> QED
    BY <1>0, <1>2, <2>1, MovesKeep, PlacesNamed
       DEF Process!Socket, Process!globals, Process!Running
<1>3. CASE Process!Install
  <2>1. Moves("main", {"construct", "install"})
    BY <1>0, <1>3, GoMoves, PlacesNamed DEF Process!Install, Moves
  <2> QED
    BY <1>0, <1>3, <2>1, MovesKeep, PlacesNamed DEF Process!Install, Process!Running
<1>4. CASE Process!MakeHost
  <2>1. AtOK' /\ at'["main"] = "listen" /\ at'["dirs"] = at["dirs"] /\ raised' = raised
    BY <1>0, <1>4, GoMoves, PlacesNamed DEF Process!MakeHost, Process!Go, AtOK, Process!Threads
  <2> QED
    BY <1>4, <2>1 DEF EndInv, Process!MakeHost, OnceByMain, Process!ThreadEnds, Process!Running
<1>5. CASE Process!Listen
  <2>1. Moves("main", {"poll"})
    BY <1>0, <1>5, GoMoves, AbortMoves, PlacesNamed DEF Process!Listen, Moves
  <2> QED
    BY <1>0, <1>5, <2>1, MovesKeep, PlacesNamed
       DEF Process!Listen, Process!globals, Process!Running
<1> QED
  BY <1>1, <1>2, <1>3, <1>4, <1>5 DEF Process!Start

\* A round goes on, or is left.
LEMMA RoundKeeps ==
  ASSUME EndInv, NEW p \in {"handler", "allocating", "deferrals", "poll"}, Process!Round(p),
         at["main"] # "set", terminating' = terminating, host' = host
  PROVE  EndInv'
<1>1. AtOK /\ "main" \in Process!Threads
  BY DEF EndInv, Process!Threads
<1>2. Moves("main", {p} \cup Stuck) /\ misuse' \subseteq misuse \cup {"rounds"}
  BY <1>1, RoundMoves, PlacesNamed
<1> QED
  BY <1>1, <1>2, MovesKeep, PlacesNamed

LEMMA RoundsKeep ==
  ASSUME EndInv, Process!Rounds
  PROVE  EndInv'
<1>0. AtOK /\ "main" \in Process!Threads /\ "dirs" \in Process!Threads
  BY DEF EndInv, Process!Threads
<1>1. CASE Process!StartRound
  <2>1. CASE Process!Round("handler")
    BY <1>1, <2>1, RoundKeeps DEF Process!StartRound, Process!Running
  <2>2. CASE Process!Exit("main", "errno") /\ UNCHANGED misuse
    <3>1. Moves("main", {"exit"})
      BY <1>0, <2>2, ExitMoves
    <3> QED
      BY <1>0, <1>1, <2>2, <3>1, MovesKeep DEF Process!StartRound, Process!Running
  <2> QED
    BY <1>1, <2>1, <2>2 DEF Process!StartRound
<1>2. CASE Process!Turn
  BY <1>2, RoundKeeps DEF Process!Turn, Process!Running, Process!globals
<1>3. CASE Process!Command
  BY <1>3, RoundKeeps DEF Process!Command, Process!Running, Process!globals
<1>4. CASE Process!Fail
  <2>1. Moves("main", {"exit"} \cup Stuck)
    <3>1. CASE Process!Exit("main", "0")
      BY <1>0, <3>1, ExitMoves DEF Moves
    <3>2. CASE Process!Abort("main")
      BY <1>0, <3>2, AbortMoves DEF Moves
    <3>3. ASSUME NEW s \in Faults, Process!Fault("main", s)
          PROVE  Moves("main", {"exit"} \cup Stuck)
      BY <1>0, <3>3, FaultMoves DEF Moves
    <3>4. CASE Process!Killed("PIPE")
      BY <1>0, <3>4, KilledMoves DEF Moves
    <3> QED
      BY <1>4, <3>1, <3>2, <3>3, <3>4 DEF Process!Fail
  <2> QED
    BY <1>0, <1>4, <2>1, MovesKeep, PlacesNamed DEF Process!Fail, Process!Running, Process!globals
<1>5. CASE Process!EndRound
  BY <1>5, RoundKeeps DEF Process!EndRound, Process!Running
<1>6. CASE Process!StartThread
  <2>1. Moves("dirs", {"making"})
    BY <1>0, <1>6, GoMoves, PlacesNamed DEF Process!StartThread
  <2> QED
    BY <1>0, <1>6, <2>1, MovesKeep DEF Process!StartThread, Process!globals, Process!Leaving
<1> QED
  BY <1>1, <1>2, <1>3, <1>4, <1>5, <1>6 DEF Process!Rounds

LEMMA ThreadKeeps ==
  ASSUME EndInv, Process!Thread
  PROVE  EndInv'
<1>0. AtOK /\ "dirs" \in Process!Threads
  BY DEF EndInv, Process!Threads
<1>1. CASE Process!MakeDirs
  <2>1. Moves("dirs", {"storing"})
    BY <1>0, <1>1, GoMoves, AbortMoves, PlacesNamed DEF Process!MakeDirs, Moves
  <2> QED
    BY <1>0, <1>1, <2>1, MovesKeep DEF Process!MakeDirs, Process!globals, Process!Leaving,
       Process!Running
<1>2. CASE Process!Store
  <2>1. Moves("dirs", {"none"} \cup Stuck) /\ misuse' \subseteq misuse \cup {"thread"}
    <3>1. CASE Process!Go("dirs", "none") /\ UNCHANGED misuse
      BY <1>0, <3>1, GoMoves, PlacesNamed DEF Moves
    <3>2. CASE Process!Undefined("dirs", "none", "thread")
      BY <1>0, <3>2, UndefinedMoves, PlacesNamed
    <3> QED
      BY <1>2, <3>1, <3>2 DEF Process!Store
  <2> QED
    BY <1>0, <1>2, <2>1, MovesKeep, PlacesNamed
       DEF Process!Store, Process!globals, Process!Leaving, Process!Running
<1> QED
  BY <1>1, <1>2 DEF Process!Thread

LEMMA LeaveKeeps ==
  ASSUME EndInv, NEW t \in Process!Threads, Process!Leave(t)
  PROVE  EndInv'
<1>0. AtOK
  BY DEF EndInv
<1>1. CASE Process!Set(t)
  <2>1. Moves(t, {"delete"}) /\ at'[t] = "delete" /\ raised' = raised
    BY <1>0, <1>1, GoMoves, PlacesNamed DEF Process!Set, Process!Go, AtOK
  <2>2. Process!ThreadEnds => Process!ThreadEnds'
    BY <2>1 DEF Process!ThreadEnds, Moves, Process!Threads, Process!Leaving
  <2>3. ASSUME OnceByMain, ~Process!ThreadEnds'
        PROVE  OnceByMain'
    <3>1. t = "main"
      BY <2>1, <2>3 DEF Process!ThreadEnds, Process!Threads, Process!Leaving
    <3> QED
      BY <1>1, <2>1, <2>3, <3>1 DEF OnceByMain, Process!Set, Process!Running
  <2> QED
    BY <2>1, <2>2, <2>3 DEF EndInv, Moves
<1>2. CASE Process!DeleteHost(t)
  <2>1. Moves(t, {"exit"} \cup Stuck)
    BY <1>0, <1>2, UndefinedMoves, FreeMoves, PlacesNamed DEF Process!DeleteHost
  <2>2. Process!ThreadEnds => Process!ThreadEnds'
    BY <2>1, PlacesNamed DEF Process!ThreadEnds, Moves, Process!Threads, Process!Leaving
  <2>3. ASSUME OnceByMain, ~Process!ThreadEnds'
        PROVE  OnceByMain'
    <3>1. t = "main" /\ at["main"] = "delete"
      BY <1>2, <2>2, <2>3 DEF Process!ThreadEnds, Process!Threads, Process!Leaving,
         Process!DeleteHost, Process!Running
    <3>2. host # "deleted" /\ UNCHANGED <<misuse, terminating>> /\ Process!Free("main", "exit")
      BY <1>2, <2>3, <3>1 DEF OnceByMain, Process!DeleteHost
    <3>3. at'["main"] \in {"exit", "deadlocked"} /\ raised' = raised
      BY <1>0, <3>2 DEF Process!Free, Process!Go, AtOK, Process!Threads
    <3>4. terminating
      BY <2>3, <3>1 DEF OnceByMain
    <3> QED
      BY <2>3, <3>1, <3>2, <3>3, <3>4 DEF OnceByMain
  <2> QED
    BY <2>1, <2>2, <2>3 DEF EndInv, Moves
<1>3. CASE Process!DestroyStatic(t)
  <2>1. Moves(t, {"elements", "exit"} \cup Stuck)
    BY <1>0, <1>3, FreeMoves, PlacesNamed DEF Process!DestroyStatic, Moves
  <2> QED
    BY <1>3, <2>1, MovesKeep, PlacesNamed
       DEF Process!DestroyStatic, Process!globals, Process!Running, Process!Leaving
<1>4. CASE Process!Elements(t)
  <2>1. Moves(t, {"elements", "exit"} \cup Stuck)
    <3>1. CASE Process!Go(t, "exit")
      BY <1>0, <3>1, GoMoves, PlacesNamed DEF Moves
    <3>2. ASSUME NEW what, Process!Undefined(t, "elements", what)
          PROVE  Moves(t, {"elements", "exit"} \cup Stuck)
      BY <1>0, <3>2, UndefinedMoves, PlacesNamed DEF Moves
    <3>3. CASE Process!Free(t, "elements")
      BY <1>0, <3>3, FreeMoves, PlacesNamed DEF Moves
    <3> QED
      BY <1>4, <3>1, <3>2, <3>3 DEF Process!Elements
  <2>2. misuse' \subseteq misuse \cup {"dangling", "deferred_removes", "pollables"}
    BY <1>4 DEF Process!Elements, Process!Undefined
  <2> QED
    BY <1>4, <2>1, <2>2, MovesKeep, PlacesNamed
       DEF Process!Elements, Process!globals, Process!Running, Process!Leaving
<1>5. CASE Process!Finish(t)
  BY <1>5 DEF Process!Finish, EndInv, AtOK, OnceByMain, Process!ThreadEnds, Process!globals
<1> QED
  BY <1>1, <1>2, <1>3, <1>4, <1>5 DEF Process!Leave

LEMMA SignalKeeps ==
  ASSUME EndInv, NEW s \in Asked, Process!Signal(s)
  PROVE  EndInv'
<1>0. AtOK /\ "main" \in Process!Threads
  BY DEF EndInv, Process!Threads
<1>1. CASE Process!Killed(s) \/ (~terminating /\ Process!Handle("main", s))
  <2>1. Moves("main", {})
    BY <1>0, <1>1, KilledMoves, HandleMoves
  <2> QED
    BY <1>0, <2>1, MovesKeep DEF Process!Signal, Process!globals
<1>2. CASE terminating /\ raised' = raised \cup {s} /\ UNCHANGED at
  BY <1>2 DEF Process!Signal, EndInv, AtOK, OnceByMain, Process!ThreadEnds, Process!globals
<1> QED
  BY <1>1, <1>2 DEF Process!Signal, Process!Ignored

LEMMA EndInvariance == Process!Spec => []EndInv
<1>1. Process!Init => EndInv
  BY PlacesNamed DEF Process!Init, EndInv, AtOK, OnceByMain, Process!Threads
<1>2. EndInv /\ [Process!Next]_(Process!vars) => EndInv'
  <2> SUFFICES ASSUME EndInv, [Process!Next]_(Process!vars)
               PROVE  EndInv'
    OBVIOUS
  <2>1. CASE Process!Next
    BY <2>1, StartKeeps, RoundsKeep, ThreadKeeps, LeaveKeeps, SignalKeeps DEF Process!Next
  <2>2. CASE UNCHANGED Process!vars
    BY <2>2 DEF Process!vars, Process!thread, Process!globals, EndInv, AtOK, OnceByMain,
       Process!ThreadEnds
  <2> QED
    BY <2>1, <2>2
<1> QED
  BY <1>1, <1>2, PTL DEF Process!Spec

-----------------------------------------------------------------------------
(***************************************************************************)
(* terminate runs once, whatever interrupts it: host is deleted once, as   *)
(* long as the thread for directories has not failed.                      *)
(***************************************************************************)
THEOREM DeletedOnce == ProcessSpec => []HostDeletedOnce
<1>1. EndInv => HostDeletedOnce
  BY DEF EndInv, OnceByMain, HostDeletedOnce, Process!HostDeletedOnce
<1> QED
  BY <1>1, EndInvariance, PTL DEF ProcessSpec

(***************************************************************************)
(* After an accepted signal exit runs with terminating set, so that no     *)
(* destructor uses the map or the removals that are being destroyed.       *)
(***************************************************************************)
THEOREM SparedByExit == ProcessSpec => RegistrySpared
<1>1. ASSUME EndInv, [Process!Next]_(Process!vars), raised # {}, ~Process!ThreadEnds,
   Process!Destructor \cap misuse = {}
      PROVE  Process!Destructor \cap misuse' = {}
  <2>1. ASSUME NEW t \in Process!Threads, Process!Elements(t)
        PROVE  Process!Destructor \cap misuse' = {}
    <3>1. t = "main"
      BY <1>1, <2>1 DEF Process!Elements, Process!Running, Process!ThreadEnds, Process!Threads,
         Process!Leaving
    <3>2. terminating
      BY <1>1, <2>1, <3>1 DEF EndInv, OnceByMain, Process!Elements, Process!Running
    <3> QED
      BY <1>1, <2>1, <3>2 DEF Process!Elements, Process!Undefined, Process!Destructor
  <2>2. ASSUME NEW t \in Process!Threads, Process!Leave(t)
        PROVE  Process!Destructor \cap misuse' = {}
    BY <1>1, <2>1, <2>2 DEF Process!Leave, Process!Set, Process!DeleteHost,
       Process!DestroyStatic, Process!Finish, Process!Undefined, Process!Destructor
  <2>3. ASSUME NEW p, Process!Round(p)
        PROVE  Process!Destructor \cap misuse' = {}
    BY <1>1, <2>3 DEF Process!Round, Process!Undefined, Process!Destructor
  <2>4. CASE Process!Start
    BY <1>1, <2>4 DEF Process!Start, Process!Options, Process!Socket, Process!Install,
       Process!MakeHost, Process!Listen
  <2>5. CASE Process!Rounds
    BY <1>1, <2>3, <2>5 DEF Process!Rounds, Process!StartRound, Process!Turn, Process!Command,
       Process!Fail, Process!EndRound, Process!StartThread
  <2>6. CASE Process!Thread
    BY <1>1, <2>6 DEF Process!Thread, Process!MakeDirs, Process!Store, Process!Undefined,
       Process!Destructor
  <2>7. CASE \E s \in Asked : Process!Signal(s)
    BY <1>1, <2>7 DEF Process!Signal
  <2>8. CASE UNCHANGED Process!vars
    BY <1>1, <2>8 DEF Process!vars
  <2> QED
    BY <1>1, <2>2, <2>4, <2>5, <2>6, <2>7, <2>8 DEF Process!Next
<1> QED
  BY <1>1, EndInvariance, PTL DEF ProcessSpec, RegistrySpared, Process!Spec,
     Process!RegistrySpared
=============================================================================
