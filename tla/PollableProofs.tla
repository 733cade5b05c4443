--------------------------- MODULE PollableProofs ---------------------------
(***************************************************************************)
(* Proofs about the poll round and the registry, for every number of       *)
(* labels, connections, objects and pollfds.                               *)
(*                                                                         *)
(* The inductive invariant has three layers: Flow (where the thread is     *)
(* determines its flags), Registry (who is in the map and who is to be     *)
(* removed) and Slots (how allpollfds and the objects' indexes and events  *)
(* correspond).  Each layer is inductive relative to the ones before it.   *)
(***************************************************************************)
EXTENDS Pollable, SequenceTheorems, TLAPS

(***************************************************************************)
(* Layer 1.  Inside a round doing_poll is set; outside doDeferrals no      *)
(* destructor has anything left to do; a handler runs for a registered     *)
(* label; removals are flagged; poll(2) is called with a fresh vector.     *)
(***************************************************************************)
Flow ==
  /\ pc \in {"regen", "sys", "dispatch", "handler", "end"} => doing_poll
  /\ pc \in {"top", "deferrals"} => ~doing_poll
  /\ pc # "deferrals" => dtors = {}
  /\ dtors \subseteq HostLabels \cup usurped
  /\ pc = "handler" => cursor \in Labels /\ Has(cursor)
  /\ pc \in {"regen", "sys"} => ~regen_pollfds
  /\ pc = "deferrals" => regen_pollfds
  /\ pc \in {"top", "regen", "sys"} => deferred_removes = {}
  /\ pc \in {"dispatch", "handler", "end"} /\ deferred_removes # {} => have_deferrals

(***************************************************************************)
(* Layer 2.  An object is under one label; the listener and connections    *)
(* are under the labels made for them, where other objects are only if a   *)
(* client has put one there; objects awaiting removal are registered,      *)
(* under a label that doDeferrals will erase; a connection's label that is *)
(* to be erased is still that of the connection meant, unless clients have *)
(* used it.                                                                *)
(***************************************************************************)
Injective ==
  \A k, l \in Labels : Has(k) /\ pollables[k] = pollables[l] => k = l

Classes ==
  \A l \in Labels :
    /\ pollables[l] \in Sockets => l \in SocketLabels
    /\ Has(l) /\ pollables[l] \notin Sockets /\ l \in SocketLabels => l \in usurped

DoomedDeferred ==
  /\ doomed \subseteq Registered
  /\ \A l \in Labels : Has(l) /\ pollables[l] \in doomed => l \in deferred_removes

ConnDeferred ==
  \A l \in ConnLabels \ usurped :
    l \in deferred_removes => Has(l) /\ pollables[l] \in doomed

Registry ==
  /\ Injective
  /\ Classes
  /\ DoomedDeferred
  /\ ConnDeferred
  /\ ControlLive

(***************************************************************************)
(* Layer 3.                                                                *)
(***************************************************************************)
SlotsLive ==
  \A i \in DOMAIN allpollfds :
    /\ allpollfds[i].obj \notin Plugins
    /\ ~regen_pollfds => allpollfds[i].obj \in Registered \cup abandoned

SocketsPlaced ==
  ~regen_pollfds => \A l \in Labels : pollables[l] \in Sockets /\ Placed(l) => HasSlot(l)

\* Queued output has set POLLOUT in the connection's pollfd, and in its slot.
Armed ==
  \A l \in Labels : pollables[l] \in Sockets =>
    /\ outputBuffer[pollables[l]] = "queued" => events[pollables[l]]
    /\ Placed(l) /\ HasSlot(l) /\ events[pollables[l]] =>
         allpollfds[indexInPollFD[pollables[l]] + 1].out

\* What EventsInSync says, for every label placed so far, when getPollFDs cannot fail.
InSync ==
  ~PollFDErrors =>
    /\ \A l \in Labels : pollables[l] \in Devices /\ l \notin usurped => ~events[pollables[l]]
    /\ \A l \in Labels : Placed(l) /\ HasSlot(l) /\ KeepsEvents(l) =>
         allpollfds[indexInPollFD[pollables[l]] + 1].out = events[pollables[l]]

Slots ==
  /\ SlotOwned
  /\ SlotsLive
  /\ SocketsPlaced
  /\ Armed
  /\ InSync

IInv == TypeOK /\ Flow /\ Registry /\ Slots

-----------------------------------------------------------------------------
(***************************************************************************)
(* The slots of one object, and what appending them does to the vector.    *)
(***************************************************************************)
LEMMA BlockType ==
  ASSUME TypeOK, NEW o \in Objects, NEW n \in Nat
  PROVE  /\ PollFDsOf(o, n) \in Seq(Slot)
         /\ Len(PollFDsOf(o, n)) = n
         /\ \A i \in 1..n : PollFDsOf(o, n)[i] =
              [obj |-> o, out |-> o \notin Devices /\ events[o]]
<1> DEFINE b == [obj |-> o, out |-> o \notin Devices /\ events[o]]
<1>1. (o \notin Devices /\ events[o]) \in BOOLEAN
  OBVIOUS
<1>2. b \in Slot
  BY <1>1 DEF Slot
<1>3. PollFDsOf(o, n) = [i \in 1..n |-> b]
  BY DEF PollFDsOf
<1> HIDE DEF b
<1>4. [i \in 1..n |-> b] \in [1..n -> Slot]
  BY <1>2
<1>5. PollFDsOf(o, n) \in Seq(Slot)
  BY <1>3, <1>4, SeqDef
<1>6. Len(PollFDsOf(o, n)) = n
  BY <1>3, <1>5, LenProperties
<1> QED
  BY <1>3, <1>5, <1>6 DEF b

LEMMA AppendBlock ==
  ASSUME TypeOK, NEW o \in Objects, NEW n \in Nat
  PROVE  /\ allpollfds \o PollFDsOf(o, n) \in Seq(Slot)
         /\ Len(allpollfds) \in Nat
         /\ DOMAIN allpollfds = 1..Len(allpollfds)
         /\ DOMAIN (allpollfds \o PollFDsOf(o, n)) = 1..(Len(allpollfds) + n)
         /\ Len(allpollfds \o PollFDsOf(o, n)) = Len(allpollfds) + n
         /\ \A i \in 1..Len(allpollfds) : (allpollfds \o PollFDsOf(o, n))[i] = allpollfds[i]
         /\ \A i \in (Len(allpollfds) + 1)..(Len(allpollfds) + n) :
              (allpollfds \o PollFDsOf(o, n))[i] =
                [obj |-> o, out |-> o \notin Devices /\ events[o]]
<1> DEFINE bs == PollFDsOf(o, n)
<1>1. allpollfds \in Seq(Slot)
  BY DEF TypeOK
<1>2. /\ bs \in Seq(Slot)
      /\ Len(bs) = n
      /\ \A i \in 1..n : bs[i] = [obj |-> o, out |-> o \notin Devices /\ events[o]]
  BY BlockType
<1> HIDE DEF bs
<1>3. /\ allpollfds \o bs \in Seq(Slot)
      /\ Len(allpollfds \o bs) = Len(allpollfds) + Len(bs)
      /\ \A i \in 1 .. Len(allpollfds) + Len(bs) : (allpollfds \o bs)[i] =
            IF i <= Len(allpollfds) THEN allpollfds[i] ELSE bs[i - Len(allpollfds)]
  BY <1>1, <1>2, ConcatProperties
<1>4. Len(allpollfds) \in Nat /\ DOMAIN allpollfds = 1..Len(allpollfds)
  BY <1>1, LenProperties
<1>5. DOMAIN (allpollfds \o bs) = 1..Len(allpollfds \o bs)
  BY <1>3, LenProperties
<1>6. \A i \in 1..Len(allpollfds) : (allpollfds \o bs)[i] = allpollfds[i]
  BY <1>2, <1>3, <1>4
<1>7. ASSUME NEW i \in (Len(allpollfds) + 1)..(Len(allpollfds) + n)
      PROVE  (allpollfds \o bs)[i] = [obj |-> o, out |-> o \notin Devices /\ events[o]]
  <2>1. i - Len(allpollfds) \in 1..n /\ i \in 1 .. Len(allpollfds) + Len(bs)
        /\ ~(i <= Len(allpollfds))
    BY <1>2, <1>4
  <2>2. (allpollfds \o bs)[i] = bs[i - Len(allpollfds)]
    BY <2>1, <1>3
  <2> QED
    BY <2>1, <2>2, <1>2
<1> QED
  BY <1>2, <1>3, <1>4, <1>5, <1>6, <1>7 DEF bs

\* WithOut changes at most the POLLOUT bit of one slot.
LEMMA WithOutSlots ==
  ASSUME NEW fds \in Seq(Slot), NEW i \in Int, NEW b \in BOOLEAN
  PROVE  /\ WithOut(fds, i, b) \in Seq(Slot)
         /\ DOMAIN WithOut(fds, i, b) = DOMAIN fds
         /\ \A j \in DOMAIN fds :
              /\ WithOut(fds, i, b)[j].obj = fds[j].obj
              /\ j # i + 1 => WithOut(fds, i, b)[j].out = fds[j].out
         /\ i + 1 \in DOMAIN fds => WithOut(fds, i, b)[i + 1].out = b
<1>1. Len(fds) \in Nat /\ DOMAIN fds = 1..Len(fds) /\ fds \in [1..Len(fds) -> Slot]
  BY LenProperties
<1>2. CASE i \in 0..(Len(fds) - 1)
  <2>1. i + 1 \in 1..Len(fds)
    BY <1>1, <1>2
  <2>2. fds[i + 1] \in Slot
    BY <2>1, <1>1
  <2>3. [fds[i + 1] EXCEPT !.out = b] \in Slot
    BY <2>2 DEF Slot
  <2>4. WithOut(fds, i, b) = [fds EXCEPT ![i + 1] = [fds[i + 1] EXCEPT !.out = b]]
    BY <1>1, <1>2, <2>1 DEF WithOut
  <2>5. WithOut(fds, i, b) \in Seq(Slot) /\ Len(WithOut(fds, i, b)) = Len(fds)
        /\ \A j \in 1..Len(fds) : WithOut(fds, i, b)[j] =
             IF j = i + 1 THEN [fds[i + 1] EXCEPT !.out = b] ELSE fds[j]
    BY <2>1, <2>3, <2>4, ExceptSeq
  <2>6. DOMAIN WithOut(fds, i, b) = 1..Len(fds)
    BY <2>5, LenProperties
  <2>7. /\ [fds[i + 1] EXCEPT !.out = b].obj = fds[i + 1].obj
        /\ [fds[i + 1] EXCEPT !.out = b].out = b
    BY <2>2 DEF Slot
  <2> QED
    BY <1>1, <2>1, <2>5, <2>6, <2>7
<1>3. CASE i \notin 0..(Len(fds) - 1)
  BY <1>1, <1>3 DEF WithOut
<1> QED
  BY <1>2, <1>3

-----------------------------------------------------------------------------
(***************************************************************************)
(* Layer 0: types.                                                         *)
(***************************************************************************)
LEMMA LabelSets ==
  /\ HostLabels \subseteq Labels /\ ConnLabels \subseteq Labels /\ SocketLabels \subseteq Labels
  /\ HostLabels \cap SocketLabels = {} /\ ConnLabels \subseteq SocketLabels
  /\ Listener \in SocketLabels /\ Listener \notin ConnLabels
  /\ NoLabel \notin Labels
BY PollableAssumption DEF HostLabels, SocketLabels, Labels, NoLabel

LEMMA ClassSets ==
  /\ Sockets \subseteq Objects /\ Devices \subseteq Objects /\ Plugins \subseteq Objects
  /\ Writers \subseteq Objects /\ NoObj \notin Objects
  /\ Sockets \cap (Devices \cup Plugins \cup Writers) = {}
  /\ Devices \cap (Plugins \cup Writers) = {} /\ Plugins \cap Writers = {}
BY PollableAssumption DEF Sockets

LEMMA InitType == Init => TypeOK
<1> SUFFICES ASSUME Init PROVE TypeOK
  OBVIOUS
<1>1. allpollfds \in Seq(Slot)
  BY EmptySeq DEF Init
<1>2. pollables \in [Labels -> Objects \cup {NoObj}]
  BY ClassSets DEF Init
<1>3. indexInPollFD \in [Objects -> Int] /\ events \in [Objects -> BOOLEAN]
      /\ outputBuffer \in [Objects -> {"empty", "queued", "failed"}]
  BY DEF Init
<1>4. /\ controlSocketLabel \in ConnLabels \cup {NoLabel}
      /\ cursor \in Labels \cup {0} /\ ready \subseteq Nat
      /\ dtors \subseteq Labels /\ doomed \subseteq Objects /\ deferred_removes \subseteq Labels
  BY DEF Init
<1>5. /\ pc \in {"top", "regen", "sys", "dispatch", "handler", "end", "deferrals", "stopped"}
      /\ regen_pollfds \in BOOLEAN /\ have_deferrals \in BOOLEAN /\ doing_poll \in BOOLEAN
  BY DEF Init
<1>6. abandoned \subseteq Objects /\ usurped \subseteq SocketLabels
  BY DEF Init
<1> QED
  BY <1>1, <1>2, <1>3, <1>4, <1>5, <1>6 DEF TypeOK

\* A destructor asks for the removal of host labels and labels clients have used.
LEMMA DestroysHosts ==
  \A x : \A D \in Destroys(x) : D \subseteq HostLabels \cup usurped
BY DEF Destroys

LEMMA EraseType ==
  ASSUME TypeOK, NEW l \in Labels, Erase(l)
  PROVE  /\ pollables' \in [Labels -> Objects \cup {NoObj}]
         /\ pollables' = [pollables EXCEPT ![l] = NoObj]
         /\ doomed' \subseteq Objects
         /\ doomed' = doomed \ {pollables[l]}
         /\ dtors' \subseteq dtors \cup HostLabels \cup usurped
         /\ dtors' \subseteq Labels
<1>1. PICK D \in Destroys(pollables[l]) : dtors' = (dtors \ {l}) \cup D
  BY DEF Erase
<1>2. dtors' \subseteq dtors \cup HostLabels \cup usurped
  BY <1>1, DestroysHosts
<1>3. dtors' \subseteq Labels
  BY <1>2, LabelSets DEF TypeOK
<1> QED
  BY <1>2, <1>3 DEF Erase, TypeOK

(***************************************************************************)
(* What a step that displaces an object does to the map and the removals.  *)
(***************************************************************************)
LEMMA DisplaceLive ==
  ASSUME TypeOK, NEW l \in Labels, NEW new \in Objects \cup {NoObj}, NEW heir,
         Displace(l, new, heir)
  PROVE  /\ pollables' \in [Labels -> Objects \cup {NoObj}]
         /\ \A k \in Labels : pollables'[k] = IF k = l THEN new ELSE pollables[k]
         /\ \E live \in SUBSET (HostLabels \cup usurped) :
              /\ \A k \in live : k \in Labels /\ pollables'[k] # NoObj
              /\ deferred_removes' = deferred_removes \cup live
              /\ have_deferrals' \in BOOLEAN
              /\ have_deferrals \/ live # {} => have_deferrals'
              /\ doomed' = (doomed \ {pollables[l]}) \cup {pollables'[k] : k \in live}
              /\ controlSocketLabel' = IF controlSocketLabel \in live \cup {NoLabel}
                                       THEN heir ELSE controlSocketLabel
<1>1. PICK D \in Destroys(pollables[l]) :
        LET live == {k \in D : pollables'[k] # NoObj}
            none == controlSocketLabel \in live \cup {NoLabel}
        IN
        /\ deferred_removes' = deferred_removes \cup live
        /\ have_deferrals' = (have_deferrals \/ live # {})
        /\ doomed' = (doomed \ {pollables[l]}) \cup {pollables'[k] : k \in live}
        /\ controlSocketLabel' = IF none THEN heir ELSE controlSocketLabel
  BY DEF Displace
<1> DEFINE live == {k \in D : pollables'[k] # NoObj}
<1>2. D \subseteq HostLabels \cup usurped
  BY DestroysHosts
<1>3. live \in SUBSET (HostLabels \cup usurped)
  BY <1>2
<1>4. \A k \in live : k \in Labels /\ pollables'[k] # NoObj
  BY <1>3, LabelSets DEF TypeOK
<1>5. /\ deferred_removes' = deferred_removes \cup live
      /\ have_deferrals' \in BOOLEAN
      /\ have_deferrals \/ live # {} => have_deferrals'
      /\ doomed' = (doomed \ {pollables[l]}) \cup {pollables'[k] : k \in live}
      /\ controlSocketLabel' = IF controlSocketLabel \in live \cup {NoLabel}
                               THEN heir ELSE controlSocketLabel
  BY <1>1
<1> HIDE DEF live
<1>6. pollables' \in [Labels -> Objects \cup {NoObj}]
      /\ \A k \in Labels : pollables'[k] = IF k = l THEN new ELSE pollables[k]
  BY DEF Displace, TypeOK
<1> QED
  BY <1>3, <1>4, <1>5, <1>6

LEMMA DisplaceType ==
  ASSUME TypeOK, NEW l \in Labels, NEW new \in Objects \cup {NoObj},
         NEW heir \in ConnLabels \cup {NoLabel}, Displace(l, new, heir)
  PROVE  /\ pollables' \in [Labels -> Objects \cup {NoObj}]
         /\ deferred_removes' \subseteq Labels
         /\ have_deferrals' \in BOOLEAN
         /\ doomed' \subseteq Objects
         /\ controlSocketLabel' \in ConnLabels \cup {NoLabel}
<1>1. PICK live \in SUBSET (HostLabels \cup usurped) :
        /\ \A k \in live : k \in Labels /\ pollables'[k] # NoObj
        /\ deferred_removes' = deferred_removes \cup live
        /\ have_deferrals' \in BOOLEAN
        /\ doomed' = (doomed \ {pollables[l]}) \cup {pollables'[k] : k \in live}
        /\ controlSocketLabel' = IF controlSocketLabel \in live \cup {NoLabel}
                                 THEN heir ELSE controlSocketLabel
  BY DisplaceLive
<1>2. pollables' \in [Labels -> Objects \cup {NoObj}]
  BY DisplaceLive
<1> QED
  BY <1>1, <1>2 DEF TypeOK

LEMMA DeferType ==
  ASSUME TypeOK, NEW l \in Labels, Has(l), Defer(l)
  PROVE  /\ pollables' = pollables
         /\ doomed' = doomed \cup {pollables[l]} /\ doomed' \subseteq Objects
         /\ dtors' \subseteq dtors
         /\ deferred_removes' = deferred_removes \cup {l}
         /\ deferred_removes' \subseteq Labels
         /\ have_deferrals' = TRUE
BY DEF Defer, TypeOK, Has

LEMMA RemoveType ==
  ASSUME TypeOK, NEW l \in Labels, Has(l), Remove(l)
  PROVE  /\ pollables' \in [Labels -> Objects \cup {NoObj}]
         /\ doomed' \subseteq Objects
         /\ dtors' \subseteq dtors \cup HostLabels \cup usurped
         /\ dtors' \subseteq Labels
         /\ deferred_removes' \subseteq Labels
         /\ have_deferrals' \in BOOLEAN
         /\ regen_pollfds' \in BOOLEAN
         /\ controlSocketLabel' \in {controlSocketLabel, NoLabel}
<1>1. CASE doing_poll
  <2>1. dtors' \subseteq dtors /\ dtors' \subseteq Labels
    BY <1>1, DeferType DEF Remove, TypeOK
  <2> QED
    BY <1>1, <2>1, DeferType DEF Remove, TypeOK, ControlAfterRemove
<1>2. CASE ~doing_poll
  BY <1>2, EraseType DEF Remove, TypeOK, deferral, ControlAfterRemove
<1> QED
  BY <1>1, <1>2

LEMMA NextType == TypeOK /\ Flow /\ [Next]_vars => TypeOK'
<1> SUFFICES ASSUME TypeOK, Flow, [Next]_vars PROVE TypeOK'
  OBVIOUS
<1> USE PollableAssumption
<1>0. Len(allpollfds) \in Nat /\ DOMAIN allpollfds = 1..Len(allpollfds)
  BY LenProperties DEF TypeOK
<1>w. \A i \in Int, b \in BOOLEAN : WithOut(allpollfds, i, b) \in Seq(Slot)
  BY WithOutSlots DEF TypeOK
<1>h. HostLabels \subseteq Labels /\ ConnLabels \subseteq Labels
  BY DEF HostLabels
<1>1. CASE Poll
  <2>0. <<>> \in Seq(Slot)
    BY EmptySeq
  <2>1. allpollfds' \in Seq(Slot)
    BY <1>1, <2>0 DEF Poll, TypeOK
  <2> QED
    BY <1>1, <2>1 DEF Poll, TypeOK, deferral, misuse
<1>2. CASE RegenNext
  <2>1. PICK l \in Labels :
          /\ Has(l) /\ cursor' = l
          /\ \E n \in NumPollFDs(pollables[l]) :
               /\ indexInPollFD' = [indexInPollFD EXCEPT ![pollables[l]] =
                                      IndexFor(Len(allpollfds), n)]
               /\ allpollfds' = allpollfds \o PollFDsOf(pollables[l], n)
    BY <1>2 DEF RegenNext, IsNext
  <2>2. PICK n \in NumPollFDs(pollables[l]) :
          /\ indexInPollFD' = [indexInPollFD EXCEPT ![pollables[l]] = IndexFor(Len(allpollfds), n)]
          /\ allpollfds' = allpollfds \o PollFDsOf(pollables[l], n)
    BY <2>1
  <2>3. n \in Nat /\ pollables[l] \in Objects
    BY <2>1 DEF NumPollFDs, TypeOK, Has
  <2>4. allpollfds' \in Seq(Slot)
    BY <2>2, <2>3, AppendBlock
  <2>5. IndexFor(Len(allpollfds), n) \in Int
    BY <1>0 DEF IndexFor
  <2> QED
    BY <1>2, <2>1, <2>2, <2>4, <2>5 DEF RegenNext, TypeOK, deferral, misuse
<1>3. CASE RegenNextError
  <2>1. PICK l \in Labels, n \in 1..MaxFDs :
          /\ cursor' = l /\ Has(l) /\ pollables[l] \in Devices
          /\ indexInPollFD' = [indexInPollFD EXCEPT ![pollables[l]] = Len(allpollfds)]
          /\ IF controlSocketLabel # NoLabel /\ Has(controlSocketLabel)
             THEN /\ outputBuffer' = [outputBuffer EXCEPT ![pollables[controlSocketLabel]] = "queued"]
                  /\ events' = [events EXCEPT ![pollables[controlSocketLabel]] = TRUE]
                  /\ allpollfds' = WithOut(allpollfds \o PollFDsOf(pollables[l], n),
                                           indexInPollFD'[pollables[controlSocketLabel]], TRUE)
             ELSE /\ allpollfds' = allpollfds \o PollFDsOf(pollables[l], n)
                  /\ UNCHANGED <<outputBuffer, events>>
    BY <1>3 DEF RegenNextError, IsNext
  <2>2. n \in Nat /\ pollables[l] \in Objects
    BY <2>1 DEF TypeOK
  <2>3. allpollfds \o PollFDsOf(pollables[l], n) \in Seq(Slot)
    BY <2>2, AppendBlock
  <2>4. indexInPollFD' \in [Objects -> Int]
    BY <1>0, <2>1 DEF TypeOK
  <2>5. CASE controlSocketLabel # NoLabel /\ Has(controlSocketLabel)
    <3>1. pollables[controlSocketLabel] \in Objects
      BY <2>5, <1>h DEF TypeOK, Has
    <3>2. allpollfds' \in Seq(Slot)
      <4> DEFINE i == indexInPollFD'[pollables[controlSocketLabel]]
      <4>1. i \in Int
        BY <2>4, <3>1
      <4> HIDE DEF i
      <4>2. WithOut(allpollfds \o PollFDsOf(pollables[l], n), i, TRUE) \in Seq(Slot)
        BY <4>1, <2>3, WithOutSlots
      <4> QED
        BY <2>1, <2>5, <4>2 DEF i
    <3>3. outputBuffer' \in [Objects -> {"empty", "queued", "failed"}]
          /\ events' \in [Objects -> BOOLEAN]
      BY <2>1, <2>5, <3>1 DEF TypeOK
    <3> QED
      BY <1>3, <2>1, <2>4, <3>2, <3>3 DEF RegenNextError, TypeOK, deferral, misuse
  <2>6. CASE ~(controlSocketLabel # NoLabel /\ Has(controlSocketLabel))
    BY <1>3, <2>1, <2>3, <2>4, <2>6 DEF RegenNextError, TypeOK, deferral, misuse
  <2> QED
    BY <2>5, <2>6
<1>4. CASE RegenDone
  BY <1>4, <1>0, <1>h DEF RegenDone, TypeOK, slots, deferral, misuse
<1>5. CASE SysPoll
  <2>1. ready' \subseteq Nat
    <3>1. {i \in DOMAIN allpollfds : allpollfds[i].out} \subseteq Nat
      BY <1>0
    <3> QED
      BY <1>5, <3>1 DEF SysPoll, TypeOK
  <2> QED
    BY <1>5, <2>1 DEF SysPoll, TypeOK, slots, deferral, misuse
<1>6. CASE Dispatch
  BY <1>6, <1>0, <1>h DEF Dispatch, HasSlot, Has, TypeOK, slots, deferral, misuse
<1>7. CASE HandlerReturn
  BY <1>7, <1>0, <1>h DEF HandlerReturn, TypeOK, slots, deferral, misuse
<1>8. CASE EndRound
  BY <1>8, <1>0, <1>h DEF EndRound, TypeOK, slots, deferral, misuse
<1>9. CASE Deferral
  <2>1. PICK l \in deferred_removes :
          /\ deferred_removes' = deferred_removes \ {l}
          /\ IF Has(l) THEN Erase(l) ELSE UNCHANGED <<pollables, doomed, dtors>>
    BY <1>9 DEF Deferral
  <2>2. l \in Labels
    BY DEF TypeOK
  <2>3. CASE Has(l)
    BY <1>9, <1>h, <2>1, <2>2, <2>3, EraseType DEF Deferral, TypeOK, slots, misuse
  <2>4. CASE ~Has(l)
    BY <1>9, <2>1, <2>4 DEF Deferral, TypeOK, slots, misuse
  <2> QED
    BY <2>3, <2>4
<1>10. CASE DestructorRemove
  <2>1. PICK l \in dtors :
          \/ Has(l) /\ Remove(l)
          \/ /\ ~Has(l)
             /\ dtors' = dtors \ {l}
             /\ UNCHANGED <<pollables, doomed, deferral, regen_pollfds, controlSocketLabel>>
    BY <1>10 DEF DestructorRemove
  <2>2. l \in Labels
    BY DEF TypeOK
  <2>3. CASE Has(l) /\ Remove(l)
    BY <1>10, <1>h, <2>2, <2>3, RemoveType DEF DestructorRemove, TypeOK, slots, misuse
  <2>4. CASE ~Has(l) /\ dtors' = dtors \ {l}
              /\ UNCHANGED <<pollables, doomed, deferral, regen_pollfds, controlSocketLabel>>
    BY <1>10, <2>4 DEF DestructorRemove, TypeOK, slots, deferral, misuse
  <2> QED
    BY <2>1, <2>3, <2>4
<1>11. CASE DeferralsDone
  BY <1>11, <1>0, <1>h DEF DeferralsDone, TypeOK, slots, deferral, misuse
<1>12. CASE HandlerThrow
  BY <1>12, <1>0, <1>h DEF HandlerThrow, TypeOK, slots, deferral, misuse
<1>13. CASE RequestRegen
  BY <1>13, <1>0, <1>h DEF RequestRegen, TypeOK, slots, deferral, misuse
<1>14. CASE HangUp
  <2>1. cursor \in Labels /\ Has(cursor) /\ controlSocketLabel' \in {controlSocketLabel, NoLabel}
    BY <1>14, <1>h DEF HangUp, ControlAfterRemove, Flow
  <2>2. CASE doing_poll /\ Defer(cursor)
    BY <1>14, <2>1, <2>2, DeferType DEF HangUp, TypeOK, slots, misuse
  <2>3. CASE ~doing_poll
    BY <1>14, <1>h, <2>1, <2>3, EraseType DEF HangUp, TypeOK, slots, deferral, misuse
  <2> QED
    BY <1>14, <2>2, <2>3 DEF HangUp
<1>15. CASE WriteSome
  <2> DEFINE o == pollables[cursor]
  <2>1. PICK outcome \in {"none", "error", "part", "all"} :
          /\ outputBuffer' = [outputBuffer EXCEPT ![o] =
                                CASE outcome \in {"none", "all"} -> "empty"
                                  [] outcome = "error" -> "failed"
                                  [] OTHER -> outputBuffer[o]]
          /\ events' = [events EXCEPT ![o] = IF StillAsks(outcome) THEN events[o] ELSE FALSE]
          /\ allpollfds' = IF StillAsks(outcome) THEN allpollfds
                           ELSE WithOut(allpollfds, indexInPollFD[o], FALSE)
    BY <1>15 DEF WriteSome
  <2>2. outputBuffer' \in [Objects -> {"empty", "queued", "failed"}]
    BY <2>1 DEF TypeOK
  <2>3. events' \in [Objects -> BOOLEAN]
    <3>1. CASE o \in Objects
      BY <2>1, <3>1 DEF TypeOK
    <3>2. CASE o \notin Objects
      BY <2>1, <3>2 DEF TypeOK
    <3> QED
      BY <3>1, <3>2
  <2>4. allpollfds' \in Seq(Slot)
    <3>1. o \in Objects
      BY <1>15 DEF WriteSome, Flow, TypeOK, Has
    <3>2. WithOut(allpollfds, indexInPollFD[o], FALSE) \in Seq(Slot)
      BY <1>w, <3>1 DEF TypeOK
    <3> QED
      BY <2>1, <3>2 DEF TypeOK
  <2> QED
    BY <1>15, <2>2, <2>3, <2>4 DEF WriteSome, TypeOK, deferral, misuse
<1>16. ASSUME NEW l \in Labels, NEW o \in Objects, Construct(l, o) PROVE TypeOK'
  <2>1. Displace(l, o, NoLabel) /\ Fresh(o, FALSE)
    BY <1>16 DEF Construct
  <2>2. usurped' \subseteq SocketLabels /\ pc' \in {pc, "undefined"}
    BY <1>16 DEF Construct, AfterCommandOn, TypeOK
  <2> QED
    BY <1>16, <2>1, <2>2, DisplaceType DEF Construct, Fresh, RegenAfterNew, TypeOK
<1>17. ASSUME NEW l \in ConnLabels, NEW o \in Objects, Accept(l, o) PROVE TypeOK'
  <2>1. PICK w \in BOOLEAN : Fresh(o, w)
    BY <1>17 DEF Accept
  <2>2. Displace(l, o, l) /\ l \in Labels
    BY <1>17, <1>h DEF Accept
  <2> QED
    BY <1>17, <2>1, <2>2, DisplaceType DEF Accept, Fresh, RegenAfterNew, TypeOK, misuse
<1>18. ASSUME NEW l \in Labels, HandlerRemove(l) PROVE TypeOK'
  BY <1>18, RemoveType DEF HandlerRemove, TypeOK, slots, misuse
<1>19. ASSUME NEW l \in Labels, Detach(l) PROVE TypeOK'
  <2>1. Displace(l, NoObj, NoLabel)
    BY <1>19 DEF Detach
  <2>2. usurped' \subseteq SocketLabels /\ pc' \in {pc, "undefined"}
    BY <1>19 DEF Detach, AfterCommandOn, TypeOK
  <2>3. abandoned' \subseteq Objects
    BY <1>19 DEF Detach, TypeOK, Has
  <2> QED
    BY <1>19, <2>1, <2>2, <2>3, DisplaceType DEF Detach, TypeOK, slots, misuse
<1>20. ASSUME NEW l \in Labels, QueueSamples(l) PROVE TypeOK'
  <2>1. pollables[l] \in Objects /\ indexInPollFD[pollables[l]] \in Int
    BY <1>20, ClassSets DEF QueueSamples, TypeOK
  <2>2. allpollfds' \in Seq(Slot) /\ regen_pollfds' \in BOOLEAN
    BY <1>20, <1>w, <2>1 DEF QueueSamples, TypeOK
  <2>3. outputBuffer' \in [Objects -> {"empty", "queued", "failed"}]
        /\ events' \in [Objects -> BOOLEAN]
    BY <1>20, <2>1 DEF QueueSamples, TypeOK
  <2> QED
    BY <1>20, <2>2, <2>3 DEF QueueSamples, TypeOK, misuse, deferral
<1>21. ASSUME NEW l \in ConnLabels, QueueOutput(l) PROVE TypeOK'
  BY <1>21, <1>0, <1>h, <1>w DEF QueueOutput, Has, TypeOK, slots, deferral, misuse
<1>22. CASE UNCHANGED vars
  BY <1>22 DEF vars, slots, deferral, misuse, TypeOK
<1> QED
  BY <1>1, <1>2, <1>3, <1>4, <1>5, <1>6, <1>7, <1>8, <1>9, <1>10, <1>11, <1>12, <1>13, <1>14, <1>15, <1>16, <1>17, <1>18, <1>19, <1>20, <1>21, <1>22
     DEF Next, LoopStep, HandlerStep, Stopped

-----------------------------------------------------------------------------
(***************************************************************************)
(* Layer 1: the thread and its flags.                                      *)
(***************************************************************************)
LEMMA InitFlow == Init => Flow
BY DEF Init, Flow

LEMMA NextFlow == TypeOK /\ Flow /\ [Next]_vars => Flow'
<1> SUFFICES ASSUME TypeOK, Flow, [Next]_vars PROVE Flow'
  OBVIOUS
<1> USE DEF misuse
<1>1. CASE Poll
  BY <1>1 DEF Poll, Flow, deferral, Has
<1>2. CASE RegenNext
  BY <1>2 DEF RegenNext, Flow, deferral, Has
<1>3. CASE RegenNextError
  BY <1>3 DEF RegenNextError, Flow, deferral, Has
<1>4. CASE RegenDone
  BY <1>4 DEF RegenDone, Flow, deferral, Has
<1>5. CASE SysPoll
  BY <1>5 DEF SysPoll, Flow, deferral, Has
<1>6. CASE Dispatch
  BY <1>6 DEF Dispatch, Flow, deferral, Has, HasSlot
<1>7. CASE HandlerReturn
  BY <1>7 DEF HandlerReturn, Flow, deferral, Has
<1>8. CASE EndRound
  BY <1>8 DEF EndRound, Flow, deferral, Has
<1>9. CASE Deferral
  <2>1. PICK l \in deferred_removes :
          /\ deferred_removes' = deferred_removes \ {l}
          /\ IF Has(l) THEN Erase(l) ELSE UNCHANGED <<pollables, doomed, dtors>>
    BY <1>9 DEF Deferral
  <2>2. dtors' \subseteq dtors \cup HostLabels \cup usurped
    BY <2>1, EraseType DEF TypeOK
  <2> QED
    BY <1>9, <2>2 DEF Deferral, Flow
<1>10. CASE DestructorRemove
  <2>1. PICK l \in dtors :
          \/ Has(l) /\ Remove(l)
          \/ /\ ~Has(l)
             /\ dtors' = dtors \ {l}
             /\ UNCHANGED <<pollables, doomed, deferral, regen_pollfds, controlSocketLabel>>
    BY <1>10 DEF DestructorRemove
  <2>2. l \in Labels
    BY DEF TypeOK
  <2>3. CASE Has(l) /\ Remove(l)
    <3>1. regen_pollfds' = TRUE
      BY <1>10, <2>3 DEF DestructorRemove, Flow, Remove
    <3>2. dtors' \subseteq HostLabels \cup usurped
      BY <2>2, <2>3, RemoveType DEF Flow
    <3> QED
      BY <1>10, <3>1, <3>2 DEF DestructorRemove, Flow
  <2>4. CASE ~Has(l) /\ dtors' = dtors \ {l}
              /\ UNCHANGED <<pollables, doomed, deferral, regen_pollfds, controlSocketLabel>>
    BY <1>10, <2>4 DEF DestructorRemove, Flow, deferral
  <2> QED
    BY <2>1, <2>3, <2>4
<1>11. CASE DeferralsDone
  BY <1>11 DEF DeferralsDone, Flow, deferral, Has
<1>12. CASE HandlerThrow
  BY <1>12 DEF HandlerThrow, Flow, deferral, Has
<1>13. CASE RequestRegen
  BY <1>13 DEF RequestRegen, Flow, deferral, Has
<1>14. CASE HangUp
  <2>1. doing_poll /\ dtors = {} /\ Defer(cursor)
    BY <1>14 DEF HangUp, Flow
  <2> QED
    BY <1>14, <2>1 DEF HangUp, Flow, Defer
<1>15. CASE WriteSome
  BY <1>15 DEF WriteSome, Flow, deferral, Has
<1>16. ASSUME NEW l \in Labels, NEW o \in Objects, Construct(l, o) PROVE Flow'
  <2>1. Displace(l, o, NoLabel) /\ o # NoObj
    BY <1>16, ClassSets DEF Construct
  <2>2. Has(cursor)'
    BY <1>16, <2>1, DisplaceLive DEF Construct, Flow, Has
  <2>3. deferred_removes' # {} => have_deferrals'
    BY <1>16, <2>1, DisplaceLive DEF Construct, Flow
  <2> QED
    BY <1>16, <2>2, <2>3 DEF Construct, AfterCommandOn, Flow
<1>17. ASSUME NEW l \in ConnLabels, NEW o \in Objects, Accept(l, o) PROVE Flow'
  <2>1. Displace(l, o, l) /\ o # NoObj /\ l \in Labels
    BY <1>17, ClassSets, LabelSets DEF Accept
  <2>2. Has(cursor)'
    BY <1>17, <2>1, DisplaceLive DEF Accept, Flow, Has
  <2>3. deferred_removes' # {} => have_deferrals'
    BY <1>17, <2>1, DisplaceLive DEF Accept, Flow
  <2> QED
    BY <1>17, <2>2, <2>3 DEF Accept, Flow
<1>18. ASSUME NEW l \in Labels, HandlerRemove(l) PROVE Flow'
  <2>1. doing_poll /\ dtors = {} /\ Defer(l) /\ UNCHANGED regen_pollfds
    BY <1>18 DEF HandlerRemove, Flow, Remove
  <2> QED
    BY <1>18, <2>1 DEF HandlerRemove, Flow, Defer, Has
<1>19. ASSUME NEW l \in Labels, Detach(l) PROVE Flow'
  <2>1. Displace(l, NoObj, NoLabel)
    BY <1>19 DEF Detach
  <2>2. pc' = "handler" => Has(cursor)'
    <3>1. l = cursor => pc' = "undefined"
      BY <1>19 DEF Detach, AfterCommandOn
    <3>2. l # cursor => Has(cursor)'
      BY <1>19, <2>1, DisplaceLive DEF Detach, Flow, Has
    <3> QED
      BY <3>1, <3>2
  <2>3. deferred_removes' # {} => have_deferrals'
    BY <1>19, <2>1, DisplaceLive DEF Detach, Flow
  <2> QED
    BY <1>19, <2>2, <2>3 DEF Detach, AfterCommandOn, Flow
<1>20. ASSUME NEW l \in Labels, QueueSamples(l) PROVE Flow'
  BY <1>20 DEF QueueSamples, Flow, deferral, Has
<1>21. ASSUME NEW l \in ConnLabels, QueueOutput(l) PROVE Flow'
  BY <1>21 DEF QueueOutput, Flow, deferral, Has
<1>22. CASE UNCHANGED vars
  BY <1>22 DEF vars, slots, deferral, Flow, Has
<1> QED
  BY <1>1, <1>2, <1>3, <1>4, <1>5, <1>6, <1>7, <1>8, <1>9, <1>10, <1>11, <1>12, <1>13, <1>14,
     <1>15, <1>16, <1>17, <1>18, <1>19, <1>20, <1>21, <1>22
     DEF Next, LoopStep, HandlerStep, Stopped

(***************************************************************************)
(* Every variable stays in its domain, in particular allpollfds is a       *)
(* sequence of slots of objects and every index an integer, whatever       *)
(* handlers and destructors do.                                            *)
(***************************************************************************)
THEOREM TypeCorrect == Spec => []TypeOK
<1>1. Init => TypeOK /\ Flow
  BY InitType, InitFlow
<1>2. TypeOK /\ Flow /\ [Next]_vars => (TypeOK /\ Flow)'
  BY NextType, NextFlow
<1> QED
  BY <1>1, <1>2, PTL DEF Spec

-----------------------------------------------------------------------------
(***************************************************************************)
(* Layer 2: the registry and the removals put off.                         *)
(***************************************************************************)
LEMMA SameRegistry ==
  ASSUME Registry,
         UNCHANGED <<pollables, doomed, deferred_removes, controlSocketLabel, usurped>>
  PROVE  Registry'
BY DEF Registry, Injective, Classes, DoomedDeferred, ConnDeferred, ControlLive, ConnAt, Has,
       Registered

LEMMA EraseRegistry ==
  ASSUME TypeOK, Registry, NEW l \in Labels, Erase(l),
         deferred_removes \ {l} \subseteq deferred_removes',
         deferred_removes' \subseteq deferred_removes,
         l \in ConnLabels \ usurped => l \notin deferred_removes',
         UNCHANGED usurped,
         \/ controlSocketLabel' = NoLabel
         \/ /\ controlSocketLabel' = controlSocketLabel
            /\ controlSocketLabel = l => l \in usurped
  PROVE  Registry'
<1> USE ClassSets DEF Has
<1>1. /\ pollables' = [pollables EXCEPT ![l] = NoObj]
      /\ doomed' = doomed \ {pollables[l]}
  BY EraseType
<1>2. \A k \in Labels : pollables'[k] = IF k = l THEN NoObj ELSE pollables[k]
  BY <1>1 DEF TypeOK
<1>3. Injective'
  BY <1>2 DEF Registry, Injective
<1>4. Classes'
  BY <1>2 DEF Registry, Classes
<1>5. DoomedDeferred'
  <2>1. doomed' \subseteq Registered'
    <3> SUFFICES ASSUME NEW o \in doomed, o # pollables[l] PROVE o \in Registered'
      BY <1>1
    <3>1. PICK k \in Labels : pollables[k] = o /\ o # NoObj
      BY DEF Registry, DoomedDeferred, Registered
    <3> QED
      BY <1>2, <3>1 DEF Registered
  <2> QED
    BY <1>1, <1>2, <2>1 DEF Registry, DoomedDeferred
<1>6. ConnDeferred'
  <2> SUFFICES ASSUME NEW k \in ConnLabels \ usurped, k \in deferred_removes'
               PROVE  Has(k)' /\ pollables'[k] \in doomed'
    BY DEF ConnDeferred
  <2>1. k # l /\ k \in Labels /\ Has(k) /\ pollables[k] \in doomed
    BY LabelSets DEF Registry, ConnDeferred
  <2>2. pollables[k] # pollables[l]
    BY <2>1 DEF Registry, Injective
  <2> QED
    BY <1>1, <1>2, <2>1, <2>2
<1>7. ControlLive'
  BY <1>1, <1>2, LabelSets DEF Registry, ControlLive, ConnAt, TypeOK
<1> QED
  BY <1>3, <1>4, <1>5, <1>6, <1>7 DEF Registry

LEMMA DeferRegistry ==
  ASSUME TypeOK, Registry, NEW l \in Labels, Has(l), Defer(l),
         controlSocketLabel' = ControlAfterRemove(l), UNCHANGED usurped
  PROVE  Registry'
<1> USE DEF Has
<1>1. /\ pollables' = pollables
      /\ doomed' = doomed \cup {pollables[l]}
      /\ deferred_removes' = deferred_removes \cup {l}
  BY DEF Defer
<1>2. Injective' /\ Classes'
  BY <1>1 DEF Registry, Injective, Classes
<1>3. DoomedDeferred'
  BY <1>1 DEF Registry, DoomedDeferred, Injective, Registered
<1>4. ConnDeferred'
  BY <1>1 DEF Registry, ConnDeferred
<1>5. ControlLive'
  <2> SUFFICES ASSUME controlSocketLabel' \notin usurped \cup {NoLabel}
               PROVE  ConnAt(controlSocketLabel') /\ pollables[controlSocketLabel'] \notin doomed'
    BY <1>1 DEF ControlLive, ConnAt
  <2>1. controlSocketLabel' = controlSocketLabel /\ controlSocketLabel # l
    BY DEF ControlAfterRemove
  <2>2. controlSocketLabel \in Labels
    BY <2>1, LabelSets DEF TypeOK
  <2> QED
    BY <1>1, <2>1, <2>2, ClassSets DEF Registry, ControlLive, ConnAt, Injective
<1> QED
  BY <1>2, <1>3, <1>4, <1>5 DEF Registry

(***************************************************************************)
(* An object is displaced.  What takes its place is new, and a socket only *)
(* under its own label; an object that is no socket takes a socket's label *)
(* only by a client's command, and only so does a socket's label become    *)
(* empty.  Only a new connection's label becomes that of the control       *)
(* socket.                                                                 *)
(***************************************************************************)
LEMMA DisplaceRegistry ==
  ASSUME TypeOK, Registry, NEW l \in Labels, NEW new \in Objects \cup {NoObj},
         NEW heir \in ConnLabels \cup {NoLabel}, Displace(l, new, heir),
         new \notin Registered, usurped \subseteq usurped',
         new \in Sockets => l \in ConnLabels /\ ~ConnAt(l),
         new \notin Sockets /\ l \in SocketLabels => l \in usurped',
         heir # NoLabel => heir = l /\ new \in Sockets
  PROVE  Registry'
<1> USE LabelSets, ClassSets DEF Has
<1>1. PICK live \in SUBSET (HostLabels \cup usurped) :
        /\ \A k \in live : k \in Labels /\ pollables'[k] # NoObj
        /\ deferred_removes' = deferred_removes \cup live
        /\ doomed' = (doomed \ {pollables[l]}) \cup {pollables'[k] : k \in live}
        /\ controlSocketLabel' = IF controlSocketLabel \in live \cup {NoLabel}
                                 THEN heir ELSE controlSocketLabel
  BY DisplaceLive
<1>2. \A k \in Labels : pollables'[k] = IF k = l THEN new ELSE pollables[k]
  BY DisplaceLive
<1>3. \A k \in Labels : pollables[k] # NoObj => pollables[k] # new
  BY DEF Registered
<1>4. Injective'
  BY <1>2, <1>3 DEF Registry, Injective
<1>5. Classes'
  BY <1>2 DEF Registry, Classes
<1>6. doomed' \subseteq Registered'
  <2> SUFFICES ASSUME NEW x \in doomed' PROVE x \in Registered'
    OBVIOUS
  <2>1. CASE x \in doomed /\ x # pollables[l]
    <3>1. PICK k \in Labels : pollables[k] = x /\ x # NoObj
      BY <2>1 DEF Registry, DoomedDeferred, Registered
    <3> QED
      BY <1>2, <2>1, <3>1 DEF Registered
  <2>2. CASE \E k \in live : x = pollables'[k]
    BY <1>1, <2>2 DEF Registered
  <2> QED
    BY <1>1, <2>1, <2>2
<1>7. ASSUME NEW k \in Labels, Has(k)', pollables'[k] \in doomed'
      PROVE  k \in deferred_removes'
  <2>1. CASE pollables'[k] \in doomed \ {pollables[l]}
    <3>1. k # l
      BY <1>2, <1>3, <1>7, <2>1 DEF Registry, DoomedDeferred, Registered
    <3> QED
      BY <1>1, <1>2, <1>7, <2>1, <3>1 DEF Registry, DoomedDeferred
  <2>2. CASE \E j \in live : pollables'[k] = pollables'[j]
    BY <1>1, <1>4, <1>7, <2>2 DEF Injective
  <2> QED
    BY <1>1, <1>7, <2>1, <2>2
<1>8. \A k \in ConnLabels \ usurped' : k \in deferred_removes' =>
        k # l /\ k \notin usurped /\ k \in deferred_removes
  <2> SUFFICES ASSUME NEW k \in ConnLabels \ usurped', k \in deferred_removes'
               PROVE  k # l /\ k \notin usurped /\ k \in deferred_removes
    OBVIOUS
  <2>1. k \notin usurped /\ k \notin live /\ k \in deferred_removes
    BY <1>1
  <2>2. Has(k)
    BY <2>1 DEF Registry, ConnDeferred
  <2>3. pollables[k] \in Sockets
    BY <2>1, <2>2 DEF Registry, Classes
  <2>4. ASSUME k = l PROVE FALSE
    <3>1. new \in Sockets
      BY <2>4
    <3> QED
      BY <2>3, <2>4, <3>1 DEF ConnAt
  <2> QED
    BY <2>1, <2>4
<1>9. ConnDeferred'
  <2> SUFFICES ASSUME NEW k \in ConnLabels \ usurped', k \in deferred_removes'
               PROVE  Has(k)' /\ pollables'[k] \in doomed'
    BY DEF ConnDeferred
  <2>1. k # l /\ k \in ConnLabels \ usurped /\ k \in deferred_removes /\ k \in Labels
    BY <1>8
  <2>2. Has(k) /\ pollables[k] \in doomed /\ pollables[k] # pollables[l]
    BY <2>1 DEF Registry, ConnDeferred, Injective
  <2> QED
    BY <1>1, <1>2, <2>1, <2>2
<1>10. ControlLive'
  <2> DEFINE c == controlSocketLabel'
  <2> SUFFICES ASSUME c \notin usurped' \cup {NoLabel}
               PROVE  c \in ConnLabels /\ pollables'[c] \in Sockets /\ pollables'[c] \notin doomed'
    BY DEF ControlLive, ConnAt
  <2>1. c \in ConnLabels /\ c \in Labels /\ c \notin live /\ c \notin usurped
    BY <1>1 DEF TypeOK
  <2>2. \A k \in live : pollables'[k] # pollables'[c]
    <3> SUFFICES ASSUME NEW k \in live, pollables'[k] = pollables'[c] PROVE FALSE
      OBVIOUS
    <3> QED
      BY <1>1, <1>4, <2>1 DEF Injective
  <2>3. CASE c = heir /\ c = l /\ new \in Sockets
    <3>1. new \notin doomed
      BY DEF Registry, DoomedDeferred
    <3> QED
      BY <1>1, <1>2, <2>1, <2>2, <2>3, <3>1 DEF ConnAt
  <2>4. CASE c = controlSocketLabel /\ ~(c = l /\ new \in Sockets)
    <3>1. c # l
      BY <2>1, <2>4
    <3>2. ConnAt(c) /\ pollables[c] \notin doomed
      BY <2>1, <2>4 DEF Registry, ControlLive
    <3> QED
      BY <1>1, <1>2, <2>1, <2>2, <3>1, <3>2 DEF ConnAt
  <2>5. CASE c = controlSocketLabel /\ c = l /\ new \in Sockets
    BY <2>1, <2>5 DEF Registry, ControlLive
  <2> QED
    BY <1>1, <2>1, <2>3, <2>4, <2>5
<1> QED
  BY <1>4, <1>5, <1>6, <1>7, <1>9, <1>10 DEF Registry, DoomedDeferred

LEMMA InitRegistry == Init => Registry
<1> SUFFICES ASSUME Init PROVE Registry
  OBVIOUS
<1>1. PICK o \in Sockets :
        pollables = [l \in Labels |-> IF l = Listener THEN o ELSE NoObj]
  BY DEF Init
<1>2. Injective
  BY <1>1, ClassSets DEF Injective, Has
<1>3. Classes
  BY <1>1, ClassSets, LabelSets DEF Classes, Has
<1> QED
  BY <1>2, <1>3 DEF Init, Registry, DoomedDeferred, ConnDeferred, ControlLive

LEMMA NextRegistry == TypeOK /\ Flow /\ Registry /\ [Next]_vars => Registry'
<1> SUFFICES ASSUME TypeOK, Flow, Registry, [Next]_vars PROVE Registry'
  OBVIOUS
<1> USE LabelSets
<1>1. CASE Poll
  BY <1>1, SameRegistry DEF Poll, deferral, misuse
<1>2. CASE RegenNext
  BY <1>2, SameRegistry DEF RegenNext, deferral, misuse
<1>3. CASE RegenNextError
  BY <1>3, SameRegistry DEF RegenNextError, deferral, misuse
<1>4. CASE RegenDone
  BY <1>4, SameRegistry DEF RegenDone, deferral, misuse
<1>5. CASE SysPoll
  BY <1>5, SameRegistry DEF SysPoll, deferral, misuse
<1>6. CASE Dispatch
  BY <1>6, SameRegistry DEF Dispatch, deferral, misuse
<1>7. CASE HandlerReturn
  BY <1>7, SameRegistry DEF HandlerReturn, deferral, misuse
<1>8. CASE EndRound
  BY <1>8, SameRegistry DEF EndRound, deferral, misuse
<1>9. CASE DeferralsDone
  BY <1>9, SameRegistry DEF DeferralsDone, deferral, misuse
<1>10. CASE HandlerThrow
  BY <1>10, SameRegistry DEF HandlerThrow, deferral, misuse
<1>11. CASE RequestRegen
  BY <1>11, SameRegistry DEF RequestRegen, deferral, misuse
<1>12. CASE WriteSome
  BY <1>12, SameRegistry DEF WriteSome, deferral, misuse
<1>13. CASE Deferral
  <2>1. PICK l \in deferred_removes :
          /\ deferred_removes' = deferred_removes \ {l}
          /\ IF Has(l) THEN Erase(l) ELSE UNCHANGED <<pollables, doomed, dtors>>
          /\ UNCHANGED <<controlSocketLabel, usurped>>
    BY <1>13 DEF Deferral, misuse
  <2>2. l \in Labels
    BY DEF TypeOK
  <2>3. controlSocketLabel = l => l \in usurped
    BY <2>1, <2>2 DEF Registry, ControlLive, ConnAt, ConnDeferred, TypeOK
  <2>4. CASE Has(l)
    BY <2>1, <2>2, <2>3, <2>4, EraseRegistry
  <2>5. CASE ~Has(l)
    <3>1. UNCHANGED <<pollables, doomed>> /\ deferred_removes' = deferred_removes \ {l}
      BY <2>1, <2>5
    <3>2. DoomedDeferred'
      BY <2>5, <3>1 DEF Registry, DoomedDeferred, Registered, Has
    <3>3. Injective' /\ Classes' /\ ConnDeferred'
      BY <2>1, <3>1 DEF Registry, Injective, Classes, ConnDeferred, Has
    <3>4. ControlLive'
      BY <2>1, <3>1 DEF Registry, ControlLive, ConnAt
    <3> QED
      BY <3>2, <3>3, <3>4 DEF Registry
  <2> QED
    BY <2>4, <2>5
<1>14. CASE DestructorRemove
  <2>1. PICK l \in dtors :
          \/ Has(l) /\ Remove(l)
          \/ ~Has(l) /\ UNCHANGED <<pollables, doomed, deferral, controlSocketLabel>>
    BY <1>14 DEF DestructorRemove
  <2>2. l \in HostLabels \cup usurped /\ l \in Labels /\ UNCHANGED usurped
    BY <1>14 DEF DestructorRemove, Flow, TypeOK, misuse
  <2>3. CASE Has(l) /\ Remove(l)
    <3>1. ~doing_poll
      BY <1>14 DEF DestructorRemove, Flow
    <3>2. /\ Erase(l) /\ UNCHANGED deferral
          /\ controlSocketLabel' = ControlAfterRemove(l)
      BY <2>3, <3>1 DEF Remove
    <3>3. l \notin ConnLabels \ usurped
      BY <2>2
    <3> QED
      BY <2>2, <3>2, <3>3, EraseRegistry DEF deferral, ControlAfterRemove
  <2>4. CASE ~Has(l) /\ UNCHANGED <<pollables, doomed, deferral, controlSocketLabel>>
    BY <2>2, <2>4, SameRegistry DEF deferral
  <2> QED
    BY <2>1, <2>3, <2>4
<1>15. CASE HangUp
  <2>1. doing_poll /\ cursor \in Labels /\ Has(cursor)
    BY <1>15 DEF HangUp, Flow
  <2> QED
    BY <1>15, <2>1, DeferRegistry DEF HangUp, misuse
<1>16. ASSUME NEW l \in Labels, NEW o \in Objects, Construct(l, o) PROVE Registry'
  BY <1>16, ClassSets, DisplaceRegistry DEF Construct
<1>17. ASSUME NEW l \in ConnLabels, NEW o \in Objects, Accept(l, o) PROVE Registry'
  BY <1>17, ClassSets, DisplaceRegistry DEF Accept, misuse
<1>18. ASSUME NEW l \in Labels, HandlerRemove(l) PROVE Registry'
  <2>1. Defer(l) /\ Has(l) /\ controlSocketLabel' = ControlAfterRemove(l)
    BY <1>18 DEF HandlerRemove, Flow, Remove
  <2> QED
    BY <1>18, <2>1, DeferRegistry DEF HandlerRemove, misuse
<1>19. ASSUME NEW l \in Labels, Detach(l) PROVE Registry'
  BY <1>19, ClassSets, DisplaceRegistry DEF Detach, Registered
<1>20. ASSUME NEW l \in Labels, QueueSamples(l) PROVE Registry'
  BY <1>20, SameRegistry DEF QueueSamples, deferral, misuse
<1>21. ASSUME NEW l \in ConnLabels, QueueOutput(l) PROVE Registry'
  BY <1>21, SameRegistry DEF QueueOutput, deferral, misuse
<1>22. CASE UNCHANGED vars
  BY <1>22, SameRegistry DEF vars, deferral, misuse
<1> QED
  BY <1>1, <1>2, <1>3, <1>4, <1>5, <1>6, <1>7, <1>8, <1>9, <1>10, <1>11, <1>12, <1>13, <1>14,
     <1>15, <1>16, <1>17, <1>18, <1>19, <1>20, <1>21, <1>22
     DEF Next, LoopStep, HandlerStep, Stopped

-----------------------------------------------------------------------------
(***************************************************************************)
(* Layer 3: slots and indexes.                                             *)
(***************************************************************************)

\* Steps that touch neither the map nor the slots.
LEMMA SameSlots ==
  ASSUME Slots, UNCHANGED <<pollables, slots, misuse>>,
         \A l \in Labels : Placed(l)' => Placed(l),
         regen_pollfds \in BOOLEAN, regen_pollfds' \in BOOLEAN,
         regen_pollfds => regen_pollfds'
  PROVE  Slots'
<1> USE DEF slots, misuse, HasSlot, Has, KeepsEvents
<1>1. SlotOwned'
  BY DEF Slots, SlotOwned, Owns
<1>2. SlotsLive'
  BY DEF Slots, SlotsLive, Registered
<1>3. SocketsPlaced'
  BY DEF Slots, SocketsPlaced
<1>4. Armed'
  BY DEF Slots, Armed
<1>5. InSync'
  BY DEF Slots, InSync
<1> QED
  BY <1>1, <1>2, <1>3, <1>4, <1>5 DEF Slots

\* An object is destroyed: a rebuild has been asked for, or it had no slot, or it is
\* counted as abandoned.
LEMMA EraseSlots ==
  ASSUME TypeOK, Slots, NEW l \in Labels, UNCHANGED slots,
         pollables' = [pollables EXCEPT ![l] = NoObj],
         pc # "regen", pc' # "regen",
         regen_pollfds' \in BOOLEAN, regen_pollfds => regen_pollfds',
         usurped \subseteq usurped', abandoned \subseteq abandoned',
         regen_pollfds' \/ pollables[l] \in Plugins \cup abandoned'
  PROVE  Slots'
<1> USE ClassSets DEF slots, HasSlot, Has, Placed, KeepsEvents
<1>1. \A k \in Labels : pollables'[k] = IF k = l THEN NoObj ELSE pollables[k]
  BY DEF TypeOK
<1>2. SlotOwned'
  BY <1>1 DEF Slots, SlotOwned, Owns
<1>3. SlotsLive'
  <2> SUFFICES ASSUME NEW i \in DOMAIN allpollfds
               PROVE  /\ allpollfds[i].obj \notin Plugins
                      /\ ~regen_pollfds' =>
                           allpollfds[i].obj \in Registered' \cup abandoned'
    BY DEF SlotsLive
  <2>1. allpollfds[i].obj \notin Plugins
    BY DEF Slots, SlotsLive
  <2>2. ASSUME ~regen_pollfds' PROVE allpollfds[i].obj \in Registered' \cup abandoned'
    <3>1. allpollfds[i].obj \in Registered \cup abandoned
      BY <2>2 DEF Slots, SlotsLive, TypeOK
    <3>2. CASE allpollfds[i].obj = pollables[l]
      BY <2>1, <2>2, <3>2
    <3>3. CASE allpollfds[i].obj # pollables[l]
      BY <1>1, <3>1, <3>3 DEF Registered
    <3> QED
      BY <3>2, <3>3
  <2> QED
    BY <2>1, <2>2
<1>4. SocketsPlaced'
  BY <1>1 DEF Slots, SocketsPlaced, TypeOK
<1>5. Armed'
  BY <1>1 DEF Slots, Armed
<1>6. InSync'
  BY <1>1 DEF Slots, InSync
<1> QED
  BY <1>2, <1>3, <1>4, <1>5, <1>6 DEF Slots

\* A constructor: the new object has no slot yet and a rebuild is asked for.
LEMMA FreshSlots ==
  ASSUME TypeOK, Slots, NEW l \in Labels, NEW o \in Objects, NEW w \in BOOLEAN,
         o \notin Registered, Fresh(o, w), w => o \notin Devices,
         pollables' = [pollables EXCEPT ![l] = o],
         pc # "regen", pc' # "regen", regen_pollfds' = TRUE,
         usurped \subseteq usurped'
  PROVE  Slots'
<1> USE ClassSets DEF HasSlot, Has, Placed, KeepsEvents
<1>1. /\ \A k \in Labels : pollables'[k] = IF k = l THEN o ELSE pollables[k]
      /\ \A k \in Labels : Has(k) => pollables[k] # o /\ pollables[k] \in Objects
  BY DEF TypeOK, Registered
<1>2. \A x \in Objects :
        /\ indexInPollFD'[x] = IF x = o THEN -1 ELSE indexInPollFD[x]
        /\ events'[x] = IF x = o THEN w ELSE events[x]
        /\ outputBuffer'[x] = IF x = o THEN IF w THEN "queued" ELSE "empty"
                              ELSE outputBuffer[x]
  BY DEF Fresh, TypeOK
<1>3. allpollfds' = allpollfds
  BY DEF Fresh
<1>o. o # NoObj /\ ~(-1 >= 0)
  BY PollableAssumption
<1>4. SlotOwned'
  BY <1>1, <1>2, <1>3, <1>o DEF Slots, SlotOwned, Owns
<1>5. SlotsLive'
  BY <1>3 DEF Slots, SlotsLive
<1>6. SocketsPlaced'
  BY DEF SocketsPlaced
<1>7. Armed'
  BY <1>1, <1>2, <1>3, <1>o DEF Slots, Armed
<1>8. InSync'
  BY <1>1, <1>2, <1>3, <1>o, PollableAssumption DEF Slots, InSync
<1> QED
  BY <1>4, <1>5, <1>6, <1>7, <1>8 DEF Slots

(***************************************************************************)
(* An object sets POLLOUT to be in its pollfd and to bs in its slot;       *)
(* sockets set both alike, and devices are made to only if clients have    *)
(* used their label for a connection's.                                    *)
(***************************************************************************)
LEMMA OwnUpdate ==
  ASSUME TypeOK, Registry, Slots, NEW l \in Labels, Has(l),
         pollables[l] \in Devices => l \in usurped,
         NEW be \in BOOLEAN, NEW bs \in BOOLEAN, NEW ob \in {"empty", "queued", "failed"},
         pollables[l] \in Sockets => be = bs,
         ob = "queued" /\ pollables[l] \in Sockets => be,
         outputBuffer' = [outputBuffer EXCEPT ![pollables[l]] = ob],
         events' = [events EXCEPT ![pollables[l]] = be],
         allpollfds' = WithOut(allpollfds, indexInPollFD[pollables[l]], bs),
         UNCHANGED <<pollables, indexInPollFD, misuse>>,
         pc # "regen", pc' # "regen",
         regen_pollfds' \in BOOLEAN, regen_pollfds => regen_pollfds'
  PROVE  Slots'
<1> DEFINE o == pollables[l]
<1> USE ClassSets DEF HasSlot, Has, Placed, KeepsEvents, misuse
<1>1. o \in Objects /\ indexInPollFD[o] \in Int /\ allpollfds \in Seq(Slot)
  BY DEF TypeOK
<1>2. /\ DOMAIN allpollfds' = DOMAIN allpollfds
      /\ \A j \in DOMAIN allpollfds :
           /\ allpollfds'[j].obj = allpollfds[j].obj
           /\ j # indexInPollFD[o] + 1 => allpollfds'[j].out = allpollfds[j].out
      /\ indexInPollFD[o] + 1 \in DOMAIN allpollfds => allpollfds'[indexInPollFD[o] + 1].out = bs
  BY <1>1, WithOutSlots
<1>3. \A x \in Objects :
        /\ events'[x] = IF x = o THEN be ELSE events[x]
        /\ outputBuffer'[x] = IF x = o THEN ob ELSE outputBuffer[x]
  BY DEF TypeOK
<1>4. \A k \in Labels : Has(k) => pollables[k] \in Objects /\ (k # l => pollables[k] # o)
  BY DEF Registry, Injective, TypeOK
<1>5. \A k \in Labels : HasSlot(k) => Owns(pollables[k])
  BY DEF Slots, SlotOwned
<1>6. \A k \in Labels : HasSlot(k) /\ k # l =>
        allpollfds'[indexInPollFD[pollables[k]] + 1].out = allpollfds[indexInPollFD[pollables[k]] + 1].out
  <2> SUFFICES ASSUME NEW k \in Labels, HasSlot(k), k # l
               PROVE  allpollfds'[indexInPollFD[pollables[k]] + 1].out
                        = allpollfds[indexInPollFD[pollables[k]] + 1].out
    OBVIOUS
  <2>1. Owns(pollables[k]) /\ pollables[k] # o
    BY <1>4, <1>5
  <2>2. CASE indexInPollFD[o] >= 0
    <3>1. Owns(o)
      BY <1>5, <2>2
    <3> QED
      BY <1>2, <2>1, <3>1 DEF Owns
  <2>3. CASE ~(indexInPollFD[o] >= 0)
    <3>1. indexInPollFD[pollables[k]] # indexInPollFD[o]
      BY <2>3
    <3> QED
      BY <1>1, <1>2, <1>4, <2>1, <3>1 DEF Owns, TypeOK
  <2> QED
    BY <2>2, <2>3
<1>7. HasSlot(l) => allpollfds'[indexInPollFD[o] + 1].out = bs
  BY <1>2, <1>5 DEF Owns
<1>8. SlotOwned'
  BY <1>2, <1>5 DEF SlotOwned, Owns
<1>9. SlotsLive'
  BY <1>2 DEF Slots, SlotsLive, Registered
<1>10. SocketsPlaced'
  BY DEF Slots, SocketsPlaced
<1>11. Armed'
  BY <1>3, <1>4, <1>6, <1>7 DEF Slots, Armed
<1>12. InSync'
  BY <1>3, <1>4, <1>6, <1>7 DEF Slots, InSync
<1> QED
  BY <1>8, <1>9, <1>10, <1>11, <1>12 DEF Slots

LEMMA InitSlots == Init => Slots
<1> SUFFICES ASSUME Init PROVE Slots
  OBVIOUS
<1>1. SlotOwned /\ SocketsPlaced
  BY ClassSets DEF Init, SlotOwned, SocketsPlaced, HasSlot, Has, Placed
<1>2. SlotsLive
  BY DEF Init, SlotsLive
<1>3. Armed /\ InSync
  <2>1. \A o \in Objects : ~events[o] /\ outputBuffer[o] # "queued" /\ ~(indexInPollFD[o] >= 0)
    BY DEF Init
  <2>2. \A l \in Labels : Has(l) => pollables[l] \in Objects
    BY InitType DEF TypeOK, Has
  <2> QED
    BY <2>1, <2>2, ClassSets DEF Armed, InSync, HasSlot, Has
<1> QED
  BY <1>1, <1>2, <1>3 DEF Slots

(***************************************************************************)
(* An iteration of regenFDs that gives n slots to the object under l.      *)
(***************************************************************************)
LEMMA RegenNextSlots ==
  ASSUME TypeOK, Flow, Registry, Slots, RegenNext
  PROVE  Slots'
<1> USE DEF HasSlot, Has, Placed, KeepsEvents
<1>1. PICK l \in Labels :
        /\ IsNext(l) /\ cursor' = l
        /\ \E n \in NumPollFDs(pollables[l]) :
             /\ indexInPollFD' = [indexInPollFD EXCEPT ![pollables[l]] =
                                    IndexFor(Len(allpollfds), n)]
             /\ allpollfds' = allpollfds \o PollFDsOf(pollables[l], n)
  BY DEF RegenNext
<1> DEFINE o == pollables[l]
<1>2. PICK n \in NumPollFDs(o) :
        /\ indexInPollFD' = [indexInPollFD EXCEPT ![o] = IndexFor(Len(allpollfds), n)]
        /\ allpollfds' = allpollfds \o PollFDsOf(o, n)
  BY <1>1
<1>3. /\ n \in Nat /\ o \in Objects
      /\ o \in Plugins => n = 0
      /\ o \in Sockets => n = 1
  <2>1. o \in Objects
    BY <1>1 DEF IsNext, TypeOK
  <2> QED
    BY <2>1, ClassSets, PollableAssumption DEF NumPollFDs
<1>4. /\ Len(allpollfds) \in Nat
      /\ DOMAIN allpollfds = 1..Len(allpollfds)
      /\ DOMAIN allpollfds' = 1..(Len(allpollfds) + n)
      /\ \A i \in 1..Len(allpollfds) : allpollfds'[i] = allpollfds[i]
      /\ \A i \in (Len(allpollfds) + 1)..(Len(allpollfds) + n) :
           allpollfds'[i] = [obj |-> o, out |-> o \notin Devices /\ events[o]]
  BY <1>2, <1>3, AppendBlock
<1>5. /\ pc = "regen" /\ pc' = "regen"
      /\ UNCHANGED <<pollables, events, outputBuffer, regen_pollfds, abandoned, usurped>>
  BY DEF RegenNext, misuse
<1>6. \A k \in Labels : Placed(k)' => (Placed(k) /\ pollables[k] # o /\ k # l) \/ k = l
  <2> SUFFICES ASSUME NEW k \in Labels, Placed(k)', k # l
               PROVE  Placed(k) /\ pollables[k] # o
    OBVIOUS
  <2>1. Has(k) /\ Has(l) /\ k <= l
    BY <1>1, <1>5 DEF IsNext
  <2>2. k <= cursor
    BY <1>1, <2>1, PollableAssumption DEF IsNext, TypeOK, Labels
  <2> QED
    BY <2>1, <2>2 DEF Registry, Injective
<1>7. \A x \in Objects : indexInPollFD'[x] = IF x = o THEN IF n > 0 THEN Len(allpollfds) ELSE -1
                                             ELSE indexInPollFD[x]
  BY <1>2 DEF IndexFor, TypeOK
<1>8. /\ HasSlot(l)' <=> n > 0
      /\ n > 0 => /\ indexInPollFD'[o] + 1 \in DOMAIN allpollfds'
                  /\ allpollfds'[indexInPollFD'[o] + 1]
                       = [obj |-> o, out |-> o \notin Devices /\ events[o]]
  BY <1>1, <1>3, <1>4, <1>5, <1>7, ClassSets DEF IsNext
<1>9. ASSUME NEW k \in Labels, Placed(k), pollables[k] # o, HasSlot(k)'
      PROVE  /\ HasSlot(k) /\ indexInPollFD'[pollables[k]] = indexInPollFD[pollables[k]]
             /\ indexInPollFD[pollables[k]] + 1 \in 1..Len(allpollfds)
             /\ indexInPollFD[pollables[k]] + 1 \in DOMAIN allpollfds'
             /\ allpollfds'[indexInPollFD[pollables[k]] + 1]
                  = allpollfds[indexInPollFD[pollables[k]] + 1]
             /\ allpollfds[indexInPollFD[pollables[k]] + 1].obj = pollables[k]
  <2>1. pollables[k] \in Objects
    BY <1>9 DEF TypeOK
  <2>2. HasSlot(k) /\ indexInPollFD'[pollables[k]] = indexInPollFD[pollables[k]]
    BY <1>5, <1>7, <1>9, <2>1
  <2>3. Owns(pollables[k])
    BY <1>9, <2>2 DEF Slots, SlotOwned
  <2> QED
    BY <1>3, <1>4, <2>2, <2>3 DEF Owns
<1>10. SlotOwned'
  BY <1>5, <1>6, <1>8, <1>9 DEF SlotOwned, Owns
<1>11. SlotsLive'
  <2>1. o \in Registered
    BY <1>1 DEF IsNext, Registered
  <2> SUFFICES ASSUME NEW i \in DOMAIN allpollfds'
               PROVE  /\ allpollfds'[i].obj \notin Plugins
                      /\ ~regen_pollfds' =>
                           allpollfds'[i].obj \in Registered' \cup abandoned'
    BY DEF SlotsLive
  <2>2. CASE i \in 1..Len(allpollfds)
    BY <1>4, <1>5, <2>2 DEF Slots, SlotsLive, Registered
  <2>3. CASE i \notin 1..Len(allpollfds)
    <3>1. i \in (Len(allpollfds) + 1)..(Len(allpollfds) + n) /\ n > 0
      BY <1>3, <1>4, <2>3
    <3> QED
      BY <1>3, <1>4, <1>5, <2>1, <3>1 DEF Registered
  <2> QED
    BY <2>2, <2>3
<1>12. SocketsPlaced'
  <2> SUFFICES ASSUME ~regen_pollfds', NEW k \in Labels, pollables[k] \in Sockets, Placed(k)'
               PROVE  HasSlot(k)'
    BY <1>5 DEF SocketsPlaced
  <2>1. CASE k = l
    BY <1>3, <1>8, <2>1
  <2>2. CASE k # l
    <3>1. Placed(k) /\ pollables[k] # o /\ HasSlot(k)
      BY <1>5, <1>6, <2>2 DEF Slots, SocketsPlaced
    <3> QED
      BY <1>5, <1>7, <3>1 DEF TypeOK
  <2> QED
    BY <2>1, <2>2
<1>13. Armed'
  <2> SUFFICES ASSUME NEW k \in Labels, pollables'[k] \in Sockets
               PROVE  /\ outputBuffer'[pollables'[k]] = "queued" => events'[pollables'[k]]
                      /\ Placed(k)' /\ HasSlot(k)' /\ events'[pollables'[k]] =>
                           allpollfds'[indexInPollFD'[pollables'[k]] + 1].out
    BY DEF Armed
  <2>1. outputBuffer'[pollables'[k]] = "queued" => events'[pollables'[k]]
    BY <1>5 DEF Slots, Armed
  <2>2. ASSUME Placed(k)', HasSlot(k)', events[pollables[k]], k = l
        PROVE  allpollfds'[indexInPollFD'[pollables[k]] + 1].out
    <3>1. o \notin Devices /\ n > 0
      BY <1>3, <1>5, <2>2, ClassSets
    <3> QED
      <4>1. allpollfds'[indexInPollFD'[o] + 1] = [obj |-> o, out |-> o \notin Devices /\ events[o]]
        BY <1>8, <3>1
      <4>2. (o \notin Devices /\ events[o]) = TRUE
        BY <2>2, <3>1
      <4>3. allpollfds'[indexInPollFD'[o] + 1].out = TRUE
        <5> DEFINE b == o \notin Devices /\ events[o]
        <5>1. allpollfds'[indexInPollFD'[o] + 1] = [obj |-> o, out |-> b]
          BY <4>1
        <5>2. b = TRUE
          BY <4>2
        <5> HIDE DEF b
        <5> QED
          BY <5>1, <5>2
      <4> QED
        BY <2>2, <4>3
  <2>3. ASSUME Placed(k)', HasSlot(k)', events[pollables[k]], k # l
        PROVE  allpollfds'[indexInPollFD'[pollables[k]] + 1].out
    BY <1>5, <1>6, <1>9, <2>3, ClassSets DEF Slots, Armed
  <2> QED
    BY <1>5, <2>1, <2>2, <2>3
<1>14. InSync'
  <2> SUFFICES ASSUME ~PollFDErrors
               PROVE  /\ \A k \in Labels : pollables[k] \in Devices /\ k \notin usurped =>
                           ~events[pollables[k]]
                      /\ \A k \in Labels : Placed(k)' /\ HasSlot(k)' /\ KeepsEvents(k) =>
                           allpollfds'[indexInPollFD'[pollables[k]] + 1].out = events[pollables[k]]
    BY <1>5 DEF InSync
  <2>1. \A k \in Labels : pollables[k] \in Devices /\ k \notin usurped => ~events[pollables[k]]
    BY DEF Slots, InSync
  <2>2. ASSUME NEW k \in Labels, Placed(k)', HasSlot(k)', k # l, KeepsEvents(k)
        PROVE  allpollfds'[indexInPollFD'[pollables[k]] + 1].out = events[pollables[k]]
    BY <1>6, <1>9, <2>2 DEF Slots, InSync
  <2>3. ASSUME HasSlot(l)', KeepsEvents(l)
        PROVE  allpollfds'[indexInPollFD'[o] + 1].out = events[o]
    <3>1. events[o] \in BOOLEAN
      BY <1>3 DEF TypeOK
    <3>2. CASE o \in Sockets
      BY <1>8, <2>3, <3>1, <3>2, ClassSets
    <3>3. CASE o \in Devices /\ l \notin usurped
      BY <1>8, <2>1, <2>3, <3>1, <3>3
    <3> QED
      BY <2>3, <3>2, <3>3
  <2> QED
    BY <2>1, <2>2, <2>3
<1> QED
  BY <1>10, <1>11, <1>12, <1>13, <1>14 DEF Slots

(***************************************************************************)
(* The iteration of a device whose getPollFDs fails: the slots it gets are *)
(* its own, and the message to the control connection sets POLLOUT in one  *)
(* slot at most, which is the connection's if it has been placed.          *)
(***************************************************************************)
LEMMA RegenErrorSlots ==
  ASSUME TypeOK, Flow, Registry, Slots, RegenNextError
  PROVE  Slots'
<1> USE DEF HasSlot, Has, Placed, KeepsEvents
<1>1. PICK l \in Labels, n \in 1..MaxFDs :
        LET o   == pollables[l]
            fds == allpollfds \o PollFDsOf(o, n)
            idx == [indexInPollFD EXCEPT ![o] = Len(allpollfds)]
        IN
        /\ IsNext(l) /\ o \in Devices
        /\ cursor' = l
        /\ indexInPollFD' = idx
        /\ IF controlSocketLabel # NoLabel /\ Has(controlSocketLabel)
           THEN LET con == pollables[controlSocketLabel] IN
                /\ outputBuffer' = [outputBuffer EXCEPT ![con] = "queued"]
                /\ events' = [events EXCEPT ![con] = TRUE]
                /\ allpollfds' = WithOut(fds, idx[con], TRUE)
           ELSE allpollfds' = fds /\ UNCHANGED <<outputBuffer, events>>
  BY DEF RegenNextError
<1> DEFINE o   == pollables[l]
           fds == allpollfds \o PollFDsOf(o, n)
           c   == controlSocketLabel
           con == pollables[c]
<1>2. /\ n \in Nat /\ n > 0 /\ o \in Devices /\ o \in Objects /\ o \notin Plugins
      /\ Has(l) /\ cursor' = l
      /\ pc = "regen" /\ pc' = "regen" /\ PollFDErrors
      /\ UNCHANGED <<pollables, regen_pollfds, abandoned, usurped>>
  BY <1>1, PollableAssumption DEF IsNext, RegenNextError, misuse
<1>3. \A k \in Labels : pollables[k] \in Sockets => k # l
  BY <1>2, ClassSets
<1>4. /\ fds \in Seq(Slot)
      /\ Len(allpollfds) \in Nat
      /\ DOMAIN allpollfds = 1..Len(allpollfds)
      /\ DOMAIN fds = 1..(Len(allpollfds) + n)
      /\ \A i \in 1..Len(allpollfds) : fds[i] = allpollfds[i]
      /\ \A i \in (Len(allpollfds) + 1)..(Len(allpollfds) + n) : fds[i].obj = o
  <2>1. /\ fds \in Seq(Slot)
        /\ Len(allpollfds) \in Nat
        /\ DOMAIN allpollfds = 1..Len(allpollfds)
        /\ DOMAIN fds = 1..(Len(allpollfds) + n)
        /\ \A i \in 1..Len(allpollfds) : fds[i] = allpollfds[i]
        /\ \A i \in (Len(allpollfds) + 1)..(Len(allpollfds) + n) :
             fds[i] = [obj |-> o, out |-> o \notin Devices /\ events[o]]
    BY <1>2, AppendBlock
  <2> QED
    BY <2>1
<1>5. \A x \in Objects : indexInPollFD'[x] = IF x = o THEN Len(allpollfds) ELSE indexInPollFD[x]
  BY <1>1 DEF TypeOK
<1>6. /\ DOMAIN allpollfds' = DOMAIN fds
      /\ \A i \in DOMAIN fds : /\ allpollfds'[i].obj = fds[i].obj
                               /\ fds[i].out => allpollfds'[i].out
  <2>1. CASE c # NoLabel /\ Has(c)
    <3> DEFINE i == indexInPollFD'[con]
    <3>1. con \in Objects
      BY <2>1, LabelSets, ClassSets DEF TypeOK
    <3>2. i \in Int
      BY <1>4, <1>5, <3>1 DEF TypeOK
    <3>3. allpollfds' = WithOut(fds, i, TRUE)
      BY <1>1, <2>1
    <3> HIDE DEF fds, i
    <3> QED
      <4>1. fds \in Seq(Slot)
        BY <1>4
      <4>2. /\ DOMAIN allpollfds' = DOMAIN fds
            /\ \A j \in DOMAIN fds :
                 /\ allpollfds'[j].obj = fds[j].obj
                 /\ j # i + 1 => allpollfds'[j].out = fds[j].out
            /\ i + 1 \in DOMAIN fds => allpollfds'[i + 1].out = TRUE
        <5> DEFINE fds2 == WithOut(fds, i, TRUE)
        <5>1. /\ DOMAIN fds2 = DOMAIN fds
              /\ \A j \in DOMAIN fds :
                   /\ fds2[j].obj = fds[j].obj
                   /\ j # i + 1 => fds2[j].out = fds[j].out
              /\ i + 1 \in DOMAIN fds => fds2[i + 1].out = TRUE
          BY <3>2, <4>1, WithOutSlots
        <5> HIDE DEF fds2
        <5>2. allpollfds' = fds2
          BY <3>3 DEF fds2
        <5> QED
          BY <5>1, <5>2
      <4> QED
        BY <4>2
  <2>2. CASE ~(c # NoLabel /\ Has(c))
    BY <1>1, <2>2
  <2> QED
    BY <2>1, <2>2
<1> HIDE DEF fds
<1>7. \A k \in Labels : Placed(k)' /\ k # l => Placed(k) /\ pollables[k] # o
  <2> SUFFICES ASSUME NEW k \in Labels, Placed(k)', k # l
               PROVE  Placed(k) /\ pollables[k] # o
    OBVIOUS
  <2>1. Has(k) /\ k <= l
    BY <1>2
  <2>2. k <= cursor
    BY <1>1, <2>1, PollableAssumption DEF IsNext, TypeOK, Labels
  <2> QED
    BY <1>2, <2>1, <2>2 DEF Registry, Injective
<1>8. indexInPollFD'[o] + 1 \in DOMAIN allpollfds' /\ allpollfds'[indexInPollFD'[o] + 1].obj = o
  <2>1. Len(allpollfds) + 1 \in (Len(allpollfds) + 1)..(Len(allpollfds) + n)
    BY <1>2, <1>4
  <2> QED
    BY <1>2, <1>4, <1>5, <1>6, <2>1
<1>9. ASSUME NEW k \in Labels, Placed(k), pollables[k] # o, HasSlot(k)'
      PROVE  /\ HasSlot(k) /\ indexInPollFD'[pollables[k]] = indexInPollFD[pollables[k]]
             /\ indexInPollFD[pollables[k]] + 1 \in DOMAIN fds
             /\ fds[indexInPollFD[pollables[k]] + 1] = allpollfds[indexInPollFD[pollables[k]] + 1]
             /\ fds[indexInPollFD[pollables[k]] + 1].obj = pollables[k]
  <2>1. pollables[k] \in Objects
    BY <1>9 DEF TypeOK
  <2>2. HasSlot(k) /\ indexInPollFD'[pollables[k]] = indexInPollFD[pollables[k]]
    BY <1>2, <1>5, <1>9, <2>1
  <2>3. Owns(pollables[k])
    BY <1>9, <2>2 DEF Slots, SlotOwned
  <2> QED
    BY <1>2, <1>4, <2>2, <2>3 DEF Owns
<1>10. SlotOwned'
  BY <1>2, <1>6, <1>7, <1>8, <1>9 DEF SlotOwned, Owns
<1>11. SlotsLive'
  <2> SUFFICES ASSUME NEW i \in DOMAIN fds
               PROVE  /\ fds[i].obj \notin Plugins
                      /\ ~regen_pollfds => fds[i].obj \in Registered \cup abandoned
    BY <1>2, <1>6 DEF SlotsLive, Registered
  <2>1. CASE i \in 1..Len(allpollfds)
    BY <1>4, <2>1 DEF Slots, SlotsLive
  <2>2. CASE i \notin 1..Len(allpollfds)
    <3>1. i \in (Len(allpollfds) + 1)..(Len(allpollfds) + n)
      BY <1>2, <1>4, <2>2
    <3> QED
      BY <1>2, <1>4, <3>1 DEF Registered
  <2> QED
    BY <2>1, <2>2
<1>12. SocketsPlaced'
  <2> SUFFICES ASSUME ~regen_pollfds, NEW k \in Labels, pollables[k] \in Sockets, Placed(k)'
               PROVE  HasSlot(k)'
    BY <1>2 DEF SocketsPlaced
  <2>1. Placed(k) /\ pollables[k] # o /\ HasSlot(k) /\ pollables[k] \in Objects
    BY <1>3, <1>7 DEF Slots, SocketsPlaced, TypeOK
  <2> QED
    BY <1>2, <1>5, <2>1
<1>13. Armed'
  <2> SUFFICES ASSUME NEW k \in Labels, pollables[k] \in Sockets
               PROVE  /\ outputBuffer'[pollables[k]] = "queued" => events'[pollables[k]]
                      /\ Placed(k)' /\ HasSlot(k)' /\ events'[pollables[k]] =>
                           allpollfds'[indexInPollFD'[pollables[k]] + 1].out
    BY <1>2 DEF Armed
  <2>0. pollables[k] \in Objects /\ k \in Labels /\ k # l
    BY <1>3, ClassSets DEF TypeOK
  <2>1. CASE c # NoLabel /\ Has(c)
    <3>1. /\ outputBuffer' = [outputBuffer EXCEPT ![con] = "queued"]
          /\ events' = [events EXCEPT ![con] = TRUE]
          /\ allpollfds' = WithOut(fds, indexInPollFD'[con], TRUE)
      BY <1>1, <2>1 DEF fds
    <3>2. /\ outputBuffer'[pollables[k]] = IF pollables[k] = con THEN "queued"
                                           ELSE outputBuffer[pollables[k]]
          /\ events'[pollables[k]] = IF pollables[k] = con THEN TRUE ELSE events[pollables[k]]
      BY <2>0, <3>1 DEF TypeOK
    <3>3. ASSUME Placed(k)', HasSlot(k)', events'[pollables[k]], pollables[k] # con
          PROVE  allpollfds'[indexInPollFD'[pollables[k]] + 1].out
      BY <1>6, <1>7, <1>9, <2>0, <3>2, <3>3 DEF Slots, Armed
    <3>4. ASSUME Placed(k)', HasSlot(k)', pollables[k] = con
          PROVE  allpollfds'[indexInPollFD'[pollables[k]] + 1].out
      <4>1. indexInPollFD'[con] \in Int /\ indexInPollFD'[con] + 1 \in DOMAIN fds
        BY <1>7, <1>9, <2>0, <3>4 DEF TypeOK
      <4> QED
        BY <1>4, <3>1, <3>4, <4>1, WithOutSlots
    <3> QED
      BY <3>2, <3>3, <3>4 DEF Slots, Armed
  <2>2. CASE ~(c # NoLabel /\ Has(c))
    <3>1. UNCHANGED <<outputBuffer, events>>
      BY <1>1, <2>2
    <3> QED
      BY <1>6, <1>7, <1>9, <2>0, <3>1 DEF Slots, Armed
  <2> QED
    BY <2>1, <2>2
<1>14. InSync'
  BY <1>2 DEF InSync
<1> QED
  BY <1>10, <1>11, <1>12, <1>13, <1>14 DEF Slots

LEMMA NextSlots == TypeOK /\ Flow /\ Registry /\ Slots /\ [Next]_vars => Slots'
<1> SUFFICES ASSUME TypeOK, Flow, Registry, Slots, [Next]_vars PROVE Slots'
  OBVIOUS
<1> USE DEF misuse
<1>0. regen_pollfds \in BOOLEAN /\ regen_pollfds' \in BOOLEAN
  BY NextType DEF TypeOK
<1>1. CASE Poll
  <2>1. CASE regen_pollfds
    <3>1. /\ allpollfds' = <<>> /\ cursor' = 0 /\ pc' = "regen"
          /\ UNCHANGED <<pollables, indexInPollFD, events, outputBuffer, usurped>>
      BY <1>1, <2>1 DEF Poll
    <3>2. \A l \in Labels : ~Placed(l)'
      BY <3>1, PollableAssumption DEF Placed, Labels
    <3>3. SlotOwned' /\ SlotsLive' /\ SocketsPlaced'
      BY <3>1, <3>2 DEF SlotOwned, SlotsLive, SocketsPlaced
    <3>4. Armed' /\ InSync'
      BY <3>1, <3>2 DEF Slots, Armed, InSync, Has
    <3> QED
      BY <3>3, <3>4 DEF Slots
  <2>2. CASE ~regen_pollfds
    BY <1>0, <1>1, <2>2, SameSlots DEF Poll, Placed, Has, slots
  <2> QED
    BY <2>1, <2>2
<1>2. CASE RegenNext
  BY <1>2, RegenNextSlots
<1>3. CASE RegenNextError
  BY <1>3, RegenErrorSlots
<1>4. CASE RegenDone
  BY <1>0, <1>4, SameSlots DEF RegenDone, AtEnd, Placed, Has
<1>5. CASE SysPoll
  BY <1>0, <1>5, SameSlots DEF SysPoll, Placed, Has
<1>6. CASE Dispatch
  BY <1>0, <1>6, SameSlots DEF Dispatch, Placed, Has
<1>7. CASE HandlerReturn
  BY <1>0, <1>7, SameSlots DEF HandlerReturn, Placed, Has
<1>8. CASE EndRound
  BY <1>0, <1>8, SameSlots DEF EndRound, Placed, Has
<1>9. CASE DeferralsDone
  BY <1>0, <1>9, SameSlots DEF DeferralsDone, Placed, Has
<1>10. CASE HandlerThrow
  BY <1>0, <1>10, SameSlots DEF HandlerThrow, Placed, Has
<1>11. CASE RequestRegen
  BY <1>0, <1>11, SameSlots DEF RequestRegen, Placed, Has
<1>12. CASE HangUp
  <2>1. Defer(cursor)
    BY <1>12 DEF HangUp, Flow
  <2> QED
    BY <1>0, <1>12, <2>1, SameSlots DEF HangUp, Defer, Placed, Has
<1>13. CASE Deferral
  <2>1. PICK l \in deferred_removes :
          IF Has(l) THEN Erase(l) ELSE UNCHANGED <<pollables, doomed, dtors>>
    BY <1>13 DEF Deferral
  <2>2. /\ l \in Labels /\ regen_pollfds /\ regen_pollfds' = regen_pollfds /\ UNCHANGED slots
        /\ pc = "deferrals" /\ pc' = "deferrals"
    BY <1>13 DEF Deferral, Flow, TypeOK
  <2>u. UNCHANGED <<abandoned, usurped>>
    BY <1>13 DEF Deferral
  <2>3. CASE Has(l)
    BY <2>u, <1>0, <2>1, <2>2, <2>3, EraseSlots DEF Erase
  <2>4. CASE ~Has(l)
    BY <1>0, <2>1, <2>2, <2>u, <2>4, SameSlots DEF Placed, Has
  <2> QED
    BY <2>3, <2>4
<1>14. CASE DestructorRemove
  <2>1. PICK l \in dtors : \/ Has(l) /\ Remove(l)
                           \/ ~Has(l) /\ UNCHANGED <<pollables, regen_pollfds>>
    BY <1>14 DEF DestructorRemove
  <2>2. /\ l \in Labels /\ regen_pollfds /\ UNCHANGED slots /\ ~doing_poll
        /\ pc = "deferrals" /\ pc' = "deferrals"
    BY <1>14 DEF DestructorRemove, Flow, TypeOK
  <2>u. UNCHANGED <<abandoned, usurped>>
    BY <1>14 DEF DestructorRemove
  <2>3. CASE Has(l) /\ Remove(l)
    BY <2>u, <1>0, <2>2, <2>3, EraseSlots DEF Remove, Erase
  <2>4. CASE ~Has(l) /\ UNCHANGED <<pollables, regen_pollfds>>
    BY <1>0, <2>2, <2>u, <2>4, SameSlots DEF Placed, Has
  <2> QED
    BY <2>1, <2>3, <2>4
<1>15. CASE WriteSome
  <2> DEFINE o == pollables[cursor]
  <2>1. PICK outcome \in IF outputBuffer[o] = "empty" THEN {"none"} ELSE {"error", "part", "all"} :
          /\ outputBuffer' = [outputBuffer EXCEPT ![o] =
                                CASE outcome \in {"none", "all"} -> "empty"
                                  [] outcome = "error" -> "failed"
                                  [] OTHER -> outputBuffer[o]]
          /\ events' = [events EXCEPT ![o] = IF StillAsks(outcome) THEN events[o] ELSE FALSE]
          /\ allpollfds' = IF StillAsks(outcome) THEN allpollfds
                           ELSE WithOut(allpollfds, indexInPollFD[o], FALSE)
    BY <1>15 DEF WriteSome
  <2>2. /\ cursor \in Labels /\ Has(cursor) /\ o \in Objects /\ o \notin Devices
        /\ pc = "handler" /\ pc' = "handler"
        /\ UNCHANGED <<pollables, indexInPollFD, regen_pollfds, misuse>>
    BY <1>15 DEF WriteSome, Flow, TypeOK, Has
  <2>3. CASE outcome \in {"none", "error"}
    <3> DEFINE ob == IF outcome = "none" THEN "empty" ELSE "failed"
    <3>1. ~StillAsks(outcome)
      BY <2>3 DEF StillAsks
    <3>2. /\ outputBuffer' = [outputBuffer EXCEPT ![o] = ob]
          /\ events' = [events EXCEPT ![o] = FALSE]
          /\ allpollfds' = WithOut(allpollfds, indexInPollFD[o], FALSE)
          /\ ob \in {"empty", "queued", "failed"} /\ ob # "queued"
      BY <2>1, <2>3, <3>1
    <3> HIDE DEF ob
    <3> QED
      BY <1>0, <2>2, <3>2, OwnUpdate
  <2>4. CASE outcome \in {"part", "all"}
    <3>1. StillAsks(outcome)
      BY <2>4 DEF StillAsks
    <3>2. /\ events' = events /\ allpollfds' = allpollfds
          /\ \A x \in Objects : outputBuffer'[x] = "queued" => outputBuffer[x] = "queued"
      BY <2>1, <2>2, <2>4, <3>1 DEF TypeOK
    <3>3. SlotOwned' /\ SlotsLive' /\ SocketsPlaced'
      BY <2>2, <3>2 DEF Slots, SlotOwned, SlotsLive, SocketsPlaced, Placed, HasSlot, Has,
                        Owns, Registered
    <3>4. Armed'
      BY <2>2, <3>2, ClassSets DEF Slots, Armed, Placed, HasSlot, Has
    <3>5. InSync'
      BY <2>2, <3>2 DEF Slots, InSync, Placed, HasSlot, Has, KeepsEvents
    <3> QED
      BY <3>3, <3>4, <3>5 DEF Slots
  <2> QED
    BY <2>1, <2>3, <2>4
<1>16. ASSUME NEW l \in Labels, NEW o \in Objects, Construct(l, o) PROVE Slots'
  BY <1>16, FreshSlots DEF Construct, Displace, RegenAfterNew, AfterCommandOn
<1>17. ASSUME NEW l \in ConnLabels, NEW o \in Objects, Accept(l, o) PROVE Slots'
  <2>1. PICK w \in BOOLEAN : Fresh(o, w)
    BY <1>17 DEF Accept
  <2> QED
    BY <1>17, <2>1, LabelSets, ClassSets, FreshSlots DEF Accept, Displace, RegenAfterNew
<1>18. ASSUME NEW l \in Labels, HandlerRemove(l) PROVE Slots'
  <2>1. Defer(l) /\ UNCHANGED regen_pollfds
    BY <1>18 DEF HandlerRemove, Flow, Remove
  <2> QED
    BY <1>0, <1>18, <2>1, SameSlots DEF HandlerRemove, Defer, Placed, Has
<1>19. ASSUME NEW l \in Labels, Detach(l) PROVE Slots'
  BY <1>0, <1>19, EraseSlots DEF Detach, Displace, AfterCommandOn
<1>20. ASSUME NEW l \in Labels, QueueSamples(l) PROVE Slots'
  <2>1. PICK b \in BOOLEAN : events' = [events EXCEPT ![pollables[l]] = b]
    BY <1>20 DEF QueueSamples
  <2>2. Has(l) /\ pollables[l] \notin Devices \cup Sockets
    BY <1>20, ClassSets DEF QueueSamples, Has
  <2>3. /\ outputBuffer' = [outputBuffer EXCEPT ![pollables[l]] = "queued"]
        /\ allpollfds' = WithOut(allpollfds, indexInPollFD[pollables[l]], TRUE)
        /\ UNCHANGED <<pollables, indexInPollFD, misuse>>
        /\ pc # "regen" /\ pc' # "regen"
    BY <1>20 DEF QueueSamples
  <2>4. regen_pollfds' \in BOOLEAN /\ (regen_pollfds => regen_pollfds')
    <3>1. regen_pollfds' = regen_pollfds \/ regen_pollfds' = TRUE
      BY <1>20 DEF QueueSamples
    <3>2. regen_pollfds \in BOOLEAN
      BY DEF TypeOK
    <3>3. CASE regen_pollfds' = regen_pollfds
      BY <3>2, <3>3
    <3>4. CASE regen_pollfds' = TRUE
      BY <3>4
    <3> QED
      BY <3>1, <3>3, <3>4
  <2> QED
    BY <1>0, <2>1, <2>2, <2>3, <2>4, OwnUpdate
<1>21. ASSUME NEW l \in ConnLabels, QueueOutput(l) PROVE Slots'
  <2>1. l \in Labels /\ (pollables[l] \in Devices => l \in usurped)
    BY <1>21, LabelSets, ClassSets DEF QueueOutput, Registry, Classes
  <2> QED
    BY <1>0, <1>21, <2>1, OwnUpdate DEF QueueOutput
<1>22. CASE UNCHANGED vars
  BY <1>0, <1>22, SameSlots DEF vars, Placed, Has
<1> QED
  BY <1>1, <1>2, <1>3, <1>4, <1>5, <1>6, <1>7, <1>8, <1>9, <1>10, <1>11, <1>12, <1>13, <1>14,
     <1>15, <1>16, <1>17, <1>18, <1>19, <1>20, <1>21, <1>22
     DEF Next, LoopStep, HandlerStep, Stopped

-----------------------------------------------------------------------------
(***************************************************************************)
(* The three layers together are an invariant of the program.              *)
(***************************************************************************)
THEOREM Inductive == Spec => []IInv
<1>1. Init => IInv
  BY InitType, InitFlow, InitRegistry, InitSlots DEF IInv
<1>2. IInv /\ [Next]_vars => IInv'
  BY NextType, NextFlow, NextRegistry, NextSlots DEF IInv
<1> QED
  BY <1>1, <1>2, PTL DEF Spec

(***************************************************************************)
(* Every index held by a registered object is that of a slot of its own,   *)
(* between rebuilds and, for the objects placed so far, during them.       *)
(***************************************************************************)
THEOREM SlotsOwned == Spec => []SlotOwned
<1>1. IInv => SlotOwned
  BY DEF IInv, Slots
<1> QED
  BY <1>1, Inductive, PTL

(***************************************************************************)
(* poll(2) is never given a slot of a destroyed object, except of one that *)
(* a client's detach has destroyed since the last rebuild, and it always   *)
(* gets a slot of every connection and of the listener (SlotsExact).       *)
(***************************************************************************)
THEOREM PolledExactly == Spec => []SlotsExact
<1>1. IInv => SlotsExact
  BY ClassSets DEF SlotsExact, IInv, Flow, Slots, SlotsLive, SocketsPlaced, NoDeadSlots,
                   NobodyForgotten, Placed, Has
<1> QED
  BY <1>1, Inductive, PTL

(***************************************************************************)
(* Whenever poll(2) is called, a connection with queued output has a slot  *)
(* of its own that asks for POLLOUT: no wakeup is lost.                    *)
(***************************************************************************)
THEOREM OutputIsPolled == Spec => []OutputPolled
<1>1. IInv => OutputPolled
  <2> SUFFICES ASSUME IInv, pc = "sys", NEW l \in ConnLabels, ConnAt(l),
                      outputBuffer[pollables[l]] = "queued"
               PROVE  /\ indexInPollFD[pollables[l]] + 1 \in DOMAIN allpollfds
                      /\ allpollfds[indexInPollFD[pollables[l]] + 1]
                           = [obj |-> pollables[l], out |-> TRUE]
    BY DEF OutputPolled
  <2>1. l \in Labels /\ Placed(l) /\ HasSlot(l)
    BY LabelSets, ClassSets DEF IInv, Flow, Slots, SocketsPlaced, Placed, Has, ConnAt
  <2>2. Owns(pollables[l]) /\ allpollfds[indexInPollFD[pollables[l]] + 1].out
    BY <2>1 DEF IInv, Slots, SlotOwned, Armed, ConnAt
  <2>3. allpollfds[indexInPollFD[pollables[l]] + 1] \in Slot
    BY <2>2, ElementOfSeq, LenProperties DEF IInv, TypeOK, Owns
  <2> QED
    BY <2>2, <2>3 DEF Owns, Slot
<1> QED
  BY <1>1, Inductive, PTL

(***************************************************************************)
(* If getPollFDs does not fail, the slot of a socket, or of a device whose *)
(* label is not a connection's, asks for POLLOUT exactly when the object   *)
(* does (Pollable.cpp:58).                                                 *)
(***************************************************************************)
THEOREM EventsAreInSync ==
  ASSUME ~PollFDErrors
  PROVE  Spec => []EventsInSync
<1>1. IInv => EventsInSync
  BY LabelSets DEF IInv, Slots, InSync, EventsInSync, Placed, HasSlot
<1> QED
  BY <1>1, Inductive, PTL

(***************************************************************************)
(* At the top of a round nothing is registered that was to be removed, and *)
(* the control socket is always that of a connection that stays, if it is  *)
(* not a label that clients have used for something else.                  *)
(***************************************************************************)
THEOREM RemovalsDone == Spec => []RemovedIsGone
<1>1. IInv => RemovedIsGone
  BY DEF IInv, Flow, Registry, DoomedDeferred, RemovedIsGone, NoZombie, Registered, Has
<1> QED
  BY <1>1, Inductive, PTL

(***************************************************************************)
(* The object whose handler is running stays where it is until the handler *)
(* has returned, whatever the handler constructs, removes or detaches,     *)
(* unless a client detaches or opens the label of its own connection.      *)
(***************************************************************************)
THEOREM HandlerObjectKept == Spec => HandlerKeepsObject
<1>1. IInv /\ [Next]_vars =>
        [pc = "handler" /\ pollables'[cursor] # pollables[cursor] => OwnLabelUsed]_vars
  <2> SUFFICES ASSUME IInv, [Next]_vars, pc = "handler"
               PROVE  pollables'[cursor] = pollables[cursor] \/ OwnLabelUsed
    OBVIOUS
  <2> USE DEF IInv, Flow, TypeOK, Has
  <2>1. CASE HangUp
    BY <2>1 DEF HangUp, Defer
  <2>2. ASSUME NEW l \in Labels, NEW o \in Objects, Construct(l, o)
        PROVE  pollables'[cursor] = pollables[cursor] \/ OwnLabelUsed
    BY <2>2 DEF Construct, Displace, OwnLabelUsed
  <2>3. ASSUME NEW l \in ConnLabels, NEW o \in Objects, Accept(l, o)
        PROVE  pollables'[cursor] = pollables[cursor]
    BY <2>3, LabelSets DEF Accept, ListenerAt, Displace
  <2>4. ASSUME NEW l \in Labels, HandlerRemove(l)
        PROVE  pollables'[cursor] = pollables[cursor]
    BY <2>4 DEF HandlerRemove, Remove, Defer
  <2>5. ASSUME NEW l \in Labels, Detach(l)
        PROVE  pollables'[cursor] = pollables[cursor] \/ OwnLabelUsed
    BY <2>5 DEF Detach, Displace, OwnLabelUsed
  <2>6. CASE HandlerReturn \/ HandlerThrow \/ RequestRegen \/ WriteSome
    BY <2>6 DEF HandlerReturn, HandlerThrow, RequestRegen, WriteSome
  <2>7. CASE \/ \E l \in Labels : QueueSamples(l)
             \/ \E l \in ConnLabels : QueueOutput(l)
    BY <2>7 DEF QueueSamples, QueueOutput
  <2>8. CASE UNCHANGED vars
    BY <2>8 DEF vars
  <2> QED
    BY <2>1, <2>2, <2>3, <2>4, <2>5, <2>6, <2>7, <2>8
       DEF Next, LoopStep, HandlerStep, Stopped, Poll, RegenNext, RegenNextError, RegenDone,
           SysPoll, Dispatch, EndRound, Deferral, DestructorRemove, DeferralsDone
<1> QED
  BY <1>1, Inductive, PTL DEF Spec, HandlerKeepsObject
=============================================================================
