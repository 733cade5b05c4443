--------------------------- MODULE Subscriptions ---------------------------
(***************************************************************************)
(* What receive and receiveAll promise a client (VampAlsaHost::commandHelp *)
(* and runCommand): who gets the output of which plugin.  A connection     *)
(* gets what it has asked for and nothing else, for as long as it and the  *)
(* plugin live; the latest to ask for everything also gets the output of   *)
(* plugins that come later.                                                *)
(*                                                                         *)
(* Clients and plugins are known by their names.  A client that comes      *)
(* takes its name from a plugin, if one has it.  The name of the client    *)
(* that asked for everything outlives it, and serves the next client of    *)
(* that name, until it is noticed that there is none.                      *)
(***************************************************************************)
CONSTANTS Clients, Plugins, Nobody

VARIABLES
  connected,   \* the clients there are
  running,     \* the plugins there are
  wanted,      \* <<client, plugin>>: the client gets the plugin's output
  everything   \* the name of the client that gets the output of plugins to come,
               \* or Nobody

vars == <<connected, running, wanted, everything>>

Init == connected = {} /\ running = {} /\ wanted = {} /\ everything = Nobody

Connect(c) ==
  /\ c \notin connected
  /\ connected' = connected \cup {c}
  /\ running' = running \ {c}
  /\ wanted' = {r \in wanted : r[2] # c}
  /\ UNCHANGED everything

Start(p) ==
  /\ p \notin running
  /\ running' = running \cup {p}
  /\ wanted' = wanted \cup {<<c, p>> : c \in connected \cap {everything}}
  /\ everything' \in {everything} \cup {e \in {Nobody} : everything \notin connected}
  /\ UNCHANGED connected

Receive(c, p) ==
  /\ c \in connected /\ p \in running
  /\ wanted' = wanted \cup {<<c, p>>}
  /\ UNCHANGED <<connected, running, everything>>

ReceiveAll(c) ==
  /\ c \in connected
  /\ wanted' = wanted \cup ({c} \X running)
  /\ everything' = c
  /\ UNCHANGED <<connected, running>>

\* Clients and plugins go, several at a time, and what they were part of with them.
Go(cs, ps) ==
  /\ connected' = connected \ cs
  /\ running' = running \ ps
  /\ wanted' = wanted \cap (connected' \X running')
  /\ UNCHANGED everything

Next ==
  \/ \E c \in Clients : Connect(c) \/ ReceiveAll(c)
  \/ \E p \in Plugins : Start(p) \/ \E c \in Clients : Receive(c, p)
  \/ \E cs \in SUBSET Clients, ps \in SUBSET Plugins : Go(cs, ps)

Spec == Init /\ [][Next]_vars
=============================================================================
