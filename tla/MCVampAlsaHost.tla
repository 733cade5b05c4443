--------------------------- MODULE MCVampAlsaHost ---------------------------
(***************************************************************************)
(* VampAlsaHost for TLC, with bounds on how much there is at a time.       *)
(***************************************************************************)
EXTENDS VampAlsaHost, FiniteSets

CONSTANTS
  MaxObjects,    \* how many objects are registered
  MaxRemovals    \* how many labels are down for removal

(***************************************************************************)
(* States beyond these bounds are checked, but not what follows them.  All *)
(* is over when the server does not run any more.                          *)
(***************************************************************************)
Few ==
  /\ server = "running"
  /\ Cardinality({l \in Labels : kind[l] # "none"}) <= MaxObjects
  /\ Cardinality(deferred_removes) <= MaxRemovals

(***************************************************************************)
(* What can make a difference: raw listeners that are connections are read *)
(* by no action, and the order of attach by none.  quit changes nothing.   *)
(***************************************************************************)
Acting ==
  IF server = "stopped" THEN <<server>>
  ELSE <<kind, rounds, reader, plugins, [d \in DevLabels |-> rawListeners[d][WavLabel(d)]],
         outputListeners, source, defaultOutputListener, server, notes>>
=============================================================================
