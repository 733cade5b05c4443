----------------------------- MODULE MCPollable -----------------------------
(***************************************************************************)
(* Small instances of Pollable for TLC.                                    *)
(***************************************************************************)
EXTENDS Pollable, TLC

\* Objects of one class are interchangeable.
Addresses ==
  Permutations(Devices) \cup Permutations(Plugins)
    \cup Permutations(Writers) \cup Permutations(Sockets)

(***************************************************************************)
(* Two states that differ only in the fields of destroyed objects are the  *)
(* same: nothing reads them before a constructor sets them again.          *)
(***************************************************************************)
LiveFields ==
  <<pollables, allpollfds,
    [o \in Registered |-> <<indexInPollFD[o], events[o], outputBuffer[o]>>],
    deferral, regen_pollfds, doing_poll, controlSocketLabel, pc, cursor, ready,
    dtors, doomed, misuse>>
=============================================================================
