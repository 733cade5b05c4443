----------------------------- MODULE MCProgram -----------------------------
(***************************************************************************)
(* A small instance of Program for TLC.  Program is an instance here, so   *)
(* that the proofs about the host can be extended by those about the       *)
(* process that deletes it.                                                *)
(***************************************************************************)
EXTENDS Integers

CONSTANTS Asked, Faults, DirErrors

VARIABLES
  at, status, mask, installed, terminating, doing_poll, host, registry, fed,
  dangling, destroyed, locked, end, raised, misuse

Process == INSTANCE Program

ASSUME ProgramAssumption ==
  Asked \subseteq Process!Signals /\ Faults \subseteq Process!Signals /\ DirErrors \in BOOLEAN

ProcessSpec == Process!Spec

\* terminate, however it is interrupted, deletes host once.
HostDeletedOnce == Process!HostDeletedOnce

\* After an accepted signal no destructor uses the map that is being destroyed.
RegistrySpared == Process!RegistrySpared

\* An accepted signal ends the program, but for the cases Program names.
SignalEnds == Process!SignalEnds
=============================================================================
