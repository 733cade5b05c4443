--------------------------- MODULE MCPluginRunner ---------------------------
(***************************************************************************)
(* Small instances for TLC of PluginRunner and of the program it descends  *)
(* from, VampHost, which are checked against the same BlockStream.  A      *)
(* behaviour is one of the first or one of the second: the other program   *)
(* stays as it is.                                                         *)
(***************************************************************************)
EXTENDS PluginRunner

CONSTANT Assignments

\* Half a block, the step of a spectral plugin without preference, is a frame or more.
ASSUME HostAssumption ==
  /\ Assignments \in Nat
  /\ DefaultBlock # 1 /\ \A pref \in Preferred : pref[1] # 1

VARIABLES wish, argv, request, plugin, length, pos, hostbuf, hostBlocks, seen, sound, code

host == <<wish, argv, request, plugin, length, pos, hostbuf, hostBlocks, seen, sound, code>>

Previous == INSTANCE VampHost WITH plugbuf <- hostbuf, blocks <- hostBlocks

\* No preference; block only; overlap of one and of three; a step of no
\* divisor of the block; no overlap; a step longer than the block.
Sizes == {<<0, 0>>, <<3, 0>>, <<3, 2>>, <<4, 1>>, <<5, 3>>, <<3, 3>>, <<2, 3>>}

ServerOnly ==
  /\ wish = [params |-> 0, frames |-> FALSE, named |-> FALSE, output |-> -1, toFile |-> FALSE]
  /\ argv = <<>> /\ plugin = [pref |-> <<0, 0>>, spectral |-> FALSE]

HostOnly == numChan = 2 /\ blockSize = DefaultBlock

InitEither == Init /\ Previous!Init /\ (ServerOnly \/ HostOnly)

NextEither ==
  \/ ServerOnly /\ Next /\ UNCHANGED host
  \/ ~ServerOnly /\ Previous!Next /\ UNCHANGED vars

SpecEither == InitEither /\ [][NextEither]_<<vars, host>>

\* The host does what it was asked for, with all of the file (VampHost).
HostFaithful == Previous!HostFaithful

\* The host, too, feeds its plugin with the windows of its stream (VampHost).
HostImplementsStream == Previous!ImplementsStream
=============================================================================
