---------------------------- MODULE BlockStream ----------------------------
(***************************************************************************)
(* What a plugin may rely on, whatever the sizes of the pieces its input   *)
(* arrives in: the n-th block handed to process() is the window of         *)
(* blockSize frames that starts n * stepSize frames into the stream of the *)
(* device, and it is handed over only when all its frames have arrived.    *)
(***************************************************************************)
EXTENDS Integers

VARIABLES
  blockSize, stepSize,   \* fixed when the plugin is loaded
  delivered,             \* frames received from the device
  emitted,               \* blocks handed to the plugin
  window                 \* the frames of the last one, numbered from 1

bsVars == <<blockSize, stepSize, delivered, emitted, window>>

\* The window of block n.
WindowOf(n) == [i \in 0..(blockSize - 1) |-> n * stepSize + i + 1]

Init ==
  /\ blockSize \in Nat \ {0}
  /\ stepSize \in 1..blockSize
  /\ delivered = 0
  /\ emitted = 0
  /\ window = <<>>

Receive ==
  /\ delivered' \in Nat /\ delivered' > delivered
  /\ UNCHANGED <<blockSize, stepSize, emitted, window>>

Emit ==
  /\ emitted * stepSize + blockSize <= delivered
  /\ window' = WindowOf(emitted)
  /\ emitted' = emitted + 1
  /\ UNCHANGED <<blockSize, stepSize, delivered>>

Next == Receive \/ Emit

Spec == Init /\ [][Next]_bsVars
=============================================================================
