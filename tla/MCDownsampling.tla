--------------------------- MODULE MCDownsampling ---------------------------
(***************************************************************************)
(* Small instances of Downsampling for TLC.                                *)
(***************************************************************************)
EXTENDS Downsampling, TLC

CONSTANTS l1, l2

\* Listeners are alike.
Symmetry == Permutations({l1, l2})

\* All that memory of int16_t may hold.
Shorts == (-MaxShort - 1)..MaxShort
=============================================================================
