-------------------------- MODULE MCWavFileWriter --------------------------
(***************************************************************************)
(* Small instances of WavFileWriter for TLC.                               *)
(***************************************************************************)
EXTENDS WavFileWriter

CONSTANTS c1, c2

\* The commands come from two connections and differ in all they ask for.
FirstOrder == [by |-> c1, rate |-> 1, frames |-> 3]
OneOrder == {FirstOrder}
TwoOrders == {FirstOrder, [by |-> c2, rate |-> 2, frames |-> 2]}

\* c1 may be the control connection, and may have gone.
SomeReceivers == {c1, Nobody}
=============================================================================
