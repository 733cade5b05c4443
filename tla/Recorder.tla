------------------------------ MODULE Recorder ------------------------------
(***************************************************************************)
(* What the recording of a device gives clients that wait for the end of a *)
(* file before they ask for the next: every request gets a file of its     *)
(* own, in the order of the requests; a header and then frames, each newer *)
(* than all those recorded before; and the end of a file is reported       *)
(* exactly when it has all its frames, or when writing it fails.           *)
(*                                                                         *)
(* In two points this is less than commandHelp says (VampAlsaHost.cpp:     *)
(* 349-357), because the code does less: all files have the rate and the   *)
(* number of frames of the first request, whatever later ones ask for; and *)
(* the report goes to the control connection of the moment, if there is    *)
(* one, whoever has asked.  What commandHelp says are the properties       *)
(* FramesAsAsked and IssuerTold of WavFileWriter.                          *)
(***************************************************************************)
EXTENDS Integers, Sequences

CONSTANTS Orders, First, Receivers, MaxTime

VARIABLES
  failing,      \* may writing fail?
  asked,        \* what each request so far has asked for
  recordings,   \* the files, in the order they are begun
  told          \* of each file that has ended, who has been told

promises == <<failing, asked, recordings, told>>

Init ==
  /\ failing \in BOOLEAN
  /\ asked = <<First>> /\ recordings = <<>> /\ told = <<>>

\* A client asks for another file.
Ask ==
  /\ Len(told) = Len(asked)
  /\ \E order \in Orders : asked' = Append(asked, order)
  /\ UNCHANGED <<failing, recordings, told>>

Begin ==
  /\ Len(recordings) < Len(asked)
  /\ recordings' = Append(recordings, [header |-> 0, data |-> <<>>])
  /\ UNCHANGED <<failing, asked, told>>

latest == Len(recordings)
Current == recordings[latest]

\* The header names a rate.
WriteHeader ==
  /\ Len(told) < latest /\ Current.header = 0
  /\ recordings' = [recordings EXCEPT ![latest].header = asked[1].rate]
  /\ UNCHANGED <<failing, asked, told>>

Report == \E c \in Receivers : told' = Append(told, c)

\* Later than every frame recorded so far.
Newer ==
  {t \in 1..MaxTime :
     \A k \in 1..latest : \A i \in DOMAIN recordings[k].data : recordings[k].data[i] < t}

\* Frames are missing between two others only if they were lost on the way.
Record ==
  /\ Len(told) < latest /\ Current.header # 0
  /\ \E n \in 1..(asked[1].frames - Len(Current.data)) :
       /\ \E new \in [1..n -> Newer] :
            /\ \A i, j \in 1..n : i < j => new[i] < new[j]
            /\ recordings' = [recordings EXCEPT ![latest].data = @ \o new]
       /\ IF Len(Current.data) + n = asked[1].frames THEN Report ELSE UNCHANGED told
  /\ UNCHANGED <<failing, asked>>

\* A file that cannot be written ends early, and nobody is told that it did.
CutShort ==
  /\ failing /\ Len(told) < latest
  /\ Report
  /\ UNCHANGED <<failing, asked, recordings>>

Next == Ask \/ Begin \/ WriteHeader \/ Record \/ CutShort

Spec == Init /\ [][Next]_promises
=============================================================================
