--------------------------- MODULE MCRTLSDRMinder ---------------------------
(***************************************************************************)
(* Small instances of RTLSDRMinder for TLC.                                *)
(***************************************************************************)
EXTENDS RTLSDRMinder

CONSTANTS
  Data,   \* numbers of samples in a segment
  Losses  \* samples lost between two segments

\* Streams of three segments.
AllStreams ==
  {[start |-> [k \in 0..3 |-> CASE k = 0 -> 0
                                [] k = 1 -> d1 + HdrSize
                                [] k = 2 -> d1 + d2 + 2 * HdrSize
                                [] k = 3 -> d1 + d2 + d3 + 3 * HdrSize],
    ts    |-> [k \in 0..3 |-> CASE k = 0 -> 0
                                [] k = 1 -> d1 + g1
                                [] k = 2 -> d1 + g1 + d2 + g2
                                [] k = 3 -> d1 + g1 + d2 + g2 + d3]] :
     d1 \in Data, d2 \in Data, d3 \in Data, g1 \in Losses, g2 \in Losses}
=============================================================================
