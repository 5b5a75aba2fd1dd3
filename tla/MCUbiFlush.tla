----------------------------- MODULE MCUbiFlush -----------------------------
(***************************************************************************)
(* Instances of UbiFlush for TLC.                                          *)
(***************************************************************************)
EXTENDS UbiFlush, TLC

CONSTANTS s1, s2

\* Two stripes, and two flushes that may overlap.
TwoStripes == {s1, s2}
WholeDisk  == {[id |-> 1, range |-> TwoStripes], [id |-> 2, range |-> TwoStripes]}
Ranges     == {[id |-> 1, range |-> TwoStripes], [id |-> 2, range |-> {s1}]}
=============================================================================
