--------------------------- MODULE MCUbiChannels ---------------------------
(* Workloads for model checking UbiChannels. *)
EXTENDS UbiChannels, TLC

CONSTANTS c1, c2, s1, s2

Req(id, c, type, s) == [id |-> id, ch |-> c, type |-> type, stripe |-> s]

TwoChannels == {c1, c2}
TwoStripes  == {s1, s2}

\* Both channels write to one stripe; one reads it, and the other writes elsewhere.
Shared == {Req(1, c1, "WRITE", s1), Req(2, c2, "WRITE", s1), Req(3, c2, "READ", s1),
           Req(4, c1, "WRITE", s2)}
=============================================================================
