-------------------------- MODULE MCUbiIoChannel ---------------------------
(* Workloads for model checking UbiIoChannel. *)
EXTENDS UbiIoChannel, TLC

Req(id, type, start, num) ==
    [id |-> id, type |-> type, start |-> start, num |-> num]

\* Stripes 0 and 1 (blocks 0-3) are in the image, blocks 4 and 5 are beyond it.
\* Two overlapping writes and a read of stripe 0, and a read of stripe 1.
Overlapping == {Req(1, "WRITE", 0, 1), Req(2, "WRITE", 0, 2), Req(3, "READ", 0, 2),
                Req(4, "READ", 2, 1)}

\* Requests that need stripe 0 and stripe 1, one beyond the image, and a write that
\* spans stripes (which the bdev layer would have split).
Mixed == {Req(1, "WRITE", 1, 1), Req(2, "READ", 0, 2), Req(3, "READ", 4, 1),
          Req(4, "READ", 2, 1), Req(5, "WRITE", 1, 2)}

\* Writes that need stripes 0 and 1, a read of either stripe, and a flush.
Few == {Req(1, "WRITE", 0, 1), Req(2, "WRITE", 2, 1), Req(3, "READ", 2, 1),
        Req(4, "FLUSH", 0, 1), Req(5, "READ", 0, 2)}

\* With an image of three stripes: writes that need stripes 0 and 1, a read of
\* stripe 2, and a flush.
Spread == {Req(1, "WRITE", 0, 1), Req(2, "WRITE", 2, 1), Req(3, "READ", 4, 1),
           Req(4, "FLUSH", 0, 1)}

\* With an image of three blocks: a write beyond its end, in the stripe of a read.
Straddling == {Req(1, "WRITE", 3, 1), Req(2, "READ", 2, 1), Req(3, "READ", 3, 1)}

SlotSymmetry == Permutations(Slot)
=============================================================================
