--------------------------- MODULE MCUbiLifecycle ---------------------------
(* Instances of UbiLifecycle for TLC. *)
EXTENDS UbiLifecycle, TLC

Attempt(id, name, b) == [id |-> id, name |-> name, base |-> b]

CONSTANTS b1, b2

\* Two attempts on one base bdev, and one on another with the name of the first.
ThreeDisks == {Attempt(1, "ubi0", b1), Attempt(2, "ubi1", b1), Attempt(3, "ubi0", b2)}

TwoBases == {b1, b2}

\* A request to delete the disk of one name.
OneDeletion == {[id |-> 4, name |-> "ubi0"]}
=============================================================================
