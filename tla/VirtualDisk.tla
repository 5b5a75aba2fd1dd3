---------------------------- MODULE VirtualDisk ----------------------------
(***************************************************************************)
(* What a ubi bdev promises to its clients, with no image, no stripes and  *)
(* no base bdev in sight: one array of blocks.  A request takes effect at  *)
(* one instant between its submission and its completion; a request that   *)
(* completes successfully has taken effect; nothing but a write changes    *)
(* the contents.                                                           *)
(***************************************************************************)
EXTENDS Integers

CONSTANTS
    Io,        \* client requests: records with type, start and num
    Block,     \* block addresses of the disk
    Contents   \* what a block may hold

VARIABLES
    disk,      \* block |-> contents
    state,     \* request |-> "new", "pending", "effective", "ok" or "failed"
    result     \* read request |-> the blocks it returned

vars == <<disk, state, result>>

\* The blocks a request addresses.
Blocks(i) == i.start .. (i.start + i.num - 1)

Init ==
    /\ disk \in [Block -> Contents]
    /\ state = [i \in Io |-> "new"]
    /\ result = [i \in Io |-> <<>>]

Submit(i) ==
    /\ state[i] = "new"
    /\ state' = [state EXCEPT ![i] = "pending"]
    /\ UNCHANGED <<disk, result>>

\* A read sees the current contents.
Read(i) ==
    /\ state[i] = "pending" /\ i.type = "READ"
    /\ state' = [state EXCEPT ![i] = "effective"]
    /\ result' = [result EXCEPT ![i] = [b \in Blocks(i) |-> disk[b]]]
    /\ UNCHANGED disk

\* A write replaces the contents of all its blocks at once.
Write(i) ==
    /\ state[i] = "pending" /\ i.type = "WRITE"
    /\ state' = [state EXCEPT ![i] = "effective"]
    /\ disk' = [b \in Block |-> IF b \in Blocks(i) THEN i ELSE disk[b]]
    /\ UNCHANGED result

\* Only a flush, which does not touch the contents, may succeed without having
\* taken effect.
Succeed(i) ==
    /\ state[i] = (IF i.type = "FLUSH" THEN "pending" ELSE "effective")
    /\ state' = [state EXCEPT ![i] = "ok"]
    /\ UNCHANGED <<disk, result>>

\* A failed request may or may not have taken effect.
Fail(i) ==
    /\ state[i] \in {"new", "pending", "effective"}
    /\ state' = [state EXCEPT ![i] = "failed"]
    /\ UNCHANGED <<disk, result>>

Next == \E i \in Io : Submit(i) \/ Read(i) \/ Write(i) \/ Succeed(i) \/ Fail(i)

Spec == Init /\ [][Next]_vars
=============================================================================
