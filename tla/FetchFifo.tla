------------------------------ MODULE FetchFifo ------------------------------
(***************************************************************************)
(* What the rest of the channel expects of the stripe fetch queue: a FIFO  *)
(* of stripes.  Module UbiIoChannel uses it in this form.                  *)
(***************************************************************************)
EXTENDS Integers, Sequences

CONSTANTS Stripe, MaxQueued
VARIABLES queue, out  \* out: the stripe dequeued last, <<>> before the first

Init == queue = <<>> /\ out = <<>>

Enqueue(s) == /\ Len(queue) < MaxQueued
              /\ queue' = Append(queue, s) /\ UNCHANGED out

Dequeue == /\ queue # <<>>
           /\ queue' = Tail(queue) /\ out' = <<Head(queue)>>

Next == (\E s \in Stripe : Enqueue(s)) \/ Dequeue

Spec == Init /\ [][Next]_<<queue, out>>
=============================================================================
