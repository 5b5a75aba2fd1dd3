---------------------------- MODULE UbiFetchQueue ----------------------------
(***************************************************************************)
(* The stripe fetch queue of a channel as the code has it: a ring of       *)
(* UBI_FETCH_QUEUE_SIZE entries.  Nothing checks for a full ring: that at  *)
(* most MaxQueued stripes are queued at once is an obligation of the       *)
(* callers, met because every queued stripe has a request waiting for it   *)
(* (FetchHasWaiter in UbiIoChannel).                                       *)
(***************************************************************************)
EXTENDS Integers, Sequences

CONSTANTS
    UBI_FETCH_QUEUE_SIZE,
    Stripe,
    MaxQueued   \* the requests a channel can have outstanding

ASSUME QueueAssumption ==
    /\ UBI_FETCH_QUEUE_SIZE \in Nat \ {0}
    /\ MaxQueued \in Nat /\ MaxQueued < UBI_FETCH_QUEUE_SIZE
    /\ 0 \in Stripe

Index == 0 .. (UBI_FETCH_QUEUE_SIZE - 1)

VARIABLES
    entries, head, tail,  \* ch->stripe_fetch_queue
    out,                  \* what dequeue_stripe returned last
    queued                \* history: stripes enqueued and not dequeued

vars == <<entries, head, tail, out, queued>>

Init == /\ entries = [n \in Index |-> 0] /\ head = 0 /\ tail = 0
        /\ out = <<>> /\ queued = 0

\* Mutants: an index is not wrapped; the mask is one too small.
NotWrapped(n) == n
MaskedShort(n) == n % (UBI_FETCH_QUEUE_SIZE - 1)

\* The size is a power of two: & (UBI_FETCH_QUEUE_SIZE - 1) is the remainder.
Wrapped(n) == n % UBI_FETCH_QUEUE_SIZE

enqueue_stripe(s) ==
    /\ queued < MaxQueued /\ queued' = queued + 1
    /\ entries' = [entries EXCEPT ![tail] = s]
    /\ tail' = Wrapped(tail + 1)
    /\ UNCHANGED <<head, out>>

\* Mutant: the test is made on the next entry.
NextIsTail == Wrapped(head + 1) = tail

stripe_queue_empty == head = tail

\* The poller dequeues only from a queue that is not empty.
dequeue_stripe ==
    /\ ~ stripe_queue_empty /\ queued' = queued - 1
    /\ out' = <<entries[head]>>
    /\ head' = Wrapped(head + 1)
    /\ UNCHANGED <<entries, tail>>

Next == (\E s \in Stripe : enqueue_stripe(s)) \/ dequeue_stripe

Spec == Init /\ [][Next]_vars

----------------------------------------------------------------------------
\* Properties.

\* Every variable has its type.
TypeOK == /\ entries \in [Index -> Stripe] /\ head \in Index /\ tail \in Index
          /\ out \in {<<>>} \cup {<<s>> : s \in Stripe} /\ queued \in 0 .. MaxQueued

\* stripe_queue_empty tells an empty ring from a full one: the distance from head
\* to tail is the number of stripes queued, after any number of wrap-arounds.
DistanceIsLength == (tail - head) % UBI_FETCH_QUEUE_SIZE = queued

Contents == [n \in 1 .. ((tail - head) % UBI_FETCH_QUEUE_SIZE) |->
               entries[(head + n - 1) % UBI_FETCH_QUEUE_SIZE]]

Fifo == INSTANCE FetchFifo WITH queue <- Contents

\* The ring implements a FIFO: dequeue_stripe returns the stripes that were given
\* to enqueue_stripe, each once and in order.
RingIsFifo == Fifo!Spec
=============================================================================
