------------------------- MODULE UbiFetchQueueProofs -------------------------
(***************************************************************************)
(* The ring of UbiFetchQueue is a FIFO, for every size of the ring.        *)
(***************************************************************************)
EXTENDS UbiFetchQueue, SequenceTheorems, TLAPS

Inv == TypeOK /\ DistanceIsLength

\* Initially the ring is empty.
LEMMA InvInit == Init => Inv
  BY QueueAssumption DEF Init, Inv, TypeOK, DistanceIsLength, Index

\* The next index is an index.
LEMMA WrappedIndex == \A n \in Nat : Wrapped(n) \in Index
  BY QueueAssumption DEF Wrapped, Index

\* One step of enqueue_stripe or dequeue_stripe moves the distance between head
\* and tail by one, modulo the size of the ring.
LEMMA DistanceNow ==
  ASSUME Inv
  PROVE  /\ queued < MaxQueued => (Wrapped(tail + 1) - head) % UBI_FETCH_QUEUE_SIZE = queued + 1
         /\ queued > 0 => (tail - Wrapped(head + 1)) % UBI_FETCH_QUEUE_SIZE = queued - 1
         /\ queued = 0 <=> head = tail
<1>1. /\ head \in Index /\ tail \in Index /\ queued \in Index
      /\ queued < MaxQueued => queued + 1 < UBI_FETCH_QUEUE_SIZE
  BY QueueAssumption DEF Inv, TypeOK, Index
<1> QED
  <2> DEFINE N == UBI_FETCH_QUEUE_SIZE
  <2>1. /\ N \in Nat \ {0} /\ head \in 0 .. (N - 1) /\ tail \in 0 .. (N - 1)
        /\ queued \in 0 .. (N - 1) /\ (tail - head) % N = queued
    BY <1>1, QueueAssumption, Zenon DEF Inv, DistanceIsLength, Index
  <2> HIDE DEF N
  <2>2. /\ queued + 1 < N => (((tail + 1) % N) - head) % N = queued + 1
        /\ queued > 0 => (tail - ((head + 1) % N)) % N = queued - 1
        /\ queued = 0 <=> head = tail
    <3>1. queued + 1 < N => (((tail + 1) % N) - head) % N = queued + 1
      BY <2>1
    <3>2. queued > 0 => (tail - ((head + 1) % N)) % N = queued - 1
      BY <2>1
    <3>3. queued = 0 <=> head = tail
      BY <2>1
    <3> QED
      BY <3>1, <3>2, <3>3, Zenon
  <2> QED
    BY <1>1, <2>2, Zenon DEF N, Wrapped

\* The invariant is preserved.
LEMMA InvNext == Inv /\ [Next]_vars => Inv'
<1> SUFFICES ASSUME Inv, [Next]_vars PROVE Inv'
  BY Zenon
<1>0. entries \in [Index -> Stripe] /\ head \in Index /\ tail \in Index /\ queued \in 0 .. MaxQueued
  BY Zenon DEF Inv, TypeOK
<1>a. Wrapped(head + 1) \in Index /\ Wrapped(tail + 1) \in Index
  <2>1. head + 1 \in Nat /\ tail + 1 \in Nat
    BY <1>0, QueueAssumption DEF Index
  <2> QED
    BY <2>1, WrappedIndex, Zenon
<1>1. ASSUME NEW s \in Stripe, enqueue_stripe(s) PROVE Inv'
  <2>1. TypeOK'
    BY <1>0, <1>a, <1>1, QueueAssumption DEF Inv, TypeOK, enqueue_stripe
  <2>2. DistanceIsLength'
    BY <1>1, DistanceNow, Zenon DEF enqueue_stripe, DistanceIsLength
  <2> QED
    BY <2>1, <2>2, Zenon DEF Inv
<1>2. CASE dequeue_stripe
  <2>0. queued > 0
    BY <1>0, <1>2, DistanceNow, QueueAssumption DEF dequeue_stripe, stripe_queue_empty
  <2>1. TypeOK'
    BY <1>0, <1>a, <1>2, <2>0, QueueAssumption DEF Inv, TypeOK, dequeue_stripe
  <2>2. DistanceIsLength'
    BY <1>2, <2>0, DistanceNow, Zenon DEF dequeue_stripe, DistanceIsLength
  <2> QED
    BY <2>1, <2>2, Zenon DEF Inv
<1>3. CASE UNCHANGED vars
  BY <1>3, Zenon DEF vars, Inv, TypeOK, DistanceIsLength
<1> QED
  BY <1>1, <1>2, <1>3, Zenon DEF Next

\* The indices of the ring stay within it and its entries are stripes.
THEOREM Types == Spec => []TypeOK
  BY InvInit, InvNext, PTL DEF Spec, Inv

\* The distance between head and tail of the ring is the number of queued stripes.
THEOREM Distances == Spec => []DistanceIsLength
  BY InvInit, InvNext, PTL DEF Spec, Inv

\* The queued entries are not where the next one goes.
LEMMA Slots ==
  ASSUME NEW N \in Nat \ {0}, NEW h \in 0 .. (N - 1), NEW t \in 0 .. (N - 1),
         NEW q \in 0 .. (N - 1), (t - h) % N = q
  PROVE  \A n \in 1 .. q : (h + n - 1) % N \in 0 .. (N - 1) /\ (h + n - 1) % N # t
  OBVIOUS

\* The contents of the ring are a sequence of length queued.
LEMMA ContentsSeq ==
  ASSUME Inv
  PROVE  /\ Contents = [n \in 1 .. queued |-> entries[(head + n - 1) % UBI_FETCH_QUEUE_SIZE]]
         /\ Contents \in Seq(Stripe) /\ Len(Contents) = queued
<1>1. Contents = [n \in 1 .. queued |-> entries[(head + n - 1) % UBI_FETCH_QUEUE_SIZE]]
  BY Zenon DEF Inv, DistanceIsLength, Contents
<1>2. \A n \in 1 .. queued : entries[(head + n - 1) % UBI_FETCH_QUEUE_SIZE] \in Stripe
  <2> TAKE n \in 1 .. queued
  <2>1. head + n - 1 \in Nat /\ entries \in [Index -> Stripe]
    BY QueueAssumption DEF Inv, TypeOK, Index
  <2>2. (head + n - 1) % UBI_FETCH_QUEUE_SIZE \in Index
    BY <2>1, WrappedIndex, Zenon DEF Wrapped
  <2> QED
    BY <2>1, <2>2, Zenon
<1>3. queued \in Nat
  BY QueueAssumption DEF Inv, TypeOK
<1> QED
  BY <1>1, <1>2, <1>3

\* enqueue_stripe appends to the contents.
LEMMA RefineEnqueue ==
  ASSUME Inv, Inv', NEW s \in Stripe, enqueue_stripe(s)
  PROVE  Fifo!Enqueue(s)
<1> DEFINE N == UBI_FETCH_QUEUE_SIZE
<1>0. /\ entries \in [Index -> Stripe] /\ head \in Index /\ tail \in Index
      /\ queued \in Index /\ (tail - head) % N = queued /\ N \in Nat \ {0}
  BY QueueAssumption DEF Inv, TypeOK, DistanceIsLength, Index
<1>s. /\ (head + queued) % N = tail
      /\ \A n \in 1 .. queued : (((head + 1) % N) + n - 1) % N = (head + n) % N
  <2>1. head \in 0 .. (N - 1) /\ tail \in 0 .. (N - 1) /\ queued \in 0 .. (N - 1)
    BY <1>0, Zenon DEF Index
  <2> HIDE DEF N
  <2> QED
    <3>1. (head + queued) % N = tail
      BY <1>0, <2>1
    <3>2. ASSUME NEW n \in 1 .. queued PROVE (((head + 1) % N) + n - 1) % N = (head + n) % N
      BY <1>0, <2>1
    <3> QED
      BY <3>1, <3>2, Zenon
<1>1. Contents' = [n \in 1 .. (queued + 1) |->
                     [entries EXCEPT ![tail] = s][(head + n - 1) % N]]
  BY ContentsSeq, DistanceNow DEF enqueue_stripe, Contents
<1>2. \A n \in 1 .. queued : [entries EXCEPT ![tail] = s][(head + n - 1) % N]
                               = entries[(head + n - 1) % N]
  BY <1>0, Slots, Zenon DEF Index
<1>3. [entries EXCEPT ![tail] = s][(head + (queued + 1) - 1) % N] = s
  <2>1. (head + queued) % N = tail
    BY <1>s, Zenon
  <2>2. head + (queued + 1) - 1 = head + queued
    BY <1>0 DEF Index
  <2> QED
    BY <1>0, <2>1, <2>2, Zenon
<1>4. Contents' = Append(Contents, s)
  <2> HIDE DEF N
  <2>1. /\ queued \in Nat /\ queued' = queued + 1
        /\ Contents \in Seq(Stripe) /\ Len(Contents) = queued
        /\ Contents' \in Seq(Stripe) /\ Len(Contents') = queued + 1
    <3>1. queued \in Nat /\ queued' = queued + 1 /\ queued + 1 \in Nat
      BY <1>0, QueueAssumption DEF Index, enqueue_stripe
    <3>2. \A n \in 1 .. (queued + 1) : Contents'[n] \in Stripe
      <4> TAKE n \in 1 .. (queued + 1)
      <4>1. head + n - 1 \in Nat
        BY <1>0, <3>1 DEF Index
      <4>2. (head + n - 1) % N \in Index
        BY <4>1, WrappedIndex DEF Wrapped, N
      <4> QED
        BY <1>0, <1>1, <4>2, Zenon
    <3>3. Contents' \in Seq(Stripe) /\ Len(Contents') = queued + 1
      BY <1>1, <3>1, <3>2
    <3> QED
      BY <3>1, <3>3, ContentsSeq, Zenon
  <2>2. /\ Append(Contents, s) \in Seq(Stripe) /\ Len(Append(Contents, s)) = queued + 1
        /\ \A n \in 1 .. queued : Append(Contents, s)[n] = Contents[n]
        /\ Append(Contents, s)[queued + 1] = s
    BY <2>1, AppendProperties
  <2>3. \A n \in 1 .. queued : Contents[n] = entries[(head + n - 1) % N]
    BY ContentsSeq DEF N
  <2>4. \A n \in 1 .. (queued + 1) : Contents'[n] = Append(Contents, s)[n]
    BY <1>1, <1>2, <1>3, <2>1, <2>2, <2>3
  <2> QED
    BY <2>1, <2>2, <2>4, SeqEqual, Zenon
<1> QED
  BY <1>4, ContentsSeq, Zenon DEF Fifo!Enqueue, enqueue_stripe

\* dequeue_stripe takes the head off the contents and returns it.
LEMMA RefineDequeue ==
  ASSUME Inv, Inv', dequeue_stripe
  PROVE  Fifo!Dequeue
<1> DEFINE N == UBI_FETCH_QUEUE_SIZE
<1>0. /\ entries \in [Index -> Stripe] /\ head \in Index /\ tail \in Index
      /\ queued \in Index /\ (tail - head) % N = queued /\ N \in Nat \ {0}
  BY QueueAssumption DEF Inv, TypeOK, DistanceIsLength, Index
<1>s. /\ (head + queued) % N = tail
      /\ \A n \in 1 .. queued : (((head + 1) % N) + n - 1) % N = (head + n) % N
  <2>1. head \in 0 .. (N - 1) /\ tail \in 0 .. (N - 1) /\ queued \in 0 .. (N - 1)
    BY <1>0 DEF Index
  <2> HIDE DEF N
  <2> QED
    <3>1. (head + queued) % N = tail
      BY <1>0, <2>1
    <3>2. ASSUME NEW n \in 1 .. queued PROVE (((head + 1) % N) + n - 1) % N = (head + n) % N
      BY <1>0, <2>1
    <3> QED
      BY <3>1, <3>2
<1>1. queued > 0
  BY <1>0, DistanceNow, QueueAssumption DEF dequeue_stripe, stripe_queue_empty, Index
<1>2. Contents' = [n \in 1 .. (queued - 1) |-> entries[(((head + 1) % N) + n - 1) % N]]
  BY <1>1, DistanceNow DEF dequeue_stripe, Contents, Wrapped
<1>3. \A n \in 1 .. (queued - 1) : entries[(((head + 1) % N) + n - 1) % N]
                                   = entries[(head + (n + 1) - 1) % N]
  <2> TAKE n \in 1 .. (queued - 1)
  <2>1. n \in 1 .. queued /\ head + (n + 1) - 1 = head + n
    BY <1>0, QueueAssumption DEF Index
  <2>2. (((head + 1) % N) + n - 1) % N = (head + n) % N
    BY <1>s, <2>1
  <2> QED
    BY <2>1, <2>2
<1>4. entries[head] = Contents[1] /\ Contents # <<>>
  <2>1. (head + 1 - 1) % N = head
    BY <1>0 DEF Index
  <2> QED
    BY <1>0, <1>1, <2>1, ContentsSeq, QueueAssumption DEF Index
<1>5. Contents' = Tail(Contents)
  <2> HIDE DEF N
  <2>1. /\ queued \in Nat /\ queued' = queued - 1
        /\ Contents \in Seq(Stripe) /\ Len(Contents) = queued
        /\ Contents' \in Seq(Stripe) /\ Len(Contents') = queued - 1
    <3>1. queued \in Nat /\ queued' = queued - 1 /\ queued - 1 \in Nat
      BY <1>0, <1>1, QueueAssumption DEF Index, dequeue_stripe
    <3>2. \A n \in 1 .. (queued - 1) : Contents'[n] \in Stripe
      <4> TAKE n \in 1 .. (queued - 1)
      <4>1. (head + 1) % N \in Index
        <5>1. head + 1 \in Nat
          BY <1>0 DEF Index
        <5> QED
          BY <5>1, WrappedIndex DEF Wrapped, N
      <4>2. ((head + 1) % N) + n - 1 \in Nat
        BY <4>1, <3>1 DEF Index
      <4>3. (((head + 1) % N) + n - 1) % N \in Index
        BY <4>2, WrappedIndex DEF Wrapped, N
      <4> QED
        BY <1>0, <1>2, <4>3
    <3>3. Contents' \in Seq(Stripe) /\ Len(Contents') = queued - 1
      BY <1>2, <3>1, <3>2
    <3> QED
      BY <3>1, <3>3, ContentsSeq
  <2>2. /\ Tail(Contents) \in Seq(Stripe) /\ Len(Tail(Contents)) = queued - 1
        /\ \A n \in 1 .. (queued - 1) : Tail(Contents)[n] = Contents[n + 1]
    BY <1>4, <2>1, HeadTailProperties
  <2>3. \A n \in 1 .. queued : Contents[n] = entries[(head + n - 1) % N]
    BY ContentsSeq DEF N
  <2>4. \A n \in 1 .. (queued - 1) : Contents[n + 1] = entries[(head + (n + 1) - 1) % N]
    BY <2>1, <2>3
  <2>5. \A n \in 1 .. (queued - 1) : Contents'[n] = Tail(Contents)[n]
    BY <1>2, <1>3, <2>2, <2>4
  <2> QED
    BY <2>1, <2>2, <2>5, SeqEqual
<1> QED
  BY <1>4, <1>5, ContentsSeq DEF Fifo!Dequeue, dequeue_stripe

\* The ring implements a FIFO: dequeue_stripe returns what enqueue_stripe was
\* given, each stripe once and in order, however often the indices wrap around.
THEOREM RingIsFifoAlways == Spec => RingIsFifo
<1>1. Init => Fifo!Init
  <2> SUFFICES ASSUME Init PROVE Fifo!Init
    OBVIOUS
  <2>1. Contents = <<>> /\ out = <<>>
    BY InvInit, ContentsSeq DEF Init
  <2> QED
    BY <2>1 DEF Fifo!Init
<1>2. Inv /\ Inv' /\ [Next]_vars => [Fifo!Next]_<<Contents, out>>
  <2> SUFFICES ASSUME Inv, Inv', [Next]_vars PROVE [Fifo!Next]_<<Contents, out>>
    OBVIOUS
  <2>1. CASE UNCHANGED vars
    BY <2>1 DEF vars, Contents
  <2> QED
    BY <2>1, RefineEnqueue, RefineDequeue DEF Next, Fifo!Next
<1> QED
  BY <1>1, <1>2, InvInit, InvNext, PTL DEF Spec, RingIsFifo, Fifo!Spec
=============================================================================
