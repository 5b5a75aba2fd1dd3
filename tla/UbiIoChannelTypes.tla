------------------------- MODULE UbiIoChannelTypes --------------------------
(***************************************************************************)
(* Proofs about UbiIoChannel, for any requests, any sizes and any number   *)
(* of fetch slots: type correctness, and the lemmas on stripes, operations *)
(* and queues that the proofs of the invariant use.                        *)
(***************************************************************************)
EXTENDS UbiIoChannel, TLAPS

\* A block is among the blocks of a stripe exactly when shifting its address
\* gives the stripe's index.
LEMMA StripeArithmetic ==
    ASSUME NEW b \in Nat, NEW s \in Nat
    PROVE  /\ StripeOf(b) \in Nat
           /\ StripeOf(b) = s <=> b \in StripeBlocks(s)
<1>1. stripe_block_count \in Nat \ {0}
    BY ConstantsAssumption, Zenon
<1>2. b \div stripe_block_count = s
        <=> b \in (s * stripe_block_count) .. (s * stripe_block_count + stripe_block_count - 1)
    BY <1>1
<1>3. b \div stripe_block_count \in Nat
    BY <1>1
<1>. QED BY <1>2, <1>3, Zenon DEF StripeOf, StripeBlocks, FirstBlock

\* Different stripes have no block in common.
LEMMA StripesDisjoint ==
    ASSUME NEW s \in Nat, NEW t \in Nat, s # t, NEW b \in Nat, b \in StripeBlocks(s)
    PROVE  b \notin StripeBlocks(t)
BY StripeArithmetic, Zenon

\* A request that starts and ends in the same stripe lies in it.
LEMMA RequestInStripe ==
    ASSUME NEW i \in Io, StartStripe(i) = EndStripe(i), NEW b \in Blocks(i)
    PROVE  b \in Block /\ StripeOf(b) = StartStripe(i)
<1> DEFINE s == StartStripe(i)
           e == i.start + i.num - 1
<1>1. i.start \in Nat /\ i.num \in Nat \ {0} /\ Blocks(i) \subseteq Block
    BY IoAssumption, ConstantsAssumption DEF Block
<1>2. s \in Nat /\ s = StripeOf(i.start) /\ s = StripeOf(e)
    BY <1>1, StripeArithmetic, Zenon DEF StartStripe, EndStripe
<1>3. e \in Nat
    BY <1>1
<1>4. stripe_block_count \in Nat \ {0} /\ FirstBlock(s) \in Nat
    BY <1>2, ConstantsAssumption DEF FirstBlock
<1>5. i.start \in StripeBlocks(s) /\ e \in StripeBlocks(s)
    BY <1>1, <1>2, <1>3, StripeArithmetic, Zenon
<1>6. b \in Nat /\ b \in StripeBlocks(s)
    BY <1>1, <1>3, <1>4, <1>5 DEF StripeBlocks, Blocks
<1>. QED BY <1>1, <1>2, <1>6, StripeArithmetic, Zenon

\* Requests have a stripe.
LEMMA RequestType ==
    ASSUME NEW i \in Io
    PROVE  /\ i.type \in {"READ", "WRITE", "FLUSH"}
           /\ i.start \in Block /\ StartStripe(i) \in Stripe
           /\ Blocks(i) \subseteq Block
BY IoAssumption, StripesFit, Zenon DEF StartStripe

\* Operations in flight and their fields.
LEMMA OpType ==
    /\ \A k \in Slot, s \in Stripe, a \in {"sq", "sub", "ok", "err"} :
         Op("fetch", k, s, a) \in SlotOp /\ Op("stripe_write", k, s, a) \in SlotOp
    /\ \A i \in Io, s \in Stripe, a \in {"sq", "sub", "ok", "err"} :
         Op("image_read", i, s, a) \in IoOp /\ Op("base_io", i, s, a) \in IoOp
<1>1. \A k \in Slot, s \in Stripe, a \in {"sq", "sub", "ok", "err"} :
         Op("fetch", k, s, a) \in SlotOp /\ Op("stripe_write", k, s, a) \in SlotOp
    BY Zenon DEF Op, SlotOp
<1>2. \A i \in Io, s \in Stripe, a \in {"sq", "sub", "ok", "err"} :
         Op("image_read", i, s, a) \in IoOp /\ Op("base_io", i, s, a) \in IoOp
    BY Zenon DEF Op, IoOp
<1>. QED BY <1>1, <1>2, Zenon

\* The fields of an operation.
LEMMA OpFields ==
    ASSUME NEW kind, NEW who, NEW stripe, NEW at
    PROVE  /\ Op(kind, who, stripe, at).kind = kind
           /\ Op(kind, who, stripe, at).who = who
           /\ Op(kind, who, stripe, at).stripe = stripe
           /\ Op(kind, who, stripe, at).at = at
BY Zenon DEF Op

\* Moving an operation on changes only where it is.
LEMMA OpMoved ==
    ASSUME NEW o \in SlotOp \cup IoOp, NEW a \in {"sq", "sub", "ok", "err"}
    PROVE  /\ Moved(o, a).kind = o.kind /\ Moved(o, a).who = o.who
           /\ Moved(o, a).stripe = o.stripe /\ Moved(o, a).at = a
           /\ Moved(o, a) \in SlotOp \cup IoOp
BY Zenon DEF SlotOp, IoOp, Moved

\* Submitting the ring keeps operations what they are.
LEMMA SubmittedType ==
    ASSUME NEW O \in SUBSET (SlotOp \cup IoOp)
    PROVE  Submitted(O) \in SUBSET (SlotOp \cup IoOp)
BY OpMoved DEF Submitted

\* Sequences: the head and the tail of a queue.
LEMMA QueueType ==
    ASSUME NEW S, NEW q \in Seq(S), q # <<>>
    PROVE  /\ Head(q) \in S /\ Tail(q) \in Seq(S)
           /\ Len(q) \in Nat \ {0} /\ Head(q) = q[1]
           /\ Len(Tail(q)) = Len(q) - 1
           /\ \A n \in 1 .. Len(Tail(q)) : n + 1 \in 1 .. Len(q) /\ Tail(q)[n] = q[n + 1]
           /\ \A n \in 1 .. Len(q) : n = 1 \/ (n - 1 \in 1 .. Len(Tail(q)) /\ Tail(q)[n - 1] = q[n])
OBVIOUS

\* Appending to a queue.
LEMMA AppendType ==
    ASSUME NEW S, NEW q \in Seq(S), NEW e \in S
    PROVE  /\ Append(q, e) \in Seq(S) /\ Len(q) \in Nat
           /\ Len(Append(q, e)) = Len(q) + 1
           /\ Append(q, e)[Len(q) + 1] = e
           /\ \A n \in 1 .. Len(q) : Append(q, e)[n] = q[n]
OBVIOUS

\* Every step preserves the types.
LEMMA TypeNext ==
    ASSUME TypeOK, [Next]_vars
    PROVE  TypeOK'
<1> USE DEF stripes, requests, slots, reads, locals, ubi_set_stripe_status
<1>1. ASSUME NEW i \in Io, ubi_submit_request(i) PROVE TypeOK'
  <2>1. StartStripe(i) \in Stripe
    BY RequestType, Zenon
  <2>2. /\ Append(stripe_fetch_queue, StartStripe(i)) \in Seq(Stripe)
        /\ Append(io, i) \in Seq(Io)
    BY <2>1, AppendType, Zenon DEF TypeOK
  <2>3. /\ stripe_fetch_queue' \in Seq(Stripe) /\ io' \in Seq(Io)
        /\ stripe_status' \in [Stripe -> {"NOT_FETCHED", "INFLIGHT", "FAILED", "FETCHED"}]
    BY <1>1, <2>1, <2>2, Zenon DEF TypeOK, ubi_submit_request
  <2>4. phase' \in [Io -> {"new", "queued", "getbuf", "image", "base", "flush",
                          "lost", "ok", "failed"}]
    BY <1>1, Zenon DEF TypeOK, ubi_submit_request
  <2>. QED BY <1>1, <2>3, <2>4, Zenon DEF TypeOK, ubi_submit_request
<1>2. CASE PollBegin
    BY <1>2, Zenon DEF TypeOK, PollBegin
<1>3. CASE ReapEnd
    BY <1>3, Zenon DEF TypeOK, ReapEnd
<1>4. CASE StartEnd
    BY <1>4, Zenon DEF TypeOK, StartEnd
<1>5. CASE ServeStop
    BY <1>5, Zenon DEF TypeOK, ServeStop
<1>6. CASE SubmitRing
  <2>1. ops' = ops \/ ops' = Submitted(ops)
    BY <1>6, Zenon DEF SubmitRing
  <2>2. Submitted(ops) \subseteq SlotOp \cup IoOp
    BY SubmittedType, Zenon DEF TypeOK
  <2>3. ops' \subseteq SlotOp \cup IoOp
    BY <2>1, <2>2, Zenon DEF TypeOK
  <2>4. has_reads' \in Nat
    BY <1>6 DEF TypeOK, SubmitRing
  <2>. QED BY <1>6, <2>3, <2>4, Zenon DEF TypeOK, SubmitRing
<1>7. ASSUME NEW o \in batch, ubi_complete_fetch_stripe(o) PROVE TypeOK'
  <2>1. o.who \in Slot /\ stripe_idx[o.who] \in Stripe
    BY <1>7, Zenon DEF TypeOK, ubi_complete_fetch_stripe, SlotOp, IoOp
  <2>2. Op("stripe_write", o.who, stripe_idx[o.who], "sub") \in SlotOp
    BY <2>1, OpType, Zenon
  <2>3. ops' \subseteq SlotOp \cup IoOp /\ batch' \subseteq SlotOp \cup IoOp
    BY <1>7, <2>2, Zenon DEF TypeOK, ubi_complete_fetch_stripe
  <2>4. /\ stripe_status' \in [Stripe -> {"NOT_FETCHED", "INFLIGHT", "FAILED", "FETCHED"}]
        /\ active' \in [Slot -> BOOLEAN] /\ stripe_headers' = stripe_headers
    BY <1>7, <2>1, Zenon DEF TypeOK, ubi_complete_fetch_stripe, ubi_fail_stripe_fetch
  <2>. QED BY <1>7, <2>3, <2>4, Zenon DEF TypeOK, ubi_complete_fetch_stripe
<1>8. ASSUME NEW o \in batch, ubi_complete_read_from_image(o) PROVE TypeOK'
  <2>1. o.who \in Io
    BY <1>8, Zenon DEF TypeOK, ubi_complete_read_from_image, SlotOp, IoOp
  <2>. QED BY <1>8, <2>1 DEF TypeOK, ubi_complete_read_from_image, ubi_complete_io
<1>9. ASSUME NEW k \in free, ubi_start_fetch_stripe(k) PROVE TypeOK'
  <2>1. Head(stripe_fetch_queue) \in Stripe /\ Tail(stripe_fetch_queue) \in Seq(Stripe)
    BY <1>9, QueueType, Zenon DEF TypeOK, ubi_start_fetch_stripe
  <2>2. k \in Slot
    BY <1>9, Zenon DEF TypeOK
  <2>3. \A a \in {"sub", "sq"} : Op("fetch", k, Head(stripe_fetch_queue), a) \in SlotOp
    BY <2>1, <2>2, OpType, Zenon
  <2>4. Submitted(ops) \subseteq SlotOp \cup IoOp
    BY SubmittedType, Zenon DEF TypeOK
  <2>5. ops' \subseteq SlotOp \cup IoOp
    BY <1>9, <2>3, <2>4 DEF TypeOK, ubi_start_fetch_stripe
  <2>6. /\ stripe_idx' \in [Slot -> Stripe] /\ active' \in [Slot -> BOOLEAN]
        /\ stripe_status' \in [Stripe -> {"NOT_FETCHED", "INFLIGHT", "FAILED", "FETCHED"}]
    BY <1>9, <2>1, <2>2, Zenon DEF TypeOK, ubi_start_fetch_stripe
  <2>7. stripe_fetch_queue' \in Seq(Stripe) /\ free' \subseteq Slot
    BY <1>9, <2>1, <2>2, Zenon DEF TypeOK, ubi_start_fetch_stripe
  <2>. QED BY <1>9, <2>5, <2>6, <2>7, Zenon DEF TypeOK, ubi_start_fetch_stripe
<1>10. ASSUME NEW i \in Io, Dequeue(i) PROVE io' \in Seq(Io)
    BY <1>10, QueueType, Zenon DEF TypeOK, Dequeue
<1>11. ASSUME NEW i \in Io, ServeFailed(i) PROVE TypeOK'
    BY <1>10, <1>11, Zenon DEF TypeOK, ServeFailed
<1>12. ASSUME NEW i \in Io, NEW r \in Int, get_buf_for_read_cb(i, r)
       PROVE  /\ phase' \in [Io -> {"new", "queued", "getbuf", "image", "base", "flush",
                                     "lost", "ok", "failed"}]
              /\ active_reads' \in Int /\ has_reads' \in Nat
              /\ ops' \subseteq SlotOp \cup IoOp
  <2>1. /\ Op("base_io", i, StartStripe(i), "sub") \in IoOp
        /\ Op("image_read", i, StartStripe(i), "sq") \in IoOp
    BY RequestType, OpType, Zenon
  <2>2. active_reads' \in Int
    BY <1>12 DEF TypeOK, get_buf_for_read_cb, ubi_complete_io
  <2>3. phase' \in [Io -> {"new", "queued", "getbuf", "image", "base", "flush",
                          "lost", "ok", "failed"}]
    BY <1>12, Zenon DEF TypeOK, get_buf_for_read_cb, ubi_complete_io
  <2>4. /\ has_reads' = has_reads \/ has_reads' = has_reads + 1
        /\ \/ ops' = ops
           \/ ops' = ops \cup {Op("base_io", i, StartStripe(i), "sub")}
           \/ ops' = ops \cup {Op("image_read", i, StartStripe(i), "sq")}
    BY <1>12, Zenon DEF get_buf_for_read_cb
  <2>5. has_reads' \in Nat /\ ops' \subseteq SlotOp \cup IoOp
    BY <2>1, <2>4 DEF TypeOK
  <2>. QED BY <2>2, <2>3, <2>5, Zenon
<1>13. ASSUME NEW i \in Io, ServeRead(i) PROVE TypeOK'
  <2>1. active_reads + 1 \in Int
    BY DEF TypeOK
  <2>2. CASE get_buf_for_read_cb(i, active_reads + 1)
    BY <1>10, <1>12, <1>13, <2>1, <2>2, Zenon DEF TypeOK, ServeRead
  <2>3. CASE ~ get_buf_for_read_cb(i, active_reads + 1)
    BY <1>10, <1>13, <2>1, <2>3, Zenon DEF TypeOK, ServeRead
  <2>. QED BY <2>2, <2>3, Zenon
<1>14. ASSUME NEW i \in Io, ServeWrite(i) PROVE TypeOK'
  <2>1. Op("base_io", i, StartStripe(i), "sub") \in IoOp
    BY RequestType, OpType, Zenon
  <2>. QED BY <1>10, <1>14, <2>1, Zenon DEF TypeOK, ServeWrite
<1>15. ASSUME NEW i \in Io, ServeFlush(i) PROVE TypeOK'
    BY <1>10, <1>15, ConstantsAssumption, Zenon DEF TypeOK, ServeFlush
<1>16. ASSUME NEW o \in ops, KernelRead(o) PROVE TypeOK'
  <2>1. Moved(o, "ok") \in SlotOp \cup IoOp /\ Moved(o, "err") \in SlotOp \cup IoOp
    BY OpMoved, Zenon DEF TypeOK
  <2>2. ops' \subseteq SlotOp \cup IoOp
    BY <1>16, <2>1, Zenon DEF TypeOK, KernelRead, Finish
  <2>3. ASSUME o.kind = "fetch"
        PROVE  o.who \in Slot /\ o.stripe \in Stripe
    BY <2>3, Zenon DEF TypeOK, SlotOp, IoOp
  <2>4. ASSUME NEW c \in [Offset -> Contents], NEW s \in Stripe
        PROVE  Filled(c, s) \in [Offset -> Contents]
    <3>1. ASSUME NEW d \in Offset, FirstBlock(s) + d < image_block_count
          PROVE  ImageData(FirstBlock(s) + d) \in Contents
      <4>1. FirstBlock(s) \in Nat /\ d \in Nat
        BY ConstantsAssumption DEF FirstBlock, Stripe, Offset
      <4>2. FirstBlock(s) + d \in Block
        BY <3>1, <4>1, ConstantsAssumption DEF Block
      <4>. QED BY <4>2, Zenon DEF Contents
    <3>. QED BY <3>1, Zenon DEF Filled
  <2>5. buf' \in [Slot -> [Offset -> Contents]]
    <3>1. CASE buf' = buf
      BY <3>1, Zenon DEF TypeOK
    <3>2. CASE o.kind = "fetch" /\ buf' = [buf EXCEPT ![o.who] = Filled(@, o.stripe)]
      <4>1. buf[o.who] \in [Offset -> Contents]
        BY <2>3, <3>2, Zenon DEF TypeOK
      <4>2. Filled(buf[o.who], o.stripe) \in [Offset -> Contents]
        BY <2>3, <2>4, <3>2, <4>1, Zenon
      <4>. QED BY <3>2, <4>2, Zenon DEF TypeOK
    <3>. QED BY <1>16, <3>1, <3>2, Zenon DEF KernelRead
  <2>. QED BY <1>16, <2>2, <2>5, Zenon DEF TypeOK, KernelRead
<1>17. ASSUME NEW o \in ops, BaseStripeWrite(o) PROVE TypeOK'
  <2>1. Moved(o, "ok") \in SlotOp \cup IoOp /\ Moved(o, "err") \in SlotOp \cup IoOp
    BY OpMoved DEF TypeOK
  <2>2. ops' \subseteq SlotOp \cup IoOp
    BY <1>17, <2>1, Zenon DEF TypeOK, BaseStripeWrite, Finish
  <2>3. o.who \in Slot /\ o.stripe \in Stripe
    BY <1>17, Zenon DEF TypeOK, BaseStripeWrite, SlotOp, IoOp
  <2>4. ASSUME NEW b \in StripeBlocks(o.stripe)
        PROVE  buf[o.who][b - FirstBlock(o.stripe)] \in Contents
    <3>1. FirstBlock(o.stripe) \in Nat /\ stripe_block_count \in Nat
      BY <2>3, ConstantsAssumption DEF FirstBlock, Stripe
    <3>2. b - FirstBlock(o.stripe) \in Offset
      BY <3>1 DEF StripeBlocks, Offset
    <3>. QED BY <2>3, <3>2, Zenon DEF TypeOK
  <2>5. base' \in [Block -> Contents]
    <3>1. CASE base' = base
      BY <3>1, Zenon DEF TypeOK
    <3>2. CASE base' = [b \in Block |-> IF b \in StripeBlocks(o.stripe)
                          THEN buf[o.who][b - FirstBlock(o.stripe)] ELSE base[b]]
      BY <2>4, <3>2, Zenon DEF TypeOK
    <3>. QED BY <1>17, <3>1, <3>2, Zenon DEF BaseStripeWrite
  <2>. QED BY <1>17, <2>2, <2>5, Zenon DEF TypeOK, BaseStripeWrite
<1>18. ASSUME NEW o \in ops, BaseClientIo(o) PROVE TypeOK'
  <2>1. Moved(o, "ok") \in SlotOp \cup IoOp /\ Moved(o, "err") \in SlotOp \cup IoOp
    BY OpMoved DEF TypeOK
  <2>2. ops' \subseteq SlotOp \cup IoOp
    BY <1>18, <2>1, Zenon DEF TypeOK, BaseClientIo, Finish
  <2>3. o.who \in Contents
    BY <1>18, Zenon DEF TypeOK, BaseClientIo, SlotOp, IoOp, Contents
  <2>4. base' \in [Block -> Contents]
    BY <1>18, <2>3, Zenon DEF TypeOK, BaseClientIo
  <2>. QED BY <1>18, <2>2, <2>4, Zenon DEF TypeOK, BaseClientIo
<1>19. ASSUME NEW o \in ops, write_stripe_io_completion(o) PROVE TypeOK'
  <2>1. /\ stripe_status' \in [Stripe -> {"NOT_FETCHED", "INFLIGHT", "FAILED", "FETCHED"}]
        /\ stripe_headers' \in [Stripe -> {0, 1}] /\ active' \in [Slot -> BOOLEAN]
    BY <1>19, Zenon DEF TypeOK, write_stripe_io_completion
  <2>2. stripes_fetched' \in Nat /\ ops' \subseteq SlotOp \cup IoOp
    BY <1>19 DEF TypeOK, write_stripe_io_completion
  <2>. QED BY <1>19, <2>1, <2>2, Zenon DEF TypeOK, write_stripe_io_completion
<1>20. ASSUME NEW o \in ops, ubi_io_completion_cb(o) PROVE TypeOK'
  <2>1. active_reads' \in Int
    BY <1>20 DEF TypeOK, ubi_io_completion_cb, ubi_complete_io
  <2>. QED BY <1>20, <2>1, Zenon DEF TypeOK, ubi_io_completion_cb, ubi_complete_io
<1>21. ASSUME NEW i \in Io, FlushCompletion(i) PROVE TypeOK'
    BY <1>21, Zenon DEF TypeOK, FlushCompletion
<1>22. ASSUME NEW i \in Io, LateGetBuf(i) PROVE TypeOK'
    BY <1>12, <1>22, Zenon DEF TypeOK, LateGetBuf
<1>23. CASE UNCHANGED vars
    BY <1>23, Zenon DEF TypeOK, vars
<1>. QED
    BY <1>1, <1>2, <1>3, <1>4, <1>5, <1>6, <1>7, <1>8, <1>9, <1>11, <1>13, <1>14, Zenon,
       <1>15, <1>16, <1>17, <1>18, <1>19, <1>20, <1>21, <1>22, <1>23
    DEF Next, Poll, Environment, Completion

\* Who owns an operation follows from its kind.
LEMMA OpOwner ==
    ASSUME NEW o \in SlotOp \cup IoOp
    PROVE  /\ o.who \in Slot <=> o.kind \in {"fetch", "stripe_write"}
           /\ o.who \in Io <=> o.kind \in {"image_read", "base_io"}
           /\ o.who \in Slot \/ o.who \in Io
           /\ o.stripe \in Stripe
BY IoAssumption, Zenon DEF SlotOp, IoOp

\* Submitting the ring only moves operations that were in the submission queue.
LEMMA SubmittedOps ==
    ASSUME NEW O \in SUBSET (SlotOp \cup IoOp), NEW p \in Submitted(O)
    PROVE  \E o \in O : /\ p.kind = o.kind /\ p.who = o.who /\ p.stripe = o.stripe
                        /\ o.at # "sq" => p = o
                        /\ o.at = "sq" => p = Moved(o, "sub") /\ p.at = "sub"
BY OpMoved DEF Submitted

\* What was not in the submission queue is still there after submitting it.
LEMMA OpsSubmitted ==
    ASSUME NEW O \in SUBSET (SlotOp \cup IoOp), NEW o \in O
    PROVE  \E p \in Submitted(O) : p.who = o.who
BY OpMoved DEF Submitted

\* A conjunct is preserved when its variables are.
LEMMA Frames ==
    /\ StripeFetchedOnce /\ UNCHANGED <<stripe_status, stripe_fetch_queue, active, stripe_idx>>
         => StripeFetchedOnce'
    /\ FetchHasWaiter /\ UNCHANGED <<stripe_status, io>> => FetchHasWaiter'
    /\ QueuedIsFetching /\ UNCHANGED <<stripe_status, io>> => QueuedIsFetching'
    /\ QueueInv /\ UNCHANGED <<io, phase>> => QueueInv'
    /\ SpanInv /\ UNCHANGED phase => SpanInv'
    /\ OpsInv /\ UNCHANGED <<ops, phase, active, stripe_idx>> => OpsInv'
    /\ LocalsInv /\ UNCHANGED <<pc, batch, ops, free, active>> => LocalsInv'
    /\ DataInv /\ UNCHANGED <<ops, buf, base, stripe_status>> => DataInv'
<1>1. StripeFetchedOnce /\ UNCHANGED <<stripe_status, stripe_fetch_queue, active, stripe_idx>>
         => StripeFetchedOnce'
    BY DEF StripeFetchedOnce, Queued, Fetching
<1>2. /\ FetchHasWaiter /\ UNCHANGED <<stripe_status, io>> => FetchHasWaiter'
      /\ QueuedIsFetching /\ UNCHANGED <<stripe_status, io>> => QueuedIsFetching'
    BY Zenon DEF FetchHasWaiter, QueuedIsFetching, NeedsFetch
<1>3. /\ QueueInv /\ UNCHANGED <<io, phase>> => QueueInv'
      /\ SpanInv /\ UNCHANGED phase => SpanInv'
    BY Zenon DEF QueueInv, SpanInv
<1>4. OpsInv /\ UNCHANGED <<ops, phase, active, stripe_idx>> => OpsInv'
    BY DEF OpsInv
<1>5. LocalsInv /\ UNCHANGED <<pc, batch, ops, free, active>> => LocalsInv'
    BY Zenon DEF LocalsInv
<1>6. DataInv /\ UNCHANGED <<ops, buf, base, stripe_status>> => DataInv'
    BY Zenon DEF DataInv, OpData, ReadsBase
<1>. QED BY <1>1, <1>2, <1>3, <1>4, <1>5, <1>6, Zenon

\* A stripe being fetched lies in the image.
LEMMA InflightInImage ==
    ASSUME SafeSetting, TypeOK, FetchHasWaiter, NEW b \in Block,
           stripe_status[StripeOf(b)] = "INFLIGHT"
    PROVE  b < image_block_count
<1>1. StripeOf(b) \in Stripe
    BY StripesFit, Zenon
<1>2. PICK n \in 1 .. Len(io) : InImage(io[n]) /\ StartStripe(io[n]) = StripeOf(b)
    BY <1>1, Zenon DEF FetchHasWaiter
<1>3. io[n] \in Io
    BY DEF TypeOK
<1>4. io[n].start \in Block
    BY <1>3, RequestType, Zenon
<1>. QED BY <1>2, <1>4, Zenon DEF SafeSetting, InImage, StartStripe

\* Enqueueing a request.
LEMMA EnqueueQueue ==
    ASSUME TypeOK, QueueInv, NEW i \in Io, phase[i] = "new", io' = Append(io, i),
           phase' = [phase EXCEPT ![i] = "queued"]
    PROVE  /\ QueueInv'
           /\ Len(io) \in Nat /\ Len(io') = Len(io) + 1 /\ io'[Len(io) + 1] = i
           /\ \A n \in 1 .. Len(io) : n \in 1 .. Len(io') /\ io'[n] = io[n] /\ io[n] \in Io
           /\ \A n \in 1 .. Len(io') : n = Len(io) + 1 \/ n \in 1 .. Len(io)
           /\ Len(io) + 1 \in 1 .. Len(io')
<1>1. /\ Len(io) \in Nat /\ Len(io') = Len(io) + 1 /\ io'[Len(io) + 1] = i
      /\ \A n \in 1 .. Len(io) : io'[n] = io[n]
    BY AppendType DEF TypeOK
<1>2. /\ \A n \in 1 .. Len(io') : n = Len(io) + 1 \/ n \in 1 .. Len(io)
      /\ \A n \in 1 .. Len(io) : n \in 1 .. Len(io')
      /\ Len(io) + 1 \in 1 .. Len(io')
    BY <1>1
<1>3. ASSUME NEW n \in 1 .. Len(io) PROVE io[n] \in Io /\ io[n] # i /\ phase'[io[n]] = "queued"
  <2>1. io[n] \in Io
    BY DEF TypeOK
  <2>2. phase[io[n]] = "queued"
    BY Zenon DEF QueueInv
  <2>. QED BY <2>1, <2>2, Zenon DEF TypeOK
<1>4. phase'[i] = "queued"
    BY Zenon DEF TypeOK
<1>5. \A n \in 1 .. Len(io') : phase'[io'[n]] = "queued"
    BY <1>1, <1>2, <1>3, <1>4, Zenon
<1>6. \A m, n \in 1 .. Len(io') : io'[m] = io'[n] => m = n
    BY <1>1, <1>2, <1>3 DEF QueueInv
<1>. QED BY <1>1, <1>2, <1>3, <1>5, <1>6, Zenon DEF QueueInv

\* A request that is not on ch->io changes its phase.
LEMMA QueueInvPhase ==
    ASSUME TypeOK, QueueInv, NEW i \in Io, NEW x, phase' = [phase EXCEPT ![i] = x],
           io' = io, phase[i] # "queued"
    PROVE  QueueInv'
<1>1. ASSUME NEW n \in 1 .. Len(io) PROVE phase'[io[n]] = "queued"
  <2>1. io[n] \in Io
    BY DEF TypeOK
  <2>2. phase[io[n]] = "queued"
    BY Zenon DEF QueueInv
  <2>. QED BY <2>1, <2>2, Zenon DEF TypeOK
<1>2. \A m, n \in 1 .. Len(io) : io[m] = io[n] => m = n
    BY Zenon DEF QueueInv
<1>. QED BY <1>1, <1>2, Zenon DEF QueueInv

\* Dequeuing a request leaves a queue of queued requests.
LEMMA DequeueQueue ==
    ASSUME TypeOK, QueueInv, NEW i \in Io, Dequeue(i)
    PROVE  /\ phase[i] = "queued"
           /\ \A x : phase' = [phase EXCEPT ![i] = x] => QueueInv'
<1> DEFINE T == Tail(io)
<1>1. io \in Seq(Io) /\ io # <<>> /\ i = Head(io) /\ io' = T
    BY Zenon DEF TypeOK, Dequeue
<1>2. /\ Len(io) \in Nat \ {0} /\ i = io[1] /\ Len(T) = Len(io) - 1
      /\ \A n \in 1 .. Len(T) : n + 1 \in 1 .. Len(io) /\ T[n] = io[n + 1]
    BY <1>1, QueueType
<1>3. 1 \in 1 .. Len(io)
    BY <1>2
<1>4. phase[i] = "queued"
    BY <1>2, <1>3, Zenon DEF QueueInv
<1>5. ASSUME NEW x, phase' = [phase EXCEPT ![i] = x] PROVE QueueInv'
  <2>1. \A n \in 1 .. Len(T) : T[n] \in Io /\ T[n] # i /\ phase[T[n]] = "queued"
    <3> SUFFICES ASSUME NEW n \in 1 .. Len(T)
                 PROVE  T[n] \in Io /\ T[n] # i /\ phase[T[n]] = "queued"
      BY Zenon
    <3>1. n \in Nat /\ n + 1 \in 1 .. Len(io) /\ T[n] = io[n + 1] /\ n + 1 # 1
      BY <1>2
    <3>2. io[n + 1] \in Io
      BY <1>1, <3>1
    <3>. QED BY <1>2, <1>3, <3>1, <3>2, Zenon DEF QueueInv
  <2>2. \A n \in 1 .. Len(T) : phase'[T[n]] = "queued"
    BY <1>5, <2>1, Zenon DEF TypeOK
  <2>3. \A m, n \in 1 .. Len(T) : T[m] = T[n] => m = n
    BY <1>2 DEF QueueInv
  <2>. QED BY <1>1, <2>2, <2>3, Zenon DEF QueueInv
<1>. QED BY <1>4, <1>5, Zenon

\* No fetch waits for the request that is dequeued.
LEMMA DequeueFacts ==
    ASSUME TypeOK, FetchHasWaiter, QueuedIsFetching, NEW i \in Io, Dequeue(i),
           UNCHANGED stripe_status
    PROVE  FetchHasWaiter' /\ QueuedIsFetching'
<1> DEFINE T == Tail(io)
<1>1. io \in Seq(Io) /\ io # <<>> /\ i = Head(io) /\ io' = T
    BY Zenon DEF TypeOK, Dequeue
<1>2. /\ Len(io) \in Nat \ {0} /\ i = io[1] /\ Len(T) = Len(io) - 1
      /\ \A n \in 1 .. Len(T) : n + 1 \in 1 .. Len(io) /\ T[n] = io[n + 1]
      /\ \A n \in 1 .. Len(io) : n = 1 \/ (n - 1 \in 1 .. Len(T) /\ T[n - 1] = io[n])
    BY <1>1, QueueType, Zenon
<1>3. FetchHasWaiter'
  <2> SUFFICES ASSUME NEW s \in Stripe, stripe_status[s] = "INFLIGHT"
               PROVE  \E n \in 1 .. Len(T) : InImage(T[n]) /\ StartStripe(T[n]) = s
    BY <1>1, Zenon DEF FetchHasWaiter
  <2>1. PICK n \in 1 .. Len(io) : InImage(io[n]) /\ StartStripe(io[n]) = s
    BY Zenon DEF FetchHasWaiter
  <2>2. n # 1
    BY <1>2, <2>1, Zenon DEF Dequeue, Waits
  <2>. QED BY <1>2, <2>1, <2>2, Zenon
<1>4. QueuedIsFetching'
    BY <1>1, <1>2 DEF QueuedIsFetching, NeedsFetch
<1>. QED BY <1>3, <1>4, Zenon

\* A request that was not refused keeps within its stripe.
LEMMA SpanPhase ==
    ASSUME TypeOK, SpanInv, NEW i \in Io, NEW x, phase' = [phase EXCEPT ![i] = x],
           \/ x = "failed"
           \/ phase[i] \notin {"new", "failed"}
           \/ i.type # "FLUSH" => StartStripe(i) = EndStripe(i)
    PROVE  SpanInv'
<1> SUFFICES ASSUME NEW j \in Io, phase'[j] \notin {"new", "failed"}, j.type # "FLUSH"
             PROVE  StartStripe(j) = EndStripe(j)
    BY Zenon DEF SpanInv
<1>1. CASE j # i
  <2>1. phase'[j] = phase[j]
    BY <1>1, Zenon DEF TypeOK
  <2>. QED BY <2>1, Zenon DEF SpanInv
<1>2. CASE j = i
  <2>1. phase'[i] = x
    BY Zenon DEF TypeOK
  <2>. QED BY <1>2, <2>1, Zenon DEF SpanInv
<1>. QED BY <1>1, <1>2, Zenon

\* A request that is in neither of the two phases has no operation.
LEMMA OpIdle ==
    ASSUME TypeOK, OpsInv, NEW i \in Io, phase[i] \notin {"image", "base"}, NEW o \in ops
    PROVE  o.who # i
<1>1. o \in SlotOp \cup IoOp
    BY Zenon DEF TypeOK
<1>2. o.who \in Io => o.kind \in {"image_read", "base_io"}
    BY <1>1, OpOwner, Zenon
<1>3. /\ o.kind = "image_read" => phase[o.who] = "image"
      /\ o.kind = "base_io" => phase[o.who] = "base"
    BY Zenon DEF OpsInv
<1>. QED BY <1>2, <1>3, Zenon

\* A request without an operation in flight changes phase, or gets its one
\* operation.
LEMMA OpsInvPhase ==
    ASSUME TypeOK, OpsInv, NEW i \in Io, phase[i] \notin {"image", "base"}, NEW x,
           phase' = [phase EXCEPT ![i] = x], UNCHANGED <<active, stripe_idx>>,
           \/ ops' = ops
           \/ /\ x = "base" /\ ops' = ops \cup {Op("base_io", i, StartStripe(i), "sub")}
           \/ /\ x = "image" /\ ops' = ops \cup {Op("image_read", i, StartStripe(i), "sq")}
    PROVE  OpsInv'
<1>1. \A o \in ops : o.who # i
    BY OpIdle
<1>2. i \notin Slot
    BY IoAssumption, Zenon
<1>3. /\ ops \subseteq ops'
      /\ \A p \in ops' : \/ p \in ops
                         \/ /\ p.who = i
                            /\ p.kind = "image_read" => x = "image"
                            /\ p.kind = "base_io" => x = "base" /\ p.at # "sq"
      /\ \A p, q \in ops' : p \notin ops /\ q \notin ops => p = q
  <2>1. CASE ops' = ops
    BY <2>1, Zenon
  <2>2. CASE x = "base" /\ ops' = ops \cup {Op("base_io", i, StartStripe(i), "sub")}
    <3>1. PICK n : n = Op("base_io", i, StartStripe(i), "sub")
      BY Zenon
    <3>2. n.kind = "base_io" /\ n.who = i /\ n.at = "sub"
      BY <3>1, OpFields
    <3>. QED BY <2>2, <3>1, <3>2, Zenon
  <2>3. CASE x = "image" /\ ops' = ops \cup {Op("image_read", i, StartStripe(i), "sq")}
    <3>1. PICK n : n = Op("image_read", i, StartStripe(i), "sq")
      BY Zenon
    <3>2. n.kind = "image_read" /\ n.who = i
      BY <3>1, OpFields
    <3>. QED BY <2>3, <3>1, <3>2, Zenon
  <2>. QED BY <2>1, <2>2, <2>3, Zenon
<1>4. \A o \in ops : phase'[o.who] = phase[o.who]
    BY <1>1 DEF TypeOK
<1>5. phase'[i] = x
    BY Zenon DEF TypeOK
<1>6. \A o, p \in ops' : o.who = p.who => o = p
    BY <1>1, <1>3, Zenon DEF OpsInv
<1>7. \A o \in ops' :
         /\ o.kind = "image_read" => phase'[o.who] = "image"
         /\ o.kind = "base_io" => phase'[o.who] = "base" /\ o.at # "sq"
         /\ o.who \in Slot => /\ active[o.who] /\ o.stripe = stripe_idx[o.who]
                              /\ o.at # "sq"
    BY <1>2, <1>3, <1>4, <1>5 DEF OpsInv
<1>8. \A k \in Slot : active[k] => \E o \in ops' : o.who = k
    BY <1>3, Zenon DEF OpsInv
<1>. QED BY <1>6, <1>7, <1>8, Zenon DEF OpsInv

\* What an operation has read or written is not disturbed.
LEMMA OpDataFrame ==
    ASSUME TypeOK, NEW p \in ops, OpData(p), buf' = buf \/ buf'[p.who] = buf[p.who],
           p.kind = "stripe_write" => \A b \in StripeBlocks(p.stripe) : base'[b] = base[b],
           \A t \in Stripe : stripe_status[t] = "FETCHED" => stripe_status'[t] = "FETCHED"
    PROVE  OpData(p)'
<1>1. p.kind = "base_io" => p.who \in Io /\ ReadsBase(p.who)
    BY OpOwner, Zenon DEF TypeOK, OpData
<1>2. \A i \in Io : ReadsBase(i) => ReadsBase(i)'
    BY RequestType, Zenon DEF ReadsBase
<1>. QED BY <1>1, <1>2, Zenon DEF OpData

\* Operations end, and perhaps new ones begin that have read and written nothing.
LEMMA DataKept ==
    ASSUME TypeOK, DataInv, UNCHANGED <<buf, base>>,
           \A t \in Stripe : stripe_status[t] = "FETCHED" => stripe_status'[t] = "FETCHED",
           \A p \in ops' : p \in ops \/ OpData(p)'
    PROVE  DataInv'
<1> SUFFICES ASSUME NEW p \in ops, p \in ops' PROVE OpData(p)'
    BY Zenon DEF DataInv
<1>. QED BY OpDataFrame, Zenon DEF DataInv

----------------------------------------------------------------------------
\* Lemmas of the refinement proof.

\* The abstract contents have their type.
LEMMA ViewType == TypeOK => View \in [Block -> Contents]
BY Zenon DEF TypeOK, View, Contents

\* The view changes only with the base bdev or when a stripe becomes FETCHED.
LEMMA ViewFrame ==
    ASSUME base' = base,
           \A s \in Stripe : stripe_status'[s] = "FETCHED" <=> stripe_status[s] = "FETCHED"
    PROVE  View' = View
BY StripesFit, Zenon DEF View

\* Nothing changes for the client.
LEMMA AbstractStutter ==
    ASSUME View' = View, IoState' = IoState, result' = result
    PROVE  [VD!Next]_(VD!vars)
BY Zenon DEF VD!vars

\* A request is accepted.
LEMMA AbstractSubmit ==
    ASSUME NEW i \in Io, View' = View, result' = result,
           IoState[i] = "new", IoState' = [IoState EXCEPT ![i] = "pending"]
    PROVE  [VD!Next]_(VD!vars)
BY Zenon DEF VD!Next, VD!Submit

\* A request ends.
LEMMA AbstractEnd ==
    ASSUME NEW i \in Io, View' = View, result' = result,
           \/ /\ IoState' = [IoState EXCEPT ![i] = "ok"]
              /\ IoState[i] = (IF i.type = "FLUSH" THEN "pending" ELSE "effective")
           \/ /\ IoState' = [IoState EXCEPT ![i] = "failed"]
              /\ IoState[i] \in {"new", "pending", "effective"}
    PROVE  [VD!Next]_(VD!vars)
BY Zenon DEF VD!Next, VD!Succeed, VD!Fail

\* A read takes effect.
LEMMA AbstractRead ==
    ASSUME NEW i \in Io, i.type = "READ", View' = View, IoState[i] = "pending",
           IoState' = [IoState EXCEPT ![i] = "effective"],
           result' = [result EXCEPT ![i] = [b \in Blocks(i) |-> View[b]]]
    PROVE  [VD!Next]_(VD!vars)
BY Zenon DEF VD!Next, VD!Read, VD!Blocks, Blocks

\* A write takes effect.
LEMMA AbstractWrite ==
    ASSUME NEW i \in Io, i.type = "WRITE", result' = result, IoState[i] = "pending",
           IoState' = [IoState EXCEPT ![i] = "effective"],
           View' = [b \in Block |-> IF b \in Blocks(i) THEN i ELSE View[b]]
    PROVE  [VD!Next]_(VD!vars)
BY Zenon DEF VD!Next, VD!Write, VD!Blocks, Blocks

\* The abstract state of a request.
StateFor(x, effective) == IF x \in {"new", "ok", "failed"} THEN x
                          ELSE IF effective THEN "effective" ELSE "pending"

\* No request changes its abstract state.
LEMMA StateFrame ==
    ASSUME phase' = phase, \A j \in Io : Effective(j)' <=> Effective(j)
    PROVE  IoState' = IoState
BY Zenon DEF IoState

\* One request changes its abstract state.
LEMMA StateChange ==
    ASSUME TypeOK, NEW i \in Io, NEW x, phase' = [phase EXCEPT ![i] = x],
           \A j \in Io : j # i => (Effective(j)' <=> Effective(j))
    PROVE  /\ IoState[i] = StateFor(phase[i], Effective(i))
           /\ IoState' = [IoState EXCEPT ![i] = StateFor(x, Effective(i)')]
<1>1. phase'[i] = x /\ \A j \in Io : j # i => phase'[j] = phase[j]
    BY Zenon DEF TypeOK
<1>2. IoState = [j \in Io |-> StateFor(phase[j], Effective(j))]
    BY Zenon DEF IoState, StateFor
<1>3. IoState' = [j \in Io |-> StateFor(phase'[j], Effective(j)')]
    BY Zenon DEF IoState, StateFor
<1>4. \A j \in Io : j # i => StateFor(phase'[j], Effective(j)') = StateFor(phase[j], Effective(j))
    BY <1>1, Zenon DEF StateFor
<1>5. IoState[i] = StateFor(phase[i], Effective(i))
    BY <1>2, Zenon
<1>6. ASSUME NEW j \in Io
      PROVE  IoState'[j] = [IoState EXCEPT ![i] = StateFor(x, Effective(i)')][j]
    BY <1>1, <1>2, <1>3, <1>4
<1>. QED BY <1>2, <1>3, <1>5, <1>6, Zenon

\* Effectiveness depends only on the phase of the request and, on the base bdev,
\* on its own finished operation.
LEMMA EffectiveFrame ==
    ASSUME NEW j \in Io, phase'[j] = phase[j],
           phase[j] = "base" => ((\E o \in ops' : o.who = j /\ o.at = "ok")
                                 <=> (\E o \in ops : o.who = j /\ o.at = "ok"))
    PROVE  Effective(j)' <=> Effective(j)
BY Zenon DEF Effective

\* The same when a step touches operations of slots and of image reads only.
LEMMA EffectiveOthers ==
    ASSUME TypeOK, TypeOK', OpsInv, OpsInv', NEW j \in Io, phase'[j] = phase[j],
           \A o \in ops : o.kind = "base_io" /\ o.who = j => o \in ops',
           \A o \in ops' : o.kind = "base_io" /\ o.who = j => o \in ops
    PROVE  Effective(j)' <=> Effective(j)
<1>1. ASSUME NEW o \in ops, o.who = j, phase[j] = "base" PROVE o.kind = "base_io"
    BY <1>1, OpOwner, Zenon DEF OpsInv, TypeOK
<1>2. ASSUME NEW o \in ops', o.who = j, phase[j] = "base" PROVE o.kind = "base_io"
    BY <1>2, OpOwner, Zenon DEF OpsInv, TypeOK
<1>. QED BY <1>1, <1>2, EffectiveFrame, Zenon

\* A request that is being served ends.
LEMMA RequestEnds ==
    ASSUME TypeOK, NEW i \in Io, NEW x \in {"ok", "failed"}, phase' = [phase EXCEPT ![i] = x],
           phase[i] \notin {"new", "ok", "failed"},
           x = "ok" => (Effective(i) <=> i.type # "FLUSH"),
           \A j \in Io : j # i => (Effective(j)' <=> Effective(j)),
           View' = View, result' = result
    PROVE  [VD!Next]_(VD!vars)
<1>1. /\ IoState[i] = StateFor(phase[i], Effective(i))
      /\ IoState' = [IoState EXCEPT ![i] = StateFor(x, Effective(i)')]
    BY StateChange, Zenon
<1>2. StateFor(x, Effective(i)') = x
    BY Zenon DEF StateFor
<1>3. IoState[i] = IF Effective(i) THEN "effective" ELSE "pending"
    BY <1>1, Zenon DEF StateFor
<1>4. CASE x = "ok"
    BY <1>1, <1>2, <1>3, <1>4, AbstractEnd, Zenon
<1>5. CASE x = "failed"
    BY <1>1, <1>2, <1>3, <1>5, AbstractEnd, Zenon
<1>. QED BY <1>4, <1>5, Zenon

\* A request that is being served proceeds, without effect.
LEMMA RequestProceeds ==
    ASSUME TypeOK, NEW i \in Io, NEW x, phase' = [phase EXCEPT ![i] = x],
           phase[i] \notin {"new", "ok", "failed"}, x \notin {"new", "ok", "failed"},
           \A j \in Io : Effective(j)' <=> Effective(j),
           View' = View, result' = result
    PROVE  [VD!Next]_(VD!vars)
<1>1. /\ IoState[i] = StateFor(phase[i], Effective(i))
      /\ IoState' = [IoState EXCEPT ![i] = StateFor(x, Effective(i)')]
    BY StateChange, Zenon
<1>2. StateFor(x, Effective(i)') = StateFor(phase[i], Effective(i))
    BY Zenon DEF StateFor
<1>3. IoState' = IoState
    BY <1>1, <1>2 DEF IoState
<1>. QED BY <1>3, AbstractStutter, Zenon

=============================================================================
