------------------------- MODULE UbiIoChannelSteps --------------------------
(***************************************************************************)
(* The steps of UbiIoChannel preserve how fetches run (ControlInv) and what*)
(* the operations in flight hold (DataInv); and in the safe setting every  *)
(* step is one of VirtualDisk, or invisible.                               *)
(***************************************************************************)
EXTENDS UbiIoChannelTypes

----------------------------------------------------------------------------
\* Requests.

\* ubi_submit_request preserves the invariant: it enqueues a stripe, for a request that then
\* waits for it, only when the stripe is in no queue and no slot.
LEMMA ControlSubmit ==
    ASSUME ControlInv, TypeOK', NEW i \in Io, ubi_submit_request(i)
    PROVE  ControlInv'
<1> DEFINE s == StartStripe(i)
           n0 == Len(io) + 1
<1> USE DEF slots, reads, locals, stripes, ubi_set_stripe_status
<1>0. TypeOK /\ TypeOK' /\ OpsInv /\ QueueInv /\ phase[i] = "new"
    BY Zenon DEF ControlInv, ubi_submit_request
<1>1. s \in Stripe
    BY RequestType, Zenon
<1>2. OpsInv'
    BY <1>0, OpsInvPhase, Zenon DEF ubi_submit_request
<1>3. LocalsInv'
    BY Frames, Zenon DEF ControlInv, ubi_submit_request
<1>4. CASE UNCHANGED <<io, stripe_status, stripe_fetch_queue>> /\ phase' = [phase EXCEPT ![i] = "failed"]
  <2>1. QueueInv'
    BY <1>0, <1>4, QueueInvPhase, Zenon
  <2>2. StripeFetchedOnce' /\ FetchHasWaiter' /\ QueuedIsFetching'
    BY <1>4, Frames, Zenon DEF ControlInv, ubi_submit_request
  <2>. QED BY <1>0, <1>2, <1>3, <2>1, <2>2, Zenon DEF ControlInv
<1>5. CASE io' = Append(io, i) /\ phase' = [phase EXCEPT ![i] = "queued"]
  <2>1. /\ QueueInv'
        /\ Len(io) \in Nat /\ Len(io') = n0 /\ io'[n0] = i
        /\ \A n \in 1 .. Len(io) : n \in 1 .. Len(io') /\ io'[n] = io[n] /\ io[n] \in Io
        /\ \A n \in 1 .. Len(io') : n = n0 \/ n \in 1 .. Len(io)
        /\ n0 \in 1 .. Len(io')
    BY <1>0, <1>5, EnqueueQueue, Zenon
  <2>2. CASE ~ NeedsFetch(i)
    <3>1. UNCHANGED <<stripe_status, stripe_fetch_queue, active, stripe_idx>>
      BY <1>5, <2>2, Zenon DEF ubi_submit_request
    <3>2. StripeFetchedOnce'
      BY <3>1, Frames, Zenon DEF ControlInv
    <3>3. FetchHasWaiter'
      BY <2>1, <3>1, Zenon DEF ControlInv, FetchHasWaiter
    <3>4. QueuedIsFetching'
      BY <2>1, <2>2, <3>1, Zenon DEF ControlInv, QueuedIsFetching, NeedsFetch
    <3>. QED BY <1>0, <1>2, <1>3, <2>1, <3>2, <3>3, <3>4, Zenon DEF ControlInv
  <2>3. phase' # [phase EXCEPT ![i] = "failed"]
    BY <1>0, <1>5, Zenon DEF TypeOK
  <2>4. CASE NeedsFetch(i)
    <3>0. stripe_status[s] = "NOT_FETCHED" /\ InImage(i)
      BY <2>4, Zenon DEF NeedsFetch
    <3>1. /\ stripe_status' = [stripe_status EXCEPT ![s] = "INFLIGHT"]
          /\ stripe_fetch_queue' = Append(stripe_fetch_queue, s)
          /\ UNCHANGED <<active, stripe_idx>>
      BY <2>3, <2>4, Zenon DEF ubi_submit_request
    <3>2. /\ \A t \in Stripe : t # s => stripe_status'[t] = stripe_status[t]
          /\ stripe_status'[s] = "INFLIGHT"
      BY <1>0, <1>1, <3>1, Zenon DEF TypeOK
    <3>3. StripeFetchedOnce'
      <4> DEFINE q == stripe_fetch_queue
                 m0 == Len(q) + 1
      <4>1. /\ q' = Append(q, s) /\ q \in Seq(Stripe) /\ Len(q) \in Nat /\ Len(q') = m0
            /\ q'[m0] = s /\ \A n \in 1 .. Len(q) : q'[n] = q[n]
            /\ \A n \in 1 .. Len(q') : n = m0 \/ n \in 1 .. Len(q)
            /\ m0 \in 1 .. Len(q') /\ 1 .. Len(q) \subseteq 1 .. Len(q')
        BY <1>0, <1>1, <3>1, AppendType DEF TypeOK
      <4>2. ~ Queued(s) /\ ~ Fetching(s)
        BY <1>1, <3>0, Zenon DEF ControlInv, StripeFetchedOnce
      <4>3. \A m, n \in 1 .. Len(q') : q'[m] = q'[n] => m = n
        BY <4>1, <4>2 DEF ControlInv, StripeFetchedOnce, Queued
      <4>4. \A t \in Stripe : Queued(t)' <=> Queued(t) \/ t = s
        BY <4>1, Zenon DEF Queued
      <4>5. \A t \in Stripe : Fetching(t)' <=> Fetching(t)
        BY <3>1, Zenon DEF Fetching
      <4>6. \A t \in Stripe : /\ ~ (Queued(t)' /\ Fetching(t)')
                              /\ stripe_status'[t] = "INFLIGHT" <=> Queued(t)' \/ Fetching(t)'
        BY <1>1, <3>2, <4>2, <4>4, <4>5, Zenon DEF ControlInv, StripeFetchedOnce
      <4>. QED BY <3>1, <4>3, <4>6, Zenon DEF ControlInv, StripeFetchedOnce
    <3>4. FetchHasWaiter'
      <4>1. io'[n0] = i /\ n0 \in 1 .. Len(io') /\ InImage(i) /\ StartStripe(i) = s
        BY <2>1, <3>0, Zenon
      <4>2. \A t \in Stripe : stripe_status'[t] = "INFLIGHT" => t = s \/ stripe_status[t] = "INFLIGHT"
        BY <3>2, Zenon
      <4>. QED BY <2>1, <4>1, <4>2, Zenon DEF ControlInv, FetchHasWaiter
    <3>5. QueuedIsFetching'
      <4> SUFFICES ASSUME NEW n \in 1 .. Len(io'), NeedsFetch(io[n])' PROVE FALSE
        BY Zenon DEF QueuedIsFetching
      <4>1. StartStripe(io'[n]) \in Stripe
        BY <2>1, RequestType, Zenon
      <4>2. StartStripe(io'[n]) # s /\ n # n0
        BY <2>1, <3>2, Zenon DEF NeedsFetch
      <4>3. n \in 1 .. Len(io) /\ NeedsFetch(io[n])
        BY <2>1, <3>2, <4>1, <4>2, Zenon DEF NeedsFetch
      <4>. QED BY <4>3, Zenon DEF ControlInv, QueuedIsFetching
    <3>. QED BY <1>0, <1>2, <1>3, <2>1, <3>3, <3>4, <3>5, Zenon DEF ControlInv
  <2>. QED BY <2>2, <2>4, Zenon
<1>. QED BY <1>4, <1>5, Zenon DEF ubi_submit_request

\* io_uring_submit preserves the invariant of the operations.
LEMMA OpsInvSubmitted ==
    ASSUME TypeOK, OpsInv, ops' = Submitted(ops), UNCHANGED <<active, stripe_idx, phase>>
    PROVE  OpsInv'
<1>0. /\ \A o, p \in ops : o.who = p.who => o = p
      /\ \A k \in Slot : active[k] => \E o \in ops : o.who = k
    BY Zenon DEF OpsInv
<1>1. \A p \in ops' : \E o \in ops :
         /\ p.kind = o.kind /\ p.who = o.who /\ p.stripe = o.stripe
         /\ o.at # "sq" => p = o
         /\ o.at = "sq" => p = Moved(o, "sub") /\ p.at = "sub"
    BY SubmittedOps, Zenon DEF TypeOK
<1>2. \A o \in ops : \E p \in ops' : p.who = o.who
    BY OpsSubmitted, Zenon DEF TypeOK
<1>3. ASSUME NEW p \in ops', NEW q \in ops', p.who = q.who PROVE p = q
  <2>1. PICK o \in ops : /\ p.who = o.who
                         /\ o.at # "sq" => p = o
                         /\ o.at = "sq" => p = Moved(o, "sub")
    BY <1>1, Zenon
  <2>2. PICK o2 \in ops : /\ q.who = o2.who
                          /\ o2.at # "sq" => q = o2
                          /\ o2.at = "sq" => q = Moved(o2, "sub")
    BY <1>1, Zenon
  <2>3. o = o2
    BY <1>0, <1>3, <2>1, <2>2, Zenon
  <2>. QED BY <2>1, <2>2, <2>3, Zenon
<1>4. ASSUME NEW p \in ops'
      PROVE  /\ p.kind = "image_read" => phase'[p.who] = "image"
             /\ p.kind = "base_io" => phase'[p.who] = "base" /\ p.at # "sq"
             /\ p.who \in Slot => /\ active'[p.who] /\ p.stripe = stripe_idx'[p.who]
                                  /\ p.at # "sq"
  <2>1. PICK o \in ops : /\ p.kind = o.kind /\ p.who = o.who /\ p.stripe = o.stripe
                         /\ o.at # "sq" => p = o
                         /\ o.at = "sq" => p.at = "sub"
    BY <1>1, Zenon
  <2>2. p.at # "sq"
    BY <2>1, Zenon
  <2>. QED BY <2>1, <2>2, Zenon DEF OpsInv
<1>5. \A k \in Slot : active'[k] => \E o \in ops' : o.who = k
    BY <1>0, <1>2
<1>. QED BY <1>3, <1>4, <1>5, Zenon DEF OpsInv

\* The steps of the poller that only move it on.
LEMMA ControlPoll ==
    ASSUME ControlInv, TypeOK', PollBegin \/ ReapEnd \/ StartEnd \/ ServeStop
    PROVE  ControlInv'
<1> USE DEF stripes, slots, reads, locals, requests
<1>1. UNCHANGED <<stripe_status, stripe_fetch_queue, io, active, stripe_idx, ops, phase>>
    BY Zenon DEF PollBegin, ReapEnd, StartEnd, ServeStop
<1>2. OpsInv' /\ QueueInv' /\ StripeFetchedOnce' /\ FetchHasWaiter' /\ QueuedIsFetching'
    BY <1>1, Frames, Zenon DEF ControlInv
<1>3. LocalsInv'
    BY <1>1, Zenon DEF ControlInv, LocalsInv, PollBegin, ReapEnd, StartEnd, ServeStop
<1>. QED BY <1>2, <1>3, Zenon DEF ControlInv

\* io_uring_submit moves image reads only, since no fetch waits in the queue.
LEMMA ControlSubmitRing ==
    ASSUME ControlInv, TypeOK', SubmitRing
    PROVE  ControlInv'
<1> USE DEF stripes, slots, reads, locals, requests
<1>1. /\ UNCHANGED <<stripe_status, stripe_fetch_queue, io, active, stripe_idx, phase, batch, free>>
      /\ pc = "submit" /\ pc' = "idle" /\ (ops' = ops \/ ops' = Submitted(ops))
    BY Zenon DEF SubmitRing
<1>2. QueueInv' /\ StripeFetchedOnce' /\ FetchHasWaiter' /\ QueuedIsFetching'
    BY <1>1, Frames, Zenon DEF ControlInv
<1>3. LocalsInv'
    BY <1>1, Zenon DEF ControlInv, LocalsInv
<1>4. OpsInv'
    BY <1>1, Frames, OpsInvSubmitted, Zenon DEF ControlInv
<1>. QED BY <1>2, <1>3, <1>4, Zenon DEF ControlInv

\* Taking a request off ch->io preserves the invariant, whatever becomes of it: its stripe is not
\* in flight, and it gets at most one operation.
LEMMA ControlDequeued ==
    ASSUME ControlInv, TypeOK', NEW i \in Io, Dequeue(i), NEW x, phase' = [phase EXCEPT ![i] = x],
           \/ ops' = ops
           \/ /\ x = "base" /\ ops' = ops \cup {Op("base_io", i, StartStripe(i), "sub")}
           \/ /\ x = "image" /\ ops' = ops \cup {Op("image_read", i, StartStripe(i), "sq")},
           UNCHANGED <<stripe_status, stripe_fetch_queue, active, stripe_idx, pc, batch, free>>
    PROVE  ControlInv'
<1>0. TypeOK /\ OpsInv /\ QueueInv /\ FetchHasWaiter /\ QueuedIsFetching
    BY Zenon DEF ControlInv
<1>1. phase[i] = "queued" /\ QueueInv'
    BY <1>0, DequeueQueue, Zenon
<1>2. FetchHasWaiter' /\ QueuedIsFetching'
    BY <1>0, DequeueFacts, Zenon
<1>3. StripeFetchedOnce'
    BY Frames, Zenon DEF ControlInv
<1>4. OpsInv'
    BY <1>0, <1>1, OpsInvPhase, Zenon
<1>5. ops \subseteq ops'
    BY Zenon
<1>6. LocalsInv'
    BY <1>5, Zenon DEF ControlInv, LocalsInv
<1>. QED BY <1>1, <1>2, <1>3, <1>4, <1>6, Zenon DEF ControlInv

\* The callback for a read buffer fails the read or starts it.
LEMMA GetBufCases ==
    ASSUME NEW i \in Io, NEW r, get_buf_for_read_cb(i, r)
    PROVE  \/ phase' = [phase EXCEPT ![i] = "failed"] /\ ops' = ops
           \/ /\ phase' = [phase EXCEPT ![i] = "base"] /\ ReadsBase(i)
              /\ ops' = ops \cup {Op("base_io", i, StartStripe(i), "sub")}
           \/ /\ phase' = [phase EXCEPT ![i] = "image"]
              /\ ops' = ops \cup {Op("image_read", i, StartStripe(i), "sq")}
BY Zenon DEF get_buf_for_read_cb, ubi_complete_io

\* Serving the request at the head of ch->io preserves the invariant.
LEMMA ControlServe ==
    ASSUME ControlInv, TypeOK', NEW i \in Io,
           ServeFailed(i) \/ ServeRead(i) \/ ServeWrite(i) \/ ServeFlush(i)
    PROVE  ControlInv'
<1> USE DEF stripes, slots, reads, locals
<1>1. /\ Dequeue(i)
      /\ UNCHANGED <<stripe_status, stripe_fetch_queue, active, stripe_idx, pc, batch, free>>
    BY Zenon DEF ServeFailed, ServeRead, ServeWrite, ServeFlush
<1>2. CASE ServeFailed(i)
    BY <1>1, <1>2, ControlDequeued, Zenon DEF ServeFailed
<1>3. CASE ServeFlush(i)
  <2>1. /\ ops' = ops
        /\ \E to \in {"ok", "flush", "failed"} : phase' = [phase EXCEPT ![i] = to]
    BY <1>3, Zenon DEF ServeFlush
  <2>. QED BY <1>1, <2>1, ControlDequeued, Zenon
<1>4. CASE ServeWrite(i)
    BY <1>1, <1>4, ControlDequeued, Zenon DEF ServeWrite
<1>5. CASE ServeRead(i)
  <2>1. \/ get_buf_for_read_cb(i, active_reads + 1)
        \/ phase' = [phase EXCEPT ![i] = "getbuf"] /\ ops' = ops
    BY <1>5, Zenon DEF ServeRead
  <2>2. CASE get_buf_for_read_cb(i, active_reads + 1)
    BY <1>1, <2>2, GetBufCases, ControlDequeued, Zenon
  <2>3. CASE phase' = [phase EXCEPT ![i] = "getbuf"] /\ ops' = ops
    BY <1>1, <2>3, ControlDequeued, Zenon
  <2>. QED BY <2>1, <2>2, <2>3, Zenon
<1>. QED BY <1>2, <1>3, <1>4, <1>5, Zenon

\* The operation of a request ends and the request completes.
LEMMA ControlCompleted ==
    ASSUME ControlInv, TypeOK', NEW o \in ops, o.who \in Io, NEW x \in {"ok", "failed"},
           phase' = [phase EXCEPT ![o.who] = x], ops' = ops \ {o},
           UNCHANGED <<stripe_status, stripe_fetch_queue, io, active, stripe_idx, pc, free>>,
           batch' = batch \ {o}
    PROVE  ControlInv'
<1> DEFINE i == o.who
<1>0. TypeOK /\ OpsInv /\ QueueInv
    BY Zenon DEF ControlInv
<1>1. i \in Io /\ i \notin Slot /\ phase[i] \in {"image", "base"}
    BY <1>0, OpOwner, IoAssumption, Zenon DEF TypeOK, OpsInv
<1>2. phase'[i] = x /\ \A j : j # i => phase'[j] = phase[j]
    BY <1>0 DEF TypeOK
<1>3. OpsInv'
  <2>0. \A p, q \in ops : p.who = q.who => p = q
    BY <1>0, Zenon DEF OpsInv
  <2>1. \A p \in ops' : p \in ops /\ p.who # i
    BY <2>0, Zenon
  <2>2. \A l \in Slot : active'[l] => \E p \in ops' : p.who = l
    BY <1>0, <1>1 DEF OpsInv
  <2>3. \A p, q \in ops' : p.who = q.who => p = q
    BY <2>0, <2>1, Zenon
  <2>4. ASSUME NEW p \in ops'
        PROVE  /\ p.kind = "image_read" => phase'[p.who] = "image"
               /\ p.kind = "base_io" => phase'[p.who] = "base" /\ p.at # "sq"
               /\ p.who \in Slot => /\ active[p.who] /\ p.stripe = stripe_idx[p.who]
                                    /\ p.at # "sq"
    <3>1. p \in ops /\ phase'[p.who] = phase[p.who]
      BY <1>2, <2>1, Zenon
    <3>. QED BY <1>0, <3>1, Zenon DEF OpsInv
  <2>. QED BY <2>2, <2>3, <2>4, Zenon DEF OpsInv
<1>4. QueueInv'
    BY <1>0, <1>1, QueueInvPhase, Zenon
<1>5. StripeFetchedOnce' /\ FetchHasWaiter' /\ QueuedIsFetching'
    BY Frames, Zenon DEF ControlInv
<1>6. LocalsInv'
    BY Zenon DEF ControlInv, LocalsInv
<1>. QED BY <1>3, <1>4, <1>5, <1>6, Zenon DEF ControlInv

\* The completion of an image read or of a base bdev I/O preserves the invariant.
LEMMA ControlCompletion ==
    ASSUME ControlInv, TypeOK', NEW o, ubi_complete_read_from_image(o) \/ (o \in ops /\ ubi_io_completion_cb(o))
    PROVE  ControlInv'
<1> USE DEF stripes, slots, reads, locals, requests
<1>1. CASE ubi_complete_read_from_image(o)
  <2>1. o \in ops /\ o.who \in Io
    BY <1>1, OpOwner, Zenon DEF ControlInv, LocalsInv, TypeOK, ubi_complete_read_from_image
  <2>2. \E x \in {"ok", "failed"} : phase' = [phase EXCEPT ![o.who] = x]
    BY <1>1, Zenon DEF ubi_complete_read_from_image, ubi_complete_io
  <2>. QED BY <1>1, <2>1, <2>2, ControlCompleted, Zenon DEF ubi_complete_read_from_image
<1>2. CASE o \in ops /\ ubi_io_completion_cb(o)
  <2>1. o.who \in Io /\ batch' = batch /\ o \notin batch
    BY <1>2, OpOwner, Zenon DEF ControlInv, LocalsInv, Uring, TypeOK, ubi_io_completion_cb
  <2>2. \E x \in {"ok", "failed"} : phase' = [phase EXCEPT ![o.who] = x]
    BY <1>2, Zenon DEF ubi_io_completion_cb, ubi_complete_io
  <2>3. batch' = batch \ {o}
    BY <2>1, Zenon
  <2>. QED BY <1>2, <2>1, <2>2, <2>3, ControlCompleted, Zenon DEF ubi_io_completion_cb
<1>. QED BY <1>1, <1>2, Zenon

\* The completion of a flush, and a read buffer that comes late, preserve the invariant.
LEMMA ControlLate ==
    ASSUME ControlInv, TypeOK', NEW i \in Io, FlushCompletion(i) \/ LateGetBuf(i)
    PROVE  ControlInv'
<1> USE DEF stripes, slots, reads, locals
<1>0. TypeOK /\ OpsInv /\ QueueInv
    BY Zenon DEF ControlInv
<1>1. /\ phase[i] \in {"flush", "getbuf"}
      /\ UNCHANGED <<stripe_status, stripe_fetch_queue, io, active, stripe_idx, pc, batch, free>>
    BY Zenon DEF FlushCompletion, LateGetBuf
<1>2. PICK x : /\ phase' = [phase EXCEPT ![i] = x]
               /\ \/ ops' = ops
                  \/ x = "base" /\ ops' = ops \cup {Op("base_io", i, StartStripe(i), "sub")}
                  \/ x = "image" /\ ops' = ops \cup {Op("image_read", i, StartStripe(i), "sq")}
  <2>1. CASE FlushCompletion(i)
    BY <2>1, Zenon DEF FlushCompletion
  <2>2. CASE LateGetBuf(i)
    BY <2>2, GetBufCases, Zenon DEF LateGetBuf
  <2>. QED BY <2>1, <2>2, Zenon
<1>3. OpsInv'
    BY <1>0, <1>1, <1>2, OpsInvPhase, Zenon
<1>4. QueueInv'
    BY <1>0, <1>1, <1>2, QueueInvPhase, Zenon
<1>5. StripeFetchedOnce' /\ FetchHasWaiter' /\ QueuedIsFetching'
    BY <1>1, Frames, Zenon DEF ControlInv
<1>6. ops \subseteq ops'
    BY <1>2, Zenon
<1>7. LocalsInv'
    BY <1>1, <1>6, Zenon DEF ControlInv, LocalsInv
<1>. QED BY <1>3, <1>4, <1>5, <1>7, Zenon DEF ControlInv

----------------------------------------------------------------------------
\* Fetches.

\* The operation of slot k ends and the slot becomes free: its stripe settles.
LEMMA SlotReleased ==
    ASSUME ControlInv, NEW o \in ops, o.who \in Slot, NEW st \in {"FAILED", "FETCHED"},
           stripe_status' = [stripe_status EXCEPT ![stripe_idx[o.who]] = st],
           active' = [active EXCEPT ![o.who] = FALSE],
           ops' = ops \ {o},
           UNCHANGED <<stripe_fetch_queue, io, stripe_idx, phase>>
    PROVE  /\ OpsInv' /\ QueueInv' /\ StripeFetchedOnce' /\ FetchHasWaiter' /\ QueuedIsFetching'
           /\ \A l \in Slot : active'[l] => active[l]
           /\ stripe_status[stripe_idx[o.who]] = "INFLIGHT"
           /\ \A t \in Stripe : t # stripe_idx[o.who] => stripe_status'[t] = stripe_status[t]
<1> DEFINE k == o.who
           s == stripe_idx[k]
<1>0. TypeOK /\ OpsInv /\ StripeFetchedOnce
    BY Zenon DEF ControlInv
<1>1. k \in Slot /\ s \in Stripe /\ active[k]
    BY <1>0, Zenon DEF TypeOK, OpsInv
<1>2. Fetching(s) /\ stripe_status[s] = "INFLIGHT" /\ ~ Queued(s)
    BY <1>0, <1>1, Zenon DEF StripeFetchedOnce, Fetching
<1>3. /\ \A t \in Stripe : t # s => stripe_status'[t] = stripe_status[t]
      /\ stripe_status'[s] = st
    BY <1>0, <1>1, Zenon DEF TypeOK
<1>4. /\ ~ active'[k]
      /\ \A l \in Slot : l # k => active'[l] = active[l]
    BY <1>0, <1>1, Zenon DEF TypeOK
<1>5. OpsInv'
  <2>1. \A p \in ops' : p \in ops /\ p.who # k
    BY <1>0, Zenon DEF OpsInv
  <2>2. \A l \in Slot : active'[l] => \E p \in ops' : p.who = l
    BY <1>0, <1>4 DEF OpsInv
  <2>3. \A p, q \in ops' : p.who = q.who => p = q
    BY <1>0, <2>1, Zenon DEF OpsInv
  <2>4. \A p \in ops' :
           /\ p.kind = "image_read" => phase'[p.who] = "image"
           /\ p.kind = "base_io" => phase'[p.who] = "base" /\ p.at # "sq"
           /\ p.who \in Slot => /\ active'[p.who] /\ p.stripe = stripe_idx'[p.who]
                                /\ p.at # "sq"
    BY <1>0, <1>4, <2>1 DEF OpsInv
  <2>. QED BY <2>2, <2>3, <2>4, Zenon DEF OpsInv
<1>6. QueueInv'
    BY Frames, Zenon DEF ControlInv
<1>7. StripeFetchedOnce'
  <2>1. \A t \in Stripe : Queued(t)' <=> Queued(t)
    BY Zenon DEF Queued
  <2>2. \A t \in Stripe : t # s => (Fetching(t)' <=> Fetching(t))
    BY <1>4, Zenon DEF Fetching
  <2>3. ~ Fetching(s)'
    BY <1>0, <1>1, <1>4, Zenon DEF Fetching, StripeFetchedOnce
  <2>4. ASSUME NEW t \in Stripe
        PROVE  /\ ~ (Queued(t)' /\ Fetching(t)')
               /\ stripe_status'[t] = "INFLIGHT" <=> Queued(t)' \/ Fetching(t)'
    <3>1. CASE t = s
      BY <1>2, <1>3, <2>1, <2>3, <3>1, Zenon
    <3>2. CASE t # s
      <4>1. stripe_status'[t] = stripe_status[t] /\ (Queued(t)' <=> Queued(t)) /\ (Fetching(t)' <=> Fetching(t))
        BY <1>3, <2>1, <2>2, <3>2, Zenon
      <4>. QED BY <1>0, <4>1, Zenon DEF StripeFetchedOnce
    <3>. QED BY <3>1, <3>2, Zenon
  <2>5. \A l, m \in Slot : active'[l] /\ active'[m] /\ stripe_idx'[l] = stripe_idx'[m] => l = m
    BY <1>0, <1>4, Zenon DEF StripeFetchedOnce
  <2>6. \A m, n \in 1 .. Len(stripe_fetch_queue') :
           stripe_fetch_queue'[m] = stripe_fetch_queue'[n] => m = n
    BY <1>0, Zenon DEF StripeFetchedOnce
  <2>. QED BY <2>4, <2>5, <2>6, Zenon DEF StripeFetchedOnce
<1>8. FetchHasWaiter'
    BY <1>3, Zenon DEF ControlInv, FetchHasWaiter
<1>9. QueuedIsFetching'
  <2> SUFFICES ASSUME NEW n \in 1 .. Len(io'), NeedsFetch(io[n])' PROVE FALSE
    BY Zenon DEF QueuedIsFetching
  <2>1. n \in 1 .. Len(io) /\ io'[n] = io[n] /\ io[n] \in Io
    BY <1>0 DEF TypeOK
  <2>2. StartStripe(io[n]) \in Stripe
    BY <2>1, RequestType, Zenon
  <2>3. NeedsFetch(io[n])
    BY <1>3, <2>1, <2>2, Zenon DEF NeedsFetch
  <2>. QED BY <2>1, <2>3, Zenon DEF ControlInv, QueuedIsFetching
<1>. QED BY <1>2, <1>3, <1>4, <1>5, <1>6, <1>7, <1>8, <1>9, Zenon

\* The completion of a fetch's read: its slot is released, or writes the stripe it has read.
LEMMA FetchCases ==
    ASSUME ControlInv, NEW o, ubi_complete_fetch_stripe(o)
    PROVE  /\ o \in ops /\ o.kind = "fetch" /\ o.who \in Slot
           /\ o.stripe = stripe_idx[o.who] /\ stripe_idx[o.who] \in Stripe
           /\ UNCHANGED <<stripe_fetch_queue, io, stripe_idx, buf, phase, base, pc, free>>
           /\ batch' = batch \ {o} /\ pc = "reap"
           /\ \/ /\ stripe_status' = [stripe_status EXCEPT ![stripe_idx[o.who]] = "FAILED"]
                 /\ active' = [active EXCEPT ![o.who] = FALSE] /\ ops' = ops \ {o}
              \/ /\ o.at = "ok" /\ StripeBlocks(stripe_idx[o.who]) \subseteq Block
                 /\ ops' = (ops \ {o}) \cup {Op("stripe_write", o.who, stripe_idx[o.who], "sub")}
                 /\ UNCHANGED <<stripe_status, active>>
<1> USE DEF stripes, slots, reads, locals, requests, ubi_set_stripe_status
<1>1. o \in batch /\ o.kind = "fetch"
    BY Zenon DEF ubi_complete_fetch_stripe
<1>2. o \in ops /\ o.who \in Slot
    BY <1>1, OpOwner, Zenon DEF ControlInv, LocalsInv, TypeOK
<1>3. o.stripe = stripe_idx[o.who] /\ stripe_idx[o.who] \in Stripe
    BY <1>2, Zenon DEF ControlInv, OpsInv, TypeOK
<1>4. /\ UNCHANGED <<stripe_fetch_queue, io, stripe_idx, buf, phase, base, pc, free>>
      /\ batch' = batch \ {o} /\ pc = "reap"
    BY Zenon DEF ubi_complete_fetch_stripe
<1>5. \/ /\ stripe_status' = [stripe_status EXCEPT ![stripe_idx[o.who]] = "FAILED"]
         /\ active' = [active EXCEPT ![o.who] = FALSE] /\ ops' = ops \ {o}
      \/ /\ o.at = "ok" /\ StripeBlocks(stripe_idx[o.who]) \subseteq Block
         /\ ops' = (ops \ {o}) \cup {Op("stripe_write", o.who, stripe_idx[o.who], "sub")}
         /\ UNCHANGED <<stripe_status, active>>
    BY Zenon DEF ubi_complete_fetch_stripe, ubi_fail_stripe_fetch
<1>. QED BY <1>1, <1>2, <1>3, <1>4, <1>5, Zenon

\* ubi_complete_fetch_stripe preserves the invariant: the slot keeps one operation, or is released.
LEMMA ControlCompleteFetch ==
    ASSUME ControlInv, TypeOK', NEW o, ubi_complete_fetch_stripe(o)
    PROVE  ControlInv'
<1> DEFINE k == o.who
           s == stripe_idx[k]
<1>0. TypeOK /\ OpsInv /\ LocalsInv
    BY Zenon DEF ControlInv
<1>1. /\ o \in ops /\ o.kind = "fetch" /\ k \in Slot /\ o.stripe = s /\ s \in Stripe
      /\ UNCHANGED <<stripe_fetch_queue, io, stripe_idx, phase, pc, free>>
      /\ batch' = batch \ {o} /\ pc = "reap"
    BY FetchCases, Zenon
<1>2. CASE /\ stripe_status' = [stripe_status EXCEPT ![s] = "FAILED"]
           /\ active' = [active EXCEPT ![k] = FALSE] /\ ops' = ops \ {o}
  <2>1. OpsInv' /\ QueueInv' /\ StripeFetchedOnce' /\ FetchHasWaiter' /\ QueuedIsFetching'
    BY <1>1, <1>2, SlotReleased, Zenon
  <2>2. LocalsInv'
    BY <1>0, <1>1, <1>2, Zenon DEF LocalsInv
  <2>. QED BY <2>1, <2>2, Zenon DEF ControlInv
<1>3. CASE /\ ops' = (ops \ {o}) \cup {Op("stripe_write", k, s, "sub")}
           /\ UNCHANGED <<stripe_status, active>>
  <2>1. PICK n : n = Op("stripe_write", k, s, "sub")
    BY Zenon
  <2>2. n.kind = "stripe_write" /\ n.who = k /\ n.stripe = s /\ n.at = "sub"
    BY <2>1, OpFields
  <2>3. \A p \in ops' : p = n \/ (p \in ops /\ p # o /\ p.who # k)
    BY <1>0, <1>1, <1>3, <2>1, Zenon DEF OpsInv
  <2>4. n \in ops' /\ \A p \in ops : p = o \/ p \in ops'
    BY <1>3, <2>1, Zenon
  <2>5. OpsInv'
    <3>1. \A p, q \in ops' : p.who = q.who => p = q
      BY <1>0, <2>2, <2>3 DEF OpsInv
    <3>2. ASSUME NEW p \in ops'
          PROVE  /\ p.kind = "image_read" => phase'[p.who] = "image"
                 /\ p.kind = "base_io" => phase'[p.who] = "base" /\ p.at # "sq"
                 /\ p.who \in Slot => /\ active'[p.who] /\ p.stripe = stripe_idx'[p.who]
                                      /\ p.at # "sq"
      <4>1. CASE p = n
        <5>1. active[k]
          BY <1>0, <1>1, Zenon DEF OpsInv
        <5>. QED BY <1>1, <1>3, <2>2, <4>1, <5>1, Zenon
      <4>2. CASE p \in ops
        BY <1>0, <1>1, <1>3, <4>2, Zenon DEF OpsInv
      <4>. QED BY <2>3, <4>1, <4>2, Zenon
    <3>3. \A l \in Slot : active'[l] => \E p \in ops' : p.who = l
      BY <1>0, <1>3, <2>2, <2>4 DEF OpsInv
    <3>. QED BY <3>1, <3>2, <3>3, Zenon DEF OpsInv
  <2>6. QueueInv' /\ StripeFetchedOnce' /\ FetchHasWaiter' /\ QueuedIsFetching'
    BY <1>1, <1>3, Frames, Zenon DEF ControlInv
  <2>7. LocalsInv'
    BY <1>0, <1>1, <1>3, <2>4, Zenon DEF LocalsInv
  <2>. QED BY <2>5, <2>6, <2>7, Zenon DEF ControlInv
<1>. QED BY <1>2, <1>3, FetchCases, Zenon

\* write_stripe_io_completion releases the slot.
LEMMA ControlStripeCompletion ==
    ASSUME ControlInv, TypeOK', NEW o \in ops, write_stripe_io_completion(o)
    PROVE  ControlInv'
<1> USE DEF stripes, slots, reads, locals, requests, ubi_set_stripe_status
<1>1. o.who \in Slot
    BY OpOwner, Zenon DEF ControlInv, TypeOK, write_stripe_io_completion
<1>2. /\ OpsInv' /\ QueueInv' /\ StripeFetchedOnce' /\ FetchHasWaiter' /\ QueuedIsFetching'
    BY <1>1, SlotReleased, Zenon DEF write_stripe_io_completion
<1>3. LocalsInv'
    BY Zenon DEF ControlInv, LocalsInv, write_stripe_io_completion
<1>. QED BY <1>2, <1>3, Zenon DEF ControlInv

\* What ubi_start_fetch_stripe changes when the ring accepts the read.
LEMMA StartCases ==
    ASSUME "fetch_submit" \notin Faults, NEW k, ubi_start_fetch_stripe(k)
    PROVE  /\ pc = "start" /\ k \in free /\ stripe_fetch_queue # <<>>
           /\ stripe_fetch_queue' = Tail(stripe_fetch_queue)
           /\ stripe_idx' = [stripe_idx EXCEPT ![k] = Head(stripe_fetch_queue)]
           /\ active' = [active EXCEPT ![k] = TRUE]
           /\ ops' = Submitted(ops) \cup {Op("fetch", k, Head(stripe_fetch_queue), "sub")}
           /\ free' = free \ {k}
           /\ UNCHANGED <<stripe_status, stripe_headers, io, buf, phase, base, pc, batch>>
BY Zenon DEF ubi_start_fetch_stripe, stripes, slots, reads, locals, requests

\* ubi_start_fetch_stripe preserves the invariant: the stripe moves from the queue to a slot
\* that had no operation.
LEMMA ControlStartFetch ==
    ASSUME "fetch_submit" \notin Faults, ControlInv, TypeOK', NEW k, ubi_start_fetch_stripe(k)
    PROVE  ControlInv'
<1> DEFINE q == stripe_fetch_queue
           s == Head(q)
<1>0. TypeOK /\ OpsInv /\ LocalsInv /\ StripeFetchedOnce
    BY Zenon DEF ControlInv
<1>1. /\ pc = "start" /\ k \in free /\ q # <<>> /\ q' = Tail(q)
      /\ stripe_idx' = [stripe_idx EXCEPT ![k] = s]
      /\ active' = [active EXCEPT ![k] = TRUE]
      /\ ops' = Submitted(ops) \cup {Op("fetch", k, s, "sub")}
      /\ free' = free \ {k}
      /\ UNCHANGED <<stripe_status, io, phase, pc, batch>>
    BY StartCases, Zenon
<1>2. k \in Slot /\ ~ active[k] /\ batch = {}
    BY <1>0, <1>1, Zenon DEF LocalsInv, TypeOK
<1>3. /\ Len(q) \in Nat \ {0} /\ s = q[1] /\ s \in Stripe /\ Len(q') = Len(q) - 1
      /\ \A n \in 1 .. Len(q') : n + 1 \in 1 .. Len(q) /\ q'[n] = q[n + 1] /\ n \in Nat
      /\ \A n \in 1 .. Len(q) : n = 1 \/ (n - 1 \in 1 .. Len(q') /\ q'[n - 1] = q[n])
      /\ 1 \in 1 .. Len(q)
    BY <1>0, <1>1, QueueType DEF TypeOK
<1>4. /\ stripe_idx'[k] = s /\ active'[k]
      /\ \A l \in Slot : l # k => active'[l] = active[l] /\ stripe_idx'[l] = stripe_idx[l]
    BY <1>0, <1>1, <1>2, Zenon DEF TypeOK
<1>5. QueueInv' /\ FetchHasWaiter' /\ QueuedIsFetching'
    BY <1>1, Frames, Zenon DEF ControlInv
<1>6. LocalsInv'
    BY <1>0, <1>1, <1>2, <1>4, Zenon DEF LocalsInv, TypeOK
<1>7. StripeFetchedOnce'
  <2>1. Queued(s) /\ ~ Fetching(s) /\ stripe_status[s] = "INFLIGHT"
    BY <1>0, <1>3, Zenon DEF StripeFetchedOnce, Queued
  <2>2. \A t \in Stripe : Queued(t)' <=> Queued(t) /\ t # s
    <3> SUFFICES ASSUME NEW t \in Stripe PROVE Queued(t)' <=> Queued(t) /\ t # s
      BY Zenon
    <3>1. ASSUME Queued(t)' PROVE Queued(t) /\ t # s
      <4>1. PICK n \in 1 .. Len(q') : q'[n] = t
        BY <3>1, Zenon DEF Queued
      <4>2. n + 1 \in 1 .. Len(q) /\ q[n + 1] = t /\ n + 1 # 1
        BY <1>3, <4>1
      <4>3. \A m1, m2 \in 1 .. Len(q) : q[m1] = q[m2] => m1 = m2
        BY <1>0, Zenon DEF StripeFetchedOnce
      <4>. QED BY <1>3, <4>2, <4>3, Zenon DEF Queued
    <3>2. ASSUME Queued(t), t # s PROVE Queued(t)'
      BY <1>3, <3>2, Zenon DEF Queued
    <3>. QED BY <3>1, <3>2, Zenon
  <2>3. \A t \in Stripe : Fetching(t)' <=> Fetching(t) \/ t = s
    BY <1>2, <1>4, Zenon DEF Fetching
  <2>4. \A t \in Stripe : /\ ~ (Queued(t)' /\ Fetching(t)')
                          /\ stripe_status'[t] = "INFLIGHT" <=> Queued(t)' \/ Fetching(t)'
    BY <1>0, <1>1, <2>1, <2>2, <2>3, Zenon DEF StripeFetchedOnce
  <2>5. \A l, m \in Slot : active'[l] /\ active'[m] /\ stripe_idx'[l] = stripe_idx'[m] => l = m
    BY <1>0, <1>4, <2>1 DEF StripeFetchedOnce, Fetching
  <2>6. \A m, n \in 1 .. Len(q') : q'[m] = q'[n] => m = n
    BY <1>0, <1>3 DEF StripeFetchedOnce
  <2>. QED BY <2>4, <2>5, <2>6, Zenon DEF StripeFetchedOnce
<1>8. \A p \in Submitted(ops) : \E o \in ops :
         /\ p.kind = o.kind /\ p.who = o.who /\ p.stripe = o.stripe
         /\ o.at # "sq" => p = o
         /\ o.at = "sq" => p = Moved(o, "sub") /\ p.at = "sub"
    BY <1>0, SubmittedOps, Zenon DEF TypeOK
<1>9. PICK n : n = Op("fetch", k, s, "sub")
    BY Zenon
<1>10. /\ n.kind = "fetch" /\ n.who = k /\ n.stripe = s /\ n.at = "sub"
       /\ ops' = Submitted(ops) \cup {n}
    BY <1>1, <1>9, OpFields
<1>11. ASSUME NEW o \in ops PROVE o.who # k
    BY <1>0, <1>2, Zenon DEF OpsInv
<1>12. OpsInv'
  <2>1. \A o, p \in ops' : o.who = p.who => o = p
    BY <1>0, <1>8, <1>10, <1>11 DEF OpsInv
  <2>2. ASSUME NEW p \in Submitted(ops)
        PROVE  /\ p.kind = "image_read" => phase'[p.who] = "image"
               /\ p.kind = "base_io" => phase'[p.who] = "base" /\ p.at # "sq"
               /\ p.who \in Slot => /\ active'[p.who] /\ p.stripe = stripe_idx'[p.who]
                                    /\ p.at # "sq"
    <3>1. PICK o \in ops : /\ p.kind = o.kind /\ p.who = o.who /\ p.stripe = o.stripe
                           /\ o.at # "sq" => p = o
                           /\ o.at = "sq" => p.at = "sub"
      BY <1>8, Zenon
    <3>2. p.at # "sq"
      BY <3>1, Zenon
    <3>3. p.who \in Slot => active'[p.who] = active[p.who] /\ stripe_idx'[p.who] = stripe_idx[p.who]
      BY <1>4, <1>11, <3>1, Zenon
    <3>4. /\ o.kind = "image_read" => phase[o.who] = "image"
          /\ o.kind = "base_io" => phase[o.who] = "base"
          /\ o.who \in Slot => active[o.who] /\ o.stripe = stripe_idx[o.who]
      BY <1>0, Zenon DEF OpsInv
    <3>. QED BY <1>1, <3>1, <3>2, <3>3, <3>4, Zenon
  <2>3. \A o \in ops : \E p \in Submitted(ops) : p.who = o.who
    BY <1>0, OpsSubmitted, Zenon DEF TypeOK
  <2>4. \A l \in Slot : active'[l] => \E o \in ops' : o.who = l
    BY <1>0, <1>4, <1>10, <2>3 DEF OpsInv
  <2>5. \A o \in ops' :
         /\ o.kind = "image_read" => phase'[o.who] = "image"
         /\ o.kind = "base_io" => phase'[o.who] = "base" /\ o.at # "sq"
         /\ o.who \in Slot => /\ active'[o.who] /\ o.stripe = stripe_idx'[o.who]
                              /\ o.at # "sq"
    BY <1>4, <1>10, <2>2, Zenon
  <2>. QED BY <2>1, <2>4, <2>5, Zenon DEF OpsInv
<1>. QED BY <1>5, <1>6, <1>7, <1>12, Zenon DEF ControlInv

\* An operation in flight finishes.
LEMMA FinishFacts ==
    ASSUME TypeOK, OpsInv, LocalsInv, NEW o \in ops, o.at = "sub",
           NEW a \in {"ok", "err"}, Finish(o, a),
           UNCHANGED <<active, stripe_idx, phase, pc, batch, free>>
    PROVE  /\ OpsInv' /\ LocalsInv'
           /\ \A p \in ops' : \/ p \in ops /\ p.who # o.who
                              \/ /\ p.kind = o.kind /\ p.who = o.who
                                 /\ p.stripe = o.stripe /\ p.at = a
<1>1. PICK n : n = Moved(o, a)
    BY Zenon
<1>2. n.kind = o.kind /\ n.who = o.who /\ n.stripe = o.stripe /\ n.at = a
    BY <1>1, OpMoved DEF TypeOK
<1>3. ops' = (ops \ {o}) \cup {n}
    BY <1>1, Zenon DEF Finish
<1>4. \A p \in ops' : p = n \/ (p \in ops /\ p # o /\ p.who # o.who)
    BY <1>3, Zenon DEF OpsInv
<1>5. OpsInv'
  <2>1. \A p, q \in ops' : p.who = q.who => p = q
    BY <1>2, <1>4 DEF OpsInv
  <2>2. \A p \in ops' :
         /\ p.kind = "image_read" => phase'[p.who] = "image"
         /\ p.kind = "base_io" => phase'[p.who] = "base" /\ p.at # "sq"
         /\ p.who \in Slot => /\ active'[p.who] /\ p.stripe = stripe_idx'[p.who]
                              /\ p.at # "sq"
    BY <1>2, <1>4 DEF OpsInv
  <2>3. \A l \in Slot : active'[l] => \E p \in ops' : p.who = l
    BY <1>2, <1>3 DEF OpsInv
  <2>. QED BY <2>1, <2>2, <2>3, Zenon DEF OpsInv
<1>6. LocalsInv'
    BY <1>3, Zenon DEF LocalsInv, Finished
<1>. QED BY <1>2, <1>4, <1>5, <1>6, Zenon

\* What the kernel and the base bdev execute preserves the invariant.
LEMMA ControlEnvironment ==
    ASSUME ControlInv, TypeOK', NEW o \in ops, KernelRead(o) \/ BaseStripeWrite(o) \/ BaseClientIo(o)
    PROVE  ControlInv'
<1> USE DEF stripes, slots, reads, locals, requests
<1>1. /\ o.at = "sub" /\ \E a \in {"ok", "err"} : Finish(o, a)
      /\ UNCHANGED <<stripe_status, stripe_fetch_queue, io, active, stripe_idx, phase,
                     pc, batch, free>>
    BY Zenon DEF KernelRead, BaseStripeWrite, BaseClientIo
<1>2. QueueInv' /\ StripeFetchedOnce' /\ FetchHasWaiter' /\ QueuedIsFetching'
    BY <1>1, Frames, Zenon DEF ControlInv
<1>3. OpsInv' /\ LocalsInv'
    BY <1>1, FinishFacts, Zenon DEF ControlInv
<1>. QED BY <1>2, <1>3, Zenon DEF ControlInv

----------------------------------------------------------------------------
\* Data.

\* ubi_submit_request marks no stripe as fetched.
LEMMA DataSubmit ==
    ASSUME TypeOK, DataInv, NEW i \in Io, ubi_submit_request(i)
    PROVE  DataInv'
<1>1. UNCHANGED <<ops, buf, base>>
    BY Zenon DEF ubi_submit_request, slots, reads, locals
<1>2. ASSUME NEW t \in Stripe, stripe_status[t] = "FETCHED" PROVE stripe_status'[t] = "FETCHED"
    BY <1>2, RequestType, Zenon DEF ubi_submit_request, NeedsFetch, TypeOK, ubi_set_stripe_status
<1>. QED BY <1>1, <1>2, DataKept, Zenon

\* A request changes phase, or is handed to the ring, or to the base bdev when its stripe is there.
LEMMA DataServed ==
    ASSUME TypeOK, DataInv, NEW i \in Io, UNCHANGED <<stripe_status, buf, base>>,
           \/ ops' = ops
           \/ ReadsBase(i) /\ ops' = ops \cup {Op("base_io", i, StartStripe(i), "sub")}
           \/ ops' = ops \cup {Op("image_read", i, StartStripe(i), "sq")}
    PROVE  DataInv'
<1>1. ReadsBase(i) => ReadsBase(i)'
    BY Zenon DEF ReadsBase
<1>2. ASSUME NEW p, p = Op("base_io", i, StartStripe(i), "sub"), ReadsBase(i) PROVE OpData(p)'
  <2>1. p.kind = "base_io" /\ p.who = i
    BY <1>2, OpFields
  <2>. QED BY <1>1, <1>2, <2>1 DEF OpData
<1>3. ASSUME NEW p, p = Op("image_read", i, StartStripe(i), "sq") PROVE OpData(p)'
  <2>1. p.kind = "image_read"
    BY <1>3, OpFields
  <2>. QED BY <2>1 DEF OpData
<1>4. \A p \in ops' : p \in ops \/ OpData(p)'
    BY <1>2, <1>3, Zenon
<1>. QED BY <1>4, DataKept, Zenon

\* A write that is neither refused nor waits goes to a stripe that has been fetched, or
\* past the image.
LEMMA WriteReadsBase ==
    ASSUME TypeOK, NEW i \in Io, Dequeue(i), ~ Refused(i), i.type = "WRITE"
    PROVE  ReadsBase(i)
<1>1. i.start >= image_block_count \/ i.start < image_block_count
    BY RequestType, ConstantsAssumption DEF Block
<1>2. stripe_status[StartStripe(i)] \in {"NOT_FETCHED", "INFLIGHT", "FAILED", "FETCHED"}
    BY RequestType, Zenon DEF TypeOK
<1>. QED BY <1>1, <1>2, Zenon DEF Refused, Dequeue, Waits, InImage, TriggersFetch, ReadsBase

\* Serving a request preserves the data.
LEMMA DataServe ==
    ASSUME TypeOK, DataInv, NEW i \in Io,
           \/ ServeFailed(i) \/ ServeRead(i) \/ ServeWrite(i) \/ ServeFlush(i)
           \/ FlushCompletion(i) \/ LateGetBuf(i)
    PROVE  DataInv'
<1> USE DEF stripes, slots, reads, locals
<1>1. UNCHANGED <<stripe_status, buf, base>>
    BY Zenon DEF ServeFailed, ServeRead, ServeWrite, ServeFlush, FlushCompletion, LateGetBuf
<1>2. CASE ServeFailed(i) \/ ServeFlush(i) \/ FlushCompletion(i)
  <2>1. ops' = ops
    BY <1>2, Zenon DEF ServeFailed, ServeFlush, FlushCompletion
  <2>. QED BY <1>1, <2>1, DataServed, Zenon
<1>3. CASE ServeRead(i) \/ LateGetBuf(i)
  <2>1. ops' = ops \/ \E r : get_buf_for_read_cb(i, r)
    BY <1>3, Zenon DEF ServeRead, LateGetBuf
  <2>. QED BY <1>1, <2>1, GetBufCases, DataServed, Zenon
<1>4. CASE ServeWrite(i)
  <2>1. ops' = ops \/ ops' = ops \cup {Op("base_io", i, StartStripe(i), "sub")}
    BY <1>4, Zenon DEF ServeWrite
  <2>2. ReadsBase(i)
    BY <1>4, WriteReadsBase, Zenon DEF ServeWrite
  <2>. QED BY <1>1, <2>1, <2>2, DataServed, Zenon
<1>. QED BY <1>2, <1>3, <1>4, Zenon

\* io_uring_submit moves image reads only.
LEMMA SubmittedKept ==
    ASSUME TypeOK, OpsInv, NEW p \in Submitted(ops)
    PROVE  p \in ops \/ p.kind = "image_read"
<1>1. PICK o \in ops : /\ p.kind = o.kind
                       /\ o.at # "sq" => p = o
  <2>1. ops \in SUBSET (SlotOp \cup IoOp)
    BY Zenon DEF TypeOK
  <2>. QED BY <2>1, SubmittedOps
<1>2. o.at = "sq" => o.kind = "image_read"
    BY OpOwner, Zenon DEF OpsInv, TypeOK
<1>. QED BY <1>1, <1>2, Zenon

\* The steps of the poller that only move it on, or submit.
LEMMA DataPoll ==
    ASSUME TypeOK, OpsInv, DataInv, PollBegin \/ ReapEnd \/ StartEnd \/ ServeStop \/ SubmitRing
    PROVE  DataInv'
<1> USE DEF stripes, slots, reads, locals, requests
<1>1. UNCHANGED <<stripe_status, buf, base>> /\ (ops' = ops \/ ops' = Submitted(ops))
    BY Zenon DEF PollBegin, ReapEnd, StartEnd, ServeStop, SubmitRing
<1>2. ASSUME NEW p \in ops' PROVE p \in ops \/ OpData(p)'
  <2>1. p \in ops \/ p.kind = "image_read"
    BY <1>1, SubmittedKept, Zenon
  <2>. QED BY <2>1 DEF OpData
<1>. QED BY <1>1, <1>2, DataKept, Zenon

\* A completion that removes an operation; a stripe that settles is not yet fetched.
LEMMA DataCompletion ==
    ASSUME ControlInv, DataInv, NEW o \in ops,
           \/ ubi_complete_read_from_image(o) \/ ubi_io_completion_cb(o)
           \/ write_stripe_io_completion(o)
    PROVE  DataInv'
<1> USE DEF stripes, slots, reads, locals, requests, ubi_set_stripe_status
<1>0. TypeOK
    BY Zenon DEF ControlInv
<1>1. UNCHANGED <<buf, base>> /\ ops' = ops \ {o}
    BY Zenon DEF ubi_complete_read_from_image, ubi_io_completion_cb, write_stripe_io_completion
<1>2. CASE ubi_complete_read_from_image(o) \/ ubi_io_completion_cb(o)
  <2>1. UNCHANGED stripe_status
    BY <1>2, Zenon DEF ubi_complete_read_from_image, ubi_io_completion_cb
  <2>. QED BY <1>0, <1>1, <2>1, DataKept, Zenon
<1>3. CASE write_stripe_io_completion(o)
  <2>1. o.who \in Slot
    BY <1>0, <1>3, OpOwner, Zenon DEF TypeOK, write_stripe_io_completion
  <2>2. /\ stripe_status[stripe_idx[o.who]] = "INFLIGHT"
        /\ \A t \in Stripe : t # stripe_idx[o.who] => stripe_status'[t] = stripe_status[t]
    BY <1>3, <2>1, SlotReleased, Zenon DEF write_stripe_io_completion
  <2>. QED BY <1>0, <1>1, <2>2, DataKept, Zenon
<1>. QED BY <1>2, <1>3, Zenon

\* ubi_complete_fetch_stripe: what the slot writes is the stripe it has read.
LEMMA DataCompleteFetch ==
    ASSUME ControlInv, DataInv, NEW o, ubi_complete_fetch_stripe(o)
    PROVE  DataInv'
<1> DEFINE k == o.who
           s == stripe_idx[k]
<1>0. TypeOK
    BY Zenon DEF ControlInv
<1>1. /\ o \in ops /\ o.kind = "fetch" /\ k \in Slot /\ o.stripe = s
      /\ UNCHANGED <<buf, base, stripe_idx>>
      /\ UNCHANGED <<stripe_fetch_queue, io, phase>>
    BY FetchCases, Zenon
<1>2. CASE /\ stripe_status' = [stripe_status EXCEPT ![s] = "FAILED"]
           /\ active' = [active EXCEPT ![k] = FALSE] /\ ops' = ops \ {o}
  <2>1. /\ stripe_status[s] = "INFLIGHT"
        /\ \A t \in Stripe : t # s => stripe_status'[t] = stripe_status[t]
    BY <1>1, <1>2, SlotReleased, Zenon
  <2>. QED BY <1>0, <1>1, <1>2, <2>1, DataKept, Zenon
<1>3. CASE /\ o.at = "ok" /\ StripeBlocks(s) \subseteq Block
           /\ ops' = (ops \ {o}) \cup {Op("stripe_write", k, s, "sub")}
           /\ UNCHANGED <<stripe_status, active>>
  <2>1. ASSUME NEW n, n = Op("stripe_write", k, s, "sub") PROVE OpData(n)'
    <3>1. n.kind = "stripe_write" /\ n.who = k /\ n.stripe = s /\ n.at = "sub"
      BY <2>1, OpFields
    <3>2. \A d \in Offset : FirstBlock(s) + d \in Block
              => buf[k][d] = ImageData(FirstBlock(s) + d)
      BY <1>1, <1>3, Zenon DEF DataInv, OpData
    <3>. QED BY <1>1, <1>3, <3>1, <3>2 DEF OpData
  <2>. QED BY <1>0, <1>1, <1>3, <2>1, DataKept, Zenon
<1>. QED BY <1>2, <1>3, FetchCases, Zenon

\* ubi_start_fetch_stripe: the new read has filled no buffer yet.
LEMMA DataStartFetch ==
    ASSUME "fetch_submit" \notin Faults, TypeOK, OpsInv, DataInv, NEW k, ubi_start_fetch_stripe(k)
    PROVE  DataInv'
<1>1. /\ UNCHANGED <<stripe_status, buf, base>>
      /\ ops' = Submitted(ops) \cup {Op("fetch", k, Head(stripe_fetch_queue), "sub")}
    BY StartCases, Zenon
<1>2. ASSUME NEW p \in ops' PROVE p \in ops \/ OpData(p)'
  <2>1. CASE p \in Submitted(ops)
    <3>1. p \in ops \/ p.kind = "image_read"
      BY <2>1, SubmittedKept, Zenon
    <3>. QED BY <3>1 DEF OpData
  <2>2. CASE p = Op("fetch", k, Head(stripe_fetch_queue), "sub")
    <3>1. p.kind = "fetch" /\ p.at = "sub"
      BY <2>2, OpFields
    <3>. QED BY <3>1 DEF OpData
  <2>. QED BY <1>1, <2>1, <2>2, Zenon
<1>. QED BY <1>1, <1>2, DataKept, Zenon

\* The kernel's reads fill the buffers of their own slots.
LEMMA DataKernelRead ==
    ASSUME SafeSetting, ControlInv, DataInv, NEW o \in ops, KernelRead(o)
    PROVE  DataInv'
<1> USE DEF stripes, slots, reads, locals, requests
<1>0. TypeOK /\ OpsInv /\ LocalsInv /\ StripeFetchedOnce /\ FetchHasWaiter
    BY Zenon DEF ControlInv
<1>1. /\ Uring(o) /\ o.at = "sub"
      /\ UNCHANGED <<stripe_status, active, stripe_idx, phase, base, pc, batch, free>>
    BY Zenon DEF KernelRead
<1>2. CASE Finish(o, "err") /\ UNCHANGED buf
  <2>1. \A p \in ops' : p \in ops \/ (p.kind = o.kind /\ p.at = "err")
    BY <1>0, <1>1, <1>2, FinishFacts, Zenon
  <2>2. ASSUME NEW p, p.kind = o.kind, p.at = "err" PROVE OpData(p)'
    BY <1>1, <2>2 DEF OpData, Uring
  <2>. QED BY <1>0, <1>1, <1>2, <2>1, <2>2, DataKept, Zenon
<1>3. CASE Finish(o, "ok") /\ o.kind # "fetch" /\ buf' = buf
  <2>1. \A p \in ops' : p \in ops \/ p.kind = o.kind
    BY <1>0, <1>1, <1>3, FinishFacts, Zenon
  <2>2. ASSUME NEW p, p.kind = o.kind PROVE OpData(p)'
    BY <1>1, <1>3, <2>2 DEF OpData, Uring
  <2>. QED BY <1>0, <1>1, <1>3, <2>1, <2>2, DataKept, Zenon
<1>4. CASE /\ Finish(o, "ok") /\ o.kind = "fetch"
           /\ buf' = [buf EXCEPT ![o.who] = Filled(@, o.stripe)]
  <2>1. \A p \in ops' : \/ p \in ops /\ p.who # o.who
                        \/ /\ p.kind = o.kind /\ p.who = o.who
                           /\ p.stripe = o.stripe /\ p.at = "ok"
    BY <1>0, <1>1, <1>4, FinishFacts, Zenon
  <2>2. /\ o.who \in Slot /\ o.stripe \in Stripe /\ active[o.who]
        /\ stripe_idx[o.who] = o.stripe
    BY <1>0, <1>4, OpOwner, Zenon DEF TypeOK, OpsInv
  <2>3. stripe_status[o.stripe] = "INFLIGHT"
    BY <1>0, <2>2, Zenon DEF StripeFetchedOnce, Fetching
  <2>4. ASSUME NEW d \in Offset, FirstBlock(o.stripe) + d \in Block
        PROVE  buf'[o.who][d] = ImageData(FirstBlock(o.stripe) + d)
    <3> DEFINE b == FirstBlock(o.stripe) + d
    <3>1. /\ FirstBlock(o.stripe) \in Nat /\ d \in Nat /\ b \in Nat /\ o.stripe \in Nat
          /\ stripe_block_count \in Nat /\ d < stripe_block_count
      BY <2>2, ConstantsAssumption DEF Stripe, Offset, FirstBlock
    <3>2. b \in StripeBlocks(o.stripe)
      BY <3>1 DEF StripeBlocks
    <3>3. StripeOf(b) = o.stripe
      BY <3>1, <3>2, StripeArithmetic, Zenon
    <3>4. b < image_block_count
      BY <1>0, <2>3, <2>4, <3>3, InflightInImage, Zenon
    <3>5. buf'[o.who] = Filled(buf[o.who], o.stripe)
      BY <1>0, <1>4, <2>2, Zenon DEF TypeOK
    <3>. QED BY <3>4, <3>5, Zenon DEF Filled
  <2>5. \A k : k # o.who => buf'[k] = buf[k]
    BY <1>0, <1>4 DEF TypeOK
  <2>6. ASSUME NEW p \in ops, p.who # o.who PROVE OpData(p)'
    BY <1>0, <1>1, <2>5, <2>6, OpDataFrame, Zenon DEF DataInv
  <2>7. ASSUME NEW p, p.kind = o.kind, p.who = o.who, p.stripe = o.stripe PROVE OpData(p)'
    BY <1>4, <2>4, <2>7 DEF OpData
  <2>. QED BY <2>1, <2>6, <2>7, Zenon DEF DataInv
<1>. QED BY <1>2, <1>3, <1>4, Zenon DEF KernelRead

\* The base bdev writes a stripe: the stripes of the other slots are elsewhere.
LEMMA DataBaseStripeWrite ==
    ASSUME SafeSetting, ControlInv, DataInv, NEW o \in ops, BaseStripeWrite(o)
    PROVE  DataInv'
<1> USE DEF stripes, slots, reads, locals, requests
<1>0. TypeOK /\ OpsInv /\ LocalsInv /\ StripeFetchedOnce
    BY Zenon DEF ControlInv
<1>1. /\ o.kind = "stripe_write" /\ o.at = "sub" /\ Finish(o, "ok")
      /\ base' = [b \in Block |-> IF b \in StripeBlocks(o.stripe)
                    THEN buf[o.who][b - FirstBlock(o.stripe)] ELSE base[b]]
      /\ UNCHANGED <<stripe_status, active, stripe_idx, buf, phase, pc, batch, free>>
    BY Zenon DEF BaseStripeWrite, SafeSetting
<1>2. \A p \in ops' : \/ p \in ops /\ p.who # o.who
                      \/ /\ p.kind = o.kind /\ p.who = o.who
                         /\ p.stripe = o.stripe /\ p.at = "ok"
    BY <1>0, <1>1, FinishFacts, Zenon
<1>3. ASSUME NEW p \in ops, p.kind = "stripe_write"
      PROVE  /\ p.who \in Slot /\ p.stripe \in Stripe /\ active[p.who]
             /\ stripe_idx[p.who] = p.stripe /\ StripeBlocks(p.stripe) \subseteq Block
  <2>1. p.who \in Slot /\ p.stripe \in Stripe
    BY <1>0, <1>3, OpOwner, Zenon DEF TypeOK
  <2>. QED BY <1>0, <1>3, <2>1, Zenon DEF OpsInv, DataInv, OpData
<1>4. ASSUME NEW b \in StripeBlocks(o.stripe)
      PROVE  base'[b] = ImageData(b)
  <2>1. b \in Block /\ FirstBlock(o.stripe) \in Nat /\ stripe_block_count \in Nat
    BY <1>1, <1>3, <1>4, ConstantsAssumption DEF Stripe, FirstBlock
  <2>2. /\ b - FirstBlock(o.stripe) \in Offset
        /\ FirstBlock(o.stripe) + (b - FirstBlock(o.stripe)) = b
    BY <2>1, <1>4 DEF StripeBlocks, Offset
  <2>3. buf[o.who][b - FirstBlock(o.stripe)] = ImageData(FirstBlock(o.stripe) + (b - FirstBlock(o.stripe)))
    BY <1>1, <2>1, <2>2, Zenon DEF DataInv, OpData
  <2>. QED BY <1>1, <1>4, <2>1, <2>2, <2>3, Zenon
<1>5. ASSUME NEW p \in ops, p.kind = "stripe_write", p.who # o.who,
             NEW b \in StripeBlocks(p.stripe)
      PROVE  base'[b] = base[b]
  <2>0. \A l, m \in Slot : active[l] /\ active[m] /\ stripe_idx[l] = stripe_idx[m] => l = m
    BY <1>0, Zenon DEF StripeFetchedOnce
  <2>1. p.stripe # o.stripe
    BY <1>1, <1>3, <1>5, <2>0, Zenon
  <2>2. b \in Block /\ p.stripe \in Stripe /\ o.stripe \in Stripe
    BY <1>1, <1>3, <1>5, Zenon
  <2>3. b \in Nat /\ p.stripe \in Nat /\ o.stripe \in Nat
    BY <2>2 DEF Stripe, Block
  <2>4. b \notin StripeBlocks(o.stripe)
    BY <1>5, <2>1, <2>3, StripesDisjoint, Zenon
  <2>. QED BY <1>1, <2>2, <2>4, Zenon
<1>6. ASSUME NEW p \in ops, p.who # o.who PROVE OpData(p)'
    BY <1>0, <1>1, <1>5, <1>6, OpDataFrame, Zenon DEF DataInv
<1>7. ASSUME NEW p, p.kind = o.kind, p.who = o.who, p.stripe = o.stripe, p.at = "ok"
      PROVE  OpData(p)'
  <2>1. /\ StripeBlocks(p.stripe) \subseteq Block
        /\ \A d \in Offset : FirstBlock(p.stripe) + d \in Block
              => buf'[p.who][d] = ImageData(FirstBlock(p.stripe) + d)
    BY <1>1, <1>7, Zenon DEF DataInv, OpData
  <2>2. \A b \in StripeBlocks(p.stripe) : base'[b] = ImageData(b)
    BY <1>4, <1>7, Zenon
  <2>. QED BY <1>1, <1>7, <2>1, <2>2 DEF OpData
<1>. QED BY <1>2, <1>6, <1>7, Zenon DEF DataInv

\* A client's I/O on the base bdev: none of its blocks is in a stripe that is
\* being fetched.
LEMMA ClientIoAvoidsFetches ==
    ASSUME SafeSetting, IInv, PhaseInv, NEW o \in ops, o.kind = "base_io",
           NEW p \in ops, p.kind = "stripe_write", NEW b \in StripeBlocks(p.stripe)
    PROVE  b \in Block /\ b \notin Blocks(o.who)
<1>0. TypeOK /\ OpsInv /\ DataInv /\ StripeFetchedOnce /\ FetchHasWaiter /\ SpanInv
    BY Zenon DEF IInv, ControlInv
<1>1. o.who \in Io /\ phase[o.who] = "base" /\ ReadsBase(o.who)
  <2>1. o.who \in Io
    BY <1>0, OpOwner, Zenon DEF TypeOK
  <2>. QED BY <1>0, <2>1, Zenon DEF OpsInv, DataInv, OpData
<1>2. /\ p.who \in Slot /\ p.stripe \in Stripe /\ active[p.who] /\ stripe_idx[p.who] = p.stripe
      /\ StripeBlocks(p.stripe) \subseteq Block
  <2>1. p.who \in Slot /\ p.stripe \in Stripe
    BY <1>0, OpOwner, Zenon DEF TypeOK
  <2>. QED BY <1>0, <2>1, Zenon DEF OpsInv, DataInv, OpData
<1>3. stripe_status[p.stripe] = "INFLIGHT"
    BY <1>0, <1>2, Zenon DEF StripeFetchedOnce, Fetching
<1>4. b \in Block /\ b \in Nat /\ p.stripe \in Nat
    BY <1>2 DEF Stripe, Block
<1>5. StripeOf(b) = p.stripe
    BY <1>4, StripeArithmetic, Zenon
<1>6. ASSUME b \in Blocks(o.who) PROVE FALSE
  <2>1. StartStripe(o.who) = p.stripe
    <3>1. StartStripe(o.who) = EndStripe(o.who)
      BY <1>0, <1>1, Zenon DEF SpanInv, PhaseInv
    <3>. QED BY <1>1, <1>5, <1>6, <3>1, RequestInStripe, Zenon
  <2>2. o.who.start \in Block /\ o.who.start >= image_block_count
    BY <1>1, <1>3, <2>1, RequestType, Zenon DEF ReadsBase
  <2>3. o.who.start < image_block_count
    BY <1>0, <1>3, <2>1, <2>2, InflightInImage, Zenon DEF StartStripe
  <2>. QED BY <2>2, <2>3, ConstantsAssumption DEF Block
<1>. QED BY <1>4, <1>6, Zenon

\* The base bdev executes a client's read or write.
LEMMA DataBaseClientIo ==
    ASSUME SafeSetting, IInv, PhaseInv, NEW o \in ops, BaseClientIo(o)
    PROVE  DataInv'
<1> USE DEF stripes, slots, reads, locals, requests
<1>0. TypeOK /\ OpsInv /\ LocalsInv /\ DataInv
    BY Zenon DEF IInv, ControlInv
<1>1. /\ o.kind = "base_io" /\ o.at = "sub"
      /\ \E a \in {"ok", "err"} : Finish(o, a)
      /\ UNCHANGED <<stripe_status, active, stripe_idx, buf, phase, pc, batch, free>>
    BY Zenon DEF BaseClientIo
<1>2. \A b \in Block : b \notin Blocks(o.who) => base'[b] = base[b]
    BY <1>0, Zenon DEF BaseClientIo, TypeOK
<1>3. \A p \in ops' : p \in ops \/ (p.kind = o.kind /\ p.who = o.who)
    BY <1>0, <1>1, FinishFacts, Zenon
<1>4. ASSUME NEW p \in ops, p.kind = "stripe_write", NEW b \in StripeBlocks(p.stripe)
      PROVE  base'[b] = base[b]
    BY <1>1, <1>2, <1>4, ClientIoAvoidsFetches, Zenon
<1>5. ASSUME NEW p \in ops PROVE OpData(p)'
    BY <1>0, <1>1, <1>4, OpDataFrame, Zenon DEF DataInv
<1>6. ASSUME NEW p, p.kind = o.kind, p.who = o.who PROVE OpData(p)'
  <2>1. p.kind = "base_io" /\ ReadsBase(o.who)
    BY <1>0, <1>1, <1>6, Zenon DEF DataInv, OpData
  <2>2. ReadsBase(p.who)'
    BY <1>1, <1>6, <2>1, Zenon DEF ReadsBase
  <2>. QED BY <2>1, <2>2 DEF OpData
<1>. QED BY <1>3, <1>5, <1>6, Zenon DEF DataInv

----------------------------------------------------------------------------
\* The steps of the virtual disk.

\* ubi_submit_request accepts or refuses a request; enqueueing a fetch does not
\* change what clients see.
LEMMA RefineSubmit ==
    ASSUME TypeOK, NEW i \in Io, ubi_submit_request(i)
    PROVE  [VD!Next]_(VD!vars)
<1> USE DEF stripes, requests, slots, reads, locals, ubi_set_stripe_status
<1>1. /\ phase[i] = "new" /\ ops' = ops /\ result' = result
      /\ \E x \in {"queued", "failed"} : phase' = [phase EXCEPT ![i] = x]
    BY Zenon DEF ubi_submit_request
<1>2. View' = View
  <2>1. base' = base
    BY Zenon DEF ubi_submit_request
  <2>2. \/ UNCHANGED stripe_status
        \/ /\ stripe_status[StartStripe(i)] = "NOT_FETCHED"
           /\ stripe_status' = [stripe_status EXCEPT ![StartStripe(i)] = "INFLIGHT"]
    BY Zenon DEF ubi_submit_request, NeedsFetch
  <2>3. ASSUME NEW s \in Stripe
        PROVE  stripe_status'[s] = "FETCHED" <=> stripe_status[s] = "FETCHED"
    BY <2>2, RequestType, Zenon DEF TypeOK
  <2>. QED BY <2>1, <2>3, ViewFrame, Zenon
<1>3. PICK x \in {"queued", "failed"} : phase' = [phase EXCEPT ![i] = x]
    BY <1>1, Zenon
<1>4. phase'[i] = x /\ \A j \in Io : j # i => phase'[j] = phase[j]
    BY <1>3, Zenon DEF TypeOK
<1>5. \A j \in Io : j # i => (Effective(j)' <=> Effective(j))
    BY <1>1, <1>4, EffectiveFrame, Zenon
<1>6. /\ IoState[i] = StateFor("new", Effective(i))
      /\ IoState' = [IoState EXCEPT ![i] = StateFor(x, Effective(i)')]
    BY <1>1, <1>3, <1>5, StateChange, Zenon
<1>7. ~ Effective(i)'
    BY <1>4, Zenon DEF Effective
<1>8. IoState[i] = "new" /\ StateFor(x, Effective(i)') = (IF x = "failed" THEN "failed" ELSE "pending")
    BY <1>6, <1>7, Zenon DEF StateFor
<1>9. CASE x = "queued"
    BY <1>1, <1>2, <1>6, <1>8, <1>9, AbstractSubmit, Zenon
<1>10. CASE x = "failed"
    BY <1>1, <1>2, <1>6, <1>8, <1>10, AbstractEnd, Zenon
<1>. QED BY <1>9, <1>10, Zenon

\* A read from the image returns what the disk holds: none of its blocks can have
\* been written while its stripe is not FETCHED.
LEMMA ImageReadIsView ==
    ASSUME SafeSetting, IInv, NEW i \in Io, i.type = "READ", phase[i] \in {"queued", "getbuf"},
           ~ ReadsBase(i)
    PROVE  ImageRead(i) = [b \in Blocks(i) |-> View[b]]
<1>1. StartStripe(i) = EndStripe(i)
    BY Zenon DEF IInv, SpanInv
<1>2. i.start \in Block /\ i.start < image_block_count
    BY RequestType, ConstantsAssumption DEF ReadsBase, Block
<1>3. ASSUME NEW b \in Blocks(i)
      PROVE  /\ b \in Block /\ b < image_block_count
             /\ stripe_status[StripeOf(b)] # "FETCHED"
  <2>1. b \in Block /\ StripeOf(b) = StartStripe(i)
    BY <1>1, RequestInStripe, Zenon
  <2>2. b < image_block_count
    BY <1>2, <2>1, Zenon DEF SafeSetting, StartStripe
  <2>. QED BY <2>1, <2>2, Zenon DEF ReadsBase
<1>. QED BY <1>3, Zenon DEF ImageRead, View

\* The base bdev holds what the disk holds wherever a request is sent to it.
LEMMA BaseIsView ==
    ASSUME SafeSetting, IInv, PhaseInv, NEW o \in ops, o.kind = "base_io",
           NEW b \in Blocks(o.who)
    PROVE  /\ b \in Block /\ View[b] = base[b]
           /\ b < image_block_count => stripe_status[StripeOf(b)] = "FETCHED"
<1>0. TypeOK /\ OpsInv /\ DataInv /\ SpanInv
    BY Zenon DEF IInv, ControlInv
<1>1. o.who \in Io /\ phase[o.who] = "base" /\ ReadsBase(o.who)
  <2>1. o.who \in Io
    BY <1>0, OpOwner, Zenon DEF TypeOK
  <2>. QED BY <1>0, <2>1, Zenon DEF OpsInv, DataInv, OpData
<1>2. StartStripe(o.who) = EndStripe(o.who)
    BY <1>0, <1>1, Zenon DEF SpanInv, PhaseInv
<1>3. b \in Block /\ StripeOf(b) = StartStripe(o.who)
    BY <1>1, <1>2, RequestInStripe, Zenon
<1>4. o.who.start \in Block
    BY <1>1, RequestType, Zenon
<1>5. b < image_block_count => stripe_status[StripeOf(b)] = "FETCHED"
  <2>1. CASE o.who.start >= image_block_count
    <3>1. ~ (o.who.start < image_block_count)
      BY <1>4, <2>1, ConstantsAssumption DEF Block
    <3>. QED BY <1>3, <1>4, <3>1, Zenon DEF SafeSetting, StartStripe
  <2>. QED BY <1>1, <1>3, <2>1, Zenon DEF ReadsBase
<1>. QED BY <1>3, <1>5, Zenon DEF View

\* A request that gets a buffer fails, goes to the base bdev, or reads the image.
LEMMA RefineGetBuf ==
    ASSUME SafeSetting, IInv, NEW i \in Io, NEW r, get_buf_for_read_cb(i, r),
           i.type = "READ", phase[i] \in {"queued", "getbuf"}, UNCHANGED <<stripe_status, base>>
    PROVE  [VD!Next]_(VD!vars)
<1>0. TypeOK /\ OpsInv
    BY Zenon DEF IInv, ControlInv
<1>1. View' = View
    BY Zenon DEF View
<1>2. \A o \in ops : o.who # i
    BY <1>0, OpIdle, Zenon
<1>3. ~ Effective(i) /\ phase[i] \notin {"new", "ok", "failed"}
    BY Zenon DEF Effective
<1>4. ASSUME NEW x, phase' = [phase EXCEPT ![i] = x],
             \A j \in Io : j # i => \A o : o.who = j => (o \in ops' <=> o \in ops)
      PROVE  \A j \in Io : j # i => (Effective(j)' <=> Effective(j))
  <2>1. \A j \in Io : j # i => phase'[j] = phase[j]
    BY <1>0, <1>4, Zenon DEF TypeOK
  <2>. QED BY <1>4, <2>1, EffectiveFrame, Zenon
<1>5. CASE phase' = [phase EXCEPT ![i] = "failed"] /\ ops' = ops /\ result' = result
    BY <1>0, <1>1, <1>3, <1>4, <1>5, RequestEnds, Zenon
<1>6. CASE /\ phase' = [phase EXCEPT ![i] = "base"] /\ result' = result
           /\ ops' = ops \cup {Op("base_io", i, StartStripe(i), "sub")}
  <2>1. PICK n : n = Op("base_io", i, StartStripe(i), "sub")
    BY Zenon
  <2>2. n.who = i /\ n.at = "sub" /\ ops' = ops \cup {n}
    BY <1>6, <2>1, OpFields
  <2>3. \A j \in Io : j # i => (Effective(j)' <=> Effective(j))
    BY <1>4, <1>6, <2>2, Zenon
  <2>4. phase'[i] = "base"
    BY <1>0, <1>6, Zenon DEF TypeOK
  <2>5. ~ Effective(i)'
    BY <1>2, <2>2, <2>4, Zenon DEF Effective
  <2>. QED BY <1>0, <1>1, <1>3, <1>6, <2>3, <2>5, RequestProceeds, Zenon
<1>7. CASE /\ ~ ReadsBase(i) /\ phase' = [phase EXCEPT ![i] = "image"]
           /\ ops' = ops \cup {Op("image_read", i, StartStripe(i), "sq")}
           /\ result' = [result EXCEPT ![i] = ImageRead(i)]
  <2>1. PICK n : n = Op("image_read", i, StartStripe(i), "sq")
    BY Zenon
  <2>2. n.who = i /\ ops' = ops \cup {n}
    BY <1>7, <2>1, OpFields
  <2>3. \A j \in Io : j # i => (Effective(j)' <=> Effective(j))
    BY <1>4, <1>7, <2>2, Zenon
  <2>4. phase'[i] = "image"
    BY <1>0, <1>7, Zenon DEF TypeOK
  <2>5. Effective(i)'
    BY <2>4, Zenon DEF Effective
  <2>6. /\ IoState[i] = StateFor(phase[i], Effective(i))
        /\ IoState' = [IoState EXCEPT ![i] = StateFor("image", Effective(i)')]
    BY <1>0, <1>7, <2>3, StateChange, Zenon
  <2>7. IoState[i] = "pending" /\ StateFor("image", Effective(i)') = "effective"
    BY <1>3, <2>5, <2>6, Zenon DEF StateFor
  <2>8. ImageRead(i) = [b \in Blocks(i) |-> View[b]]
    BY <1>7, ImageReadIsView, Zenon
  <2>. QED BY <1>1, <1>7, <2>6, <2>7, <2>8, AbstractRead, Zenon
<1>. QED BY <1>5, <1>6, <1>7, Zenon DEF get_buf_for_read_cb, ubi_complete_io

\* Taking requests off ch->io: refused and flushed requests may end there, writes
\* and reads proceed to the base bdev, some reads take effect on the image.
LEMMA RefineServe ==
    ASSUME SafeSetting, IInv, NEW i \in Io,
           ServeFailed(i) \/ ServeRead(i) \/ ServeWrite(i) \/ ServeFlush(i)
    PROVE  [VD!Next]_(VD!vars)
<1> USE DEF stripes, requests, slots, reads, locals
<1>0. /\ TypeOK /\ OpsInv /\ phase[i] = "queued"
      /\ UNCHANGED <<stripe_status, base>>
  <2>1. Dequeue(i) /\ UNCHANGED <<stripe_status, base>>
    BY Zenon DEF ServeFailed, ServeRead, ServeWrite, ServeFlush
  <2>. QED BY <2>1, DequeueQueue, Zenon DEF IInv, ControlInv
<1>1. View' = View
    BY <1>0, Zenon DEF View
<1>2. ~ Effective(i) /\ phase[i] \notin {"new", "ok", "failed"}
    BY <1>0, Zenon DEF Effective
<1>3. ASSUME NEW x, phase' = [phase EXCEPT ![i] = x], ops' = ops
      PROVE  \A j \in Io : j # i => (Effective(j)' <=> Effective(j))
  <2>1. \A j \in Io : j # i => phase'[j] = phase[j]
    BY <1>0, <1>3, Zenon DEF TypeOK
  <2>. QED BY <1>3, <2>1, EffectiveFrame, Zenon
<1>4. ASSUME NEW x, phase' = [phase EXCEPT ![i] = x], ops' = ops, result' = result,
             x \in {"getbuf", "lost", "flush"}
      PROVE  [VD!Next]_(VD!vars)
  <2>1. phase'[i] = x
    BY <1>0, <1>4, Zenon DEF TypeOK
  <2>2. ~ Effective(i)'
    BY <1>4, <2>1, Zenon DEF Effective
  <2>. QED BY <1>0, <1>1, <1>2, <1>3, <1>4, <2>2, RequestProceeds, Zenon
<1>5. CASE ServeFailed(i)
    BY <1>0, <1>1, <1>2, <1>3, <1>5, RequestEnds, Zenon DEF ServeFailed
<1>6. CASE ServeFlush(i)
  <2>1. /\ ops' = ops /\ result' = result /\ i.type = "FLUSH"
        /\ \/ phase' = [phase EXCEPT ![i] = "ok"]
           \/ phase' = [phase EXCEPT ![i] = "flush"]
           \/ phase' = [phase EXCEPT ![i] = "failed"]
    BY <1>6, Zenon DEF ServeFlush
  <2>2. CASE phase' = [phase EXCEPT ![i] = "ok"]
    BY <1>0, <1>1, <1>2, <1>3, <2>1, <2>2, RequestEnds, Zenon
  <2>3. CASE phase' = [phase EXCEPT ![i] = "failed"]
    BY <1>0, <1>1, <1>2, <1>3, <2>1, <2>3, RequestEnds, Zenon
  <2>. QED BY <1>4, <2>1, <2>2, <2>3, Zenon
<1>7. CASE ServeRead(i)
    BY <1>0, <1>4, <1>7, RefineGetBuf, Zenon DEF ServeRead
<1>8. CASE ServeWrite(i)
  <2>1. CASE /\ phase' = [phase EXCEPT ![i] = "base"] /\ result' = result
             /\ ops' = ops \cup {Op("base_io", i, StartStripe(i), "sub")}
    <3>1. PICK n : n = Op("base_io", i, StartStripe(i), "sub")
      BY Zenon
    <3>2. n.who = i /\ n.at = "sub" /\ ops' = ops \cup {n}
      BY <2>1, <3>1, OpFields
    <3>3. phase'[i] = "base" /\ \A j \in Io : j # i => phase'[j] = phase[j]
      BY <1>0, <2>1, Zenon DEF TypeOK
    <3>4. \A j \in Io : j # i => (Effective(j)' <=> Effective(j))
      BY <3>2, <3>3, EffectiveFrame, Zenon
    <3>5. \A o \in ops : o.who # i
      BY <1>0, OpIdle, Zenon
    <3>6. ~ Effective(i)'
      BY <3>2, <3>3, <3>5, Zenon DEF Effective
    <3>. QED BY <1>0, <1>1, <1>2, <2>1, <3>4, <3>6, RequestProceeds, Zenon
  <2>. QED BY <1>4, <1>8, <2>1, Zenon DEF ServeWrite
<1>. QED BY <1>5, <1>6, <1>7, <1>8, Zenon

\* The completion of a request's operation, which has had its effect.
LEMMA RefineCompletion ==
    ASSUME IInv, PhaseInv, NEW o \in ops, o.kind \in {"image_read", "base_io"}, Finished(o),
           ubi_complete_io(o.who, o.at = "ok", active_reads), ops' = ops \ {o},
           UNCHANGED <<stripe_status, base, result>>
    PROVE  [VD!Next]_(VD!vars)
<1> DEFINE i == o.who
<1>0. TypeOK /\ OpsInv
    BY Zenon DEF IInv, ControlInv
<1>1. /\ i \in Io /\ phase[i] \in {"image", "base"} /\ i.type # "FLUSH"
      /\ \A p \in ops : p.who = i => p = o
      /\ o.kind = "image_read" => phase[i] = "image"
  <2>1. i \in Io
    BY <1>0, OpOwner, Zenon DEF TypeOK
  <2>2. /\ \A p \in ops : p.who = i => p = o
        /\ o.kind = "image_read" => phase[i] = "image"
        /\ o.kind = "base_io" => phase[i] = "base"
    BY <1>0, Zenon DEF OpsInv
  <2>. QED BY <2>1, <2>2, Zenon DEF PhaseInv
<1>2. View' = View
    BY Zenon DEF View
<1>3. PICK x \in {"ok", "failed"} : /\ phase' = [phase EXCEPT ![i] = x]
                                    /\ x = "ok" => o.at = "ok"
    BY Zenon DEF ubi_complete_io
<1>4. \A j \in Io : j # i => phase'[j] = phase[j]
    BY <1>0, <1>3, Zenon DEF TypeOK
<1>5. \A j \in Io : j # i => (Effective(j)' <=> Effective(j))
    BY <1>4, EffectiveFrame, Zenon
<1>6. x = "ok" => Effective(i)
    BY <1>1, <1>3, Zenon DEF Effective
<1>. QED BY <1>0, <1>1, <1>2, <1>3, <1>5, <1>6, RequestEnds, Zenon

\* A step that changes neither the base bdev, nor which stripes are FETCHED, nor
\* requests and their base I/O, is invisible.
LEMMA InvisibleStep ==
    ASSUME TypeOK, TypeOK', OpsInv, OpsInv', UNCHANGED <<phase, result>>, View' = View,
           \A o \in ops : o.kind = "base_io" => o \in ops',
           \A o \in ops' : o.kind = "base_io" => o \in ops
    PROVE  [VD!Next]_(VD!vars)
<1>1. \A j \in Io : Effective(j)' <=> Effective(j)
    BY EffectiveOthers, Zenon
<1>. QED BY <1>1, StateFrame, AbstractStutter, Zenon

\* Reaping and starting fetches and submitting the ring are invisible.
LEMMA RefinePoll ==
    ASSUME SafeSetting, IInv, TypeOK', OpsInv',
           \/ PollBegin \/ ReapEnd \/ StartEnd \/ ServeStop \/ SubmitRing
           \/ \E o \in batch : ubi_complete_fetch_stripe(o)
           \/ \E k \in free : ubi_start_fetch_stripe(k)
    PROVE  [VD!Next]_(VD!vars)
<1> USE DEF stripes, requests, slots, reads, locals
<1>0. TypeOK /\ OpsInv /\ LocalsInv /\ StripeFetchedOnce
    BY Zenon DEF IInv, ControlInv
<1>1. ASSUME NEW p, p.kind = "base_io" PROVE p \in Submitted(ops) <=> p \in ops
  <2>1. ASSUME p \in Submitted(ops) PROVE p \in ops
    BY <1>0, <1>1, <2>1, SubmittedKept
  <2>2. ASSUME p \in ops PROVE p \in Submitted(ops)
    <3>1. p.at # "sq"
      BY <1>0, <1>1, <2>2, Zenon DEF OpsInv
    <3>. QED BY <2>2, <3>1, Zenon DEF Submitted
  <2>. QED BY <2>1, <2>2, Zenon
<1>2. CASE PollBegin \/ ReapEnd \/ StartEnd \/ ServeStop \/ SubmitRing
  <2>1. UNCHANGED <<phase, result, base, stripe_status>> /\ (ops' = ops \/ ops' = Submitted(ops))
    BY <1>2, Zenon DEF PollBegin, ReapEnd, StartEnd, ServeStop, SubmitRing
  <2>2. View' = View
    BY <2>1, Zenon DEF View
  <2>. QED BY <1>0, <1>1, <2>1, <2>2, InvisibleStep, Zenon
<1>3. ASSUME NEW o \in batch, ubi_complete_fetch_stripe(o) PROVE [VD!Next]_(VD!vars)
  <2>1. /\ o \in ops /\ o.kind = "fetch" /\ o.who \in Slot
        /\ UNCHANGED <<phase, result, base>>
    BY <1>0, <1>3, OpOwner, Zenon DEF LocalsInv, TypeOK, ubi_complete_fetch_stripe
  <2>2. active[o.who]
    BY <1>0, <2>1, Zenon DEF OpsInv
  <2>3. stripe_idx[o.who] \in Stripe /\ stripe_status[stripe_idx[o.who]] = "INFLIGHT"
    BY <1>0, <2>1, <2>2, Zenon DEF StripeFetchedOnce, Fetching, TypeOK
  <2>4. \/ UNCHANGED stripe_status
        \/ stripe_status' = [stripe_status EXCEPT ![stripe_idx[o.who]] = "FAILED"]
    BY <1>3, Zenon DEF ubi_complete_fetch_stripe, ubi_fail_stripe_fetch, ubi_set_stripe_status
  <2>5. \A s \in Stripe : stripe_status'[s] = "FETCHED" <=> stripe_status[s] = "FETCHED"
    BY <1>0, <2>3, <2>4, Zenon DEF TypeOK
  <2>6. View' = View
    BY <2>1, <2>5, ViewFrame, Zenon
  <2>7. PICK n : n = Op("stripe_write", o.who, stripe_idx[o.who], "sub")
    BY Zenon
  <2>8. ops' = ops \ {o} \/ ops' = (ops \ {o}) \cup {n}
    BY <1>3, <2>7, Zenon DEF ubi_complete_fetch_stripe
  <2>9. n.kind = "stripe_write"
    BY <2>7, OpFields
  <2>10. /\ \A p \in ops : p.kind = "base_io" => p \in ops'
         /\ \A p \in ops' : p.kind = "base_io" => p \in ops
    BY <2>1, <2>8, <2>9
  <2>. QED BY <1>0, <2>1, <2>6, <2>10, InvisibleStep, Zenon
<1>4. ASSUME NEW k \in free, ubi_start_fetch_stripe(k) PROVE [VD!Next]_(VD!vars)
  <2>1. PICK n : n = Op("fetch", k, Head(stripe_fetch_queue), "sub")
    BY Zenon
  <2>2. n.kind = "fetch"
    BY <2>1, OpFields
  <2>3. ops' = Submitted(ops) \cup {n} /\ UNCHANGED <<stripe_status, base, phase>>
    BY <1>4, <2>1, StartCases, Zenon DEF SafeSetting
  <2>4. UNCHANGED result
    BY <1>4, Zenon DEF ubi_start_fetch_stripe
  <2>5. View' = View
    BY <2>3, Zenon DEF View
  <2>6. /\ \A p \in ops : p.kind = "base_io" => p \in ops'
        /\ \A p \in ops' : p.kind = "base_io" => p \in ops
    <3>1. ASSUME NEW p, p.kind = "base_io" PROVE p \in ops' <=> p \in ops
      <4>1. p # n
        BY <2>2, <3>1
      <4>. QED BY <1>1, <2>3, <3>1, <4>1, Zenon
    <3>. QED BY <3>1, Zenon
  <2>. QED BY <1>0, <2>3, <2>4, <2>5, <2>6, InvisibleStep, Zenon
<1>. QED BY <1>2, <1>3, <1>4, Zenon

\* The kernel's reads and the write of a fetched stripe are invisible: the stripe
\* is not FETCHED yet, and lies in the image.
LEMMA RefineFetchIo ==
    ASSUME SafeSetting, IInv, TypeOK', OpsInv', NEW o \in ops, KernelRead(o) \/ BaseStripeWrite(o)
    PROVE  [VD!Next]_(VD!vars)
<1> USE DEF stripes, requests, slots, reads, locals
<1>0. TypeOK /\ OpsInv /\ LocalsInv /\ DataInv /\ StripeFetchedOnce /\ FetchHasWaiter
    BY Zenon DEF IInv, ControlInv
<1>1. /\ UNCHANGED <<phase, result, stripe_status>>
      /\ o.kind # "base_io" /\ \E a \in {"ok", "err"} : Finish(o, a)
  <2>1. /\ UNCHANGED <<phase, result, stripe_status>>
        /\ \E a \in {"ok", "err"} : Finish(o, a)
    BY Zenon DEF KernelRead, BaseStripeWrite
  <2>2. Uring(o) \/ o.kind = "stripe_write"
    BY Zenon DEF KernelRead, BaseStripeWrite
  <2>3. o.kind # "base_io"
    BY <2>2 DEF Uring
  <2>. QED BY <2>1, <2>3, Zenon
<1>2. PICK a \in {"ok", "err"} : ops' = (ops \ {o}) \cup {Moved(o, a)}
    BY <1>1, Zenon DEF Finish
<1>3. PICK n : n = Moved(o, a)
    BY Zenon
<1>4. n.kind # "base_io" /\ ops' = (ops \ {o}) \cup {n}
    BY <1>0, <1>1, <1>2, <1>3, OpMoved DEF TypeOK
<1>5. View' = View
  <2>1. CASE base' = base
    BY <1>1, <2>1, Zenon DEF View
  <2>2. CASE BaseStripeWrite(o)
    <3>1. /\ o.who \in Slot /\ o.stripe \in Stripe /\ stripe_idx[o.who] = o.stripe /\ active[o.who]
      <4>1. o.who \in Slot /\ o.stripe \in Stripe
        BY <1>0, <2>2, OpOwner, Zenon DEF BaseStripeWrite, TypeOK
      <4>. QED BY <1>0, <4>1, Zenon DEF OpsInv
    <3>2. stripe_status[o.stripe] = "INFLIGHT"
      BY <1>0, <3>1, Zenon DEF StripeFetchedOnce, Fetching
    <3>3. ASSUME NEW b \in Block, b \in StripeBlocks(o.stripe)
          PROVE  b < image_block_count /\ stripe_status[StripeOf(b)] = "INFLIGHT"
      <4>1. StripeOf(b) = o.stripe
        <5>1. b \in Nat /\ o.stripe \in Nat
          BY <3>1 DEF Stripe, Block
        <5>. QED BY <3>3, <5>1, StripeArithmetic, Zenon
      <4>. QED BY <1>0, <3>2, <4>1, InflightInImage, Zenon
    <3>4. \A b \in Block : b \notin StripeBlocks(o.stripe) => base'[b] = base[b]
      <4>1. \/ base' = base
            \/ base' = [b \in Block |-> IF b \in StripeBlocks(o.stripe)
                          THEN buf[o.who][b - FirstBlock(o.stripe)] ELSE base[b]]
        BY <2>2, Zenon DEF BaseStripeWrite
      <4>. QED BY <4>1, Zenon
    <3>. QED BY <1>1, <3>3, <3>4, Zenon DEF View
  <2>. QED BY <2>1, <2>2, Zenon DEF KernelRead
<1>. QED BY <1>0, <1>1, <1>4, <1>5, InvisibleStep, Zenon

\* When a stripe becomes FETCHED, the base bdev holds the image's blocks.
LEMMA RefineStripeCompletion ==
    ASSUME SafeSetting, IInv, TypeOK', OpsInv', NEW o \in ops, write_stripe_io_completion(o)
    PROVE  [VD!Next]_(VD!vars)
<1> USE DEF stripes, requests, slots, reads, locals
<1>0. TypeOK /\ OpsInv /\ StripeFetchedOnce
    BY Zenon DEF IInv, ControlInv
<1>1. OpData(o)
    BY Zenon DEF IInv, DataInv
<1>2. o.kind = "stripe_write" /\ Finished(o) /\ ops' = ops \ {o} /\ UNCHANGED <<phase, result, base>>
    BY Zenon DEF write_stripe_io_completion
<1>3. o.at = "ok" /\ \A b \in StripeBlocks(o.stripe) : base[b] = ImageData(b)
    BY <1>1, <1>2, Zenon DEF OpData, Finished
<1>4. stripe_status' = [stripe_status EXCEPT ![stripe_idx[o.who]] = "FETCHED"]
    BY <1>3, Zenon DEF write_stripe_io_completion, ubi_set_stripe_status
<1>5. o.who \in Slot /\ o.stripe \in Stripe
    BY <1>0, <1>2, OpOwner, Zenon DEF TypeOK
<1>6. stripe_idx[o.who] = o.stripe /\ active[o.who]
    BY <1>0, <1>5, Zenon DEF OpsInv
<1>7. stripe_status[o.stripe] = "INFLIGHT"
    BY <1>0, <1>5, <1>6, Zenon DEF StripeFetchedOnce, Fetching
<1>8. /\ stripe_status'[o.stripe] = "FETCHED"
      /\ \A s \in Stripe : s # o.stripe => stripe_status'[s] = stripe_status[s]
    BY <1>0, <1>4, <1>5, <1>6, Zenon DEF TypeOK
<1>9. ASSUME NEW b \in Block
      PROVE  /\ StripeOf(b) \in Stripe
             /\ StripeOf(b) = o.stripe => base[b] = ImageData(b)
  <2>1. b \in Nat /\ o.stripe \in Nat
    BY <1>5 DEF Stripe, Block
  <2>. QED BY <1>3, <2>1, StripesFit, StripeArithmetic, Zenon
<1>10. View' = View
    BY <1>2, <1>7, <1>8, <1>9, Zenon DEF View
<1>. QED BY <1>0, <1>2, <1>10, InvisibleStep, Zenon

\* The base bdev executes a client's I/O: a read sees, and a write replaces, what
\* the disk holds.
LEMMA RefineClientIo ==
    ASSUME SafeSetting, IInv, PhaseInv, TypeOK', OpsInv', NEW o \in ops, BaseClientIo(o)
    PROVE  [VD!Next]_(VD!vars)
<1> USE DEF stripes, requests, slots, reads, locals
<1> DEFINE i == o.who
<1>0. TypeOK /\ OpsInv /\ DataInv
    BY Zenon DEF IInv, ControlInv
<1>1. /\ o.kind = "base_io" /\ o.at = "sub" /\ UNCHANGED <<phase, stripe_status>>
      /\ i \in Io /\ phase[i] = "base" /\ i.type \in {"READ", "WRITE"}
  <2>1. o.kind = "base_io" /\ o.at = "sub" /\ UNCHANGED <<phase, stripe_status>>
    BY Zenon DEF BaseClientIo
  <2>2. i \in Io
    BY <1>0, <2>1, OpOwner, Zenon DEF TypeOK
  <2>3. phase[i] = "base"
    BY <1>0, <2>1, Zenon DEF OpsInv
  <2>. QED BY <2>1, <2>2, <2>3, Zenon DEF PhaseInv
<1>2. \A b \in Blocks(i) : /\ b \in Block /\ View[b] = base[b]
                           /\ b < image_block_count => stripe_status[StripeOf(b)] = "FETCHED"
    BY <1>1, BaseIsView, Zenon
<1>3. \A p \in ops : p.who = i => p = o
    BY <1>0, Zenon DEF OpsInv
<1>4. ~ Effective(i)
    BY <1>1, <1>3, Zenon DEF Effective
<1>5. ASSUME NEW a \in {"ok", "err"}, Finish(o, a)
      PROVE  /\ Effective(i)' <=> a = "ok"
             /\ \A j \in Io : j # i => (Effective(j)' <=> Effective(j))
  <2>1. PICK n : n = Moved(o, a)
    BY Zenon
  <2>2. n.who = i /\ n.at = a /\ ops' = (ops \ {o}) \cup {n}
    BY <1>0, <1>5, <2>1, OpMoved DEF Finish, TypeOK
  <2>3. \A j \in Io : j # i => (Effective(j)' <=> Effective(j))
    BY <1>1, <2>2, EffectiveFrame, Zenon
  <2>4. Effective(i)' <=> a = "ok"
    BY <1>1, <1>3, <2>2, Zenon DEF Effective
  <2>. QED BY <2>3, <2>4, Zenon
<1>6. CASE Finish(o, "err") /\ UNCHANGED <<base, result>>
  <2>1. View' = View
    BY <1>1, <1>6, Zenon DEF View
  <2>2. \A j \in Io : Effective(j)' <=> Effective(j)
    BY <1>4, <1>5, <1>6, Zenon
  <2>. QED BY <1>1, <1>6, <2>1, <2>2, StateFrame, AbstractStutter, Zenon
<1>7. ASSUME Finish(o, "ok")
      PROVE  /\ IoState[i] = "pending" /\ IoState' = [IoState EXCEPT ![i] = "effective"]
  <2>1. phase' = [phase EXCEPT ![i] = "base"]
    BY <1>0, <1>1, Zenon DEF TypeOK
  <2>2. /\ IoState[i] = StateFor(phase[i], Effective(i))
        /\ IoState' = [IoState EXCEPT ![i] = StateFor("base", Effective(i)')]
    BY <1>0, <1>1, <1>5, <1>7, <2>1, StateChange, Zenon
  <2>. QED BY <1>1, <1>4, <1>5, <1>7, <2>2, Zenon DEF StateFor
<1>8. CASE /\ Finish(o, "ok") /\ i.type = "READ" /\ base' = base
           /\ result' = [result EXCEPT ![i] = [b \in Blocks(i) |-> base[b]]]
  <2>1. View' = View
    BY <1>1, <1>8, Zenon DEF View
  <2>2. [b \in Blocks(i) |-> base[b]] = [b \in Blocks(i) |-> View[b]]
    BY <1>2, Zenon
  <2>. QED BY <1>1, <1>7, <1>8, <2>1, <2>2, AbstractRead, Zenon
<1>9. CASE /\ Finish(o, "ok") /\ i.type = "WRITE" /\ result' = result
           /\ base' = [b \in Block |-> IF b \in Blocks(i) THEN i ELSE base[b]]
  <2>1. View' = [b \in Block |-> IF b \in Blocks(i) THEN i ELSE View[b]]
    BY <1>1, <1>2, <1>9, Zenon DEF View
  <2>. QED BY <1>1, <1>7, <1>9, <2>1, AbstractWrite, Zenon
<1>. QED BY <1>1, <1>6, <1>8, <1>9, Zenon DEF BaseClientIo

\* The end of a flush.
LEMMA RefineFlush ==
    ASSUME IInv, PhaseInv, NEW i \in Io, FlushCompletion(i)
    PROVE  [VD!Next]_(VD!vars)
<1> USE DEF stripes, requests, slots, reads, locals
<1>0. TypeOK /\ i.type = "FLUSH" /\ phase[i] = "flush"
    BY Zenon DEF IInv, ControlInv, PhaseInv, FlushCompletion
<1>1. PICK x \in {"ok", "failed"} : phase' = [phase EXCEPT ![i] = x]
    BY Zenon DEF FlushCompletion
<1>2. UNCHANGED <<ops, stripe_status, base, result>>
    BY Zenon DEF FlushCompletion
<1>3. View' = View
    BY <1>2, Zenon DEF View
<1>4. ~ Effective(i)
    BY <1>0, Zenon DEF Effective
<1>5. \A j \in Io : j # i => phase'[j] = phase[j]
    BY <1>0, <1>1, Zenon DEF TypeOK
<1>6. \A j \in Io : j # i => (Effective(j)' <=> Effective(j))
    BY <1>2, <1>5, EffectiveFrame, Zenon
<1>. QED BY <1>0, <1>1, <1>2, <1>3, <1>4, <1>6, RequestEnds, Zenon
=============================================================================
