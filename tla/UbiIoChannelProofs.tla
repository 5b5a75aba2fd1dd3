------------------------- MODULE UbiIoChannelProofs -------------------------
(***************************************************************************)
(* The three layers of the invariant of UbiIoChannel (how requests are     *)
(* served, how fetches run, what the data is), the properties that follow  *)
(* from each, and that the channel implements VirtualDisk.                 *)
(***************************************************************************)
EXTENDS UbiIoChannelSteps

\* A request is served according to its type.
LEMMA PhaseNext ==
    ASSUME TypeOK, PhaseInv, [Next]_vars
    PROVE  PhaseInv'
<1> USE DEF stripes, requests, slots, reads, locals
<1>1. ASSUME NEW i \in Io, NEW x, phase' = [phase EXCEPT ![i] = x],
             /\ x \in {"getbuf", "image"} => i.type = "READ"
             /\ x = "base" => i.type \in {"READ", "WRITE"}
             /\ x = "flush" => i.type = "FLUSH"
      PROVE  PhaseInv'
    BY <1>1, Zenon DEF TypeOK, PhaseInv
<1>2. ASSUME phase' = phase PROVE PhaseInv'
    BY <1>2, Zenon DEF PhaseInv
<1>3. ASSUME NEW i \in Io, NEW r, get_buf_for_read_cb(i, r), i.type = "READ" PROVE PhaseInv'
    BY <1>1, <1>3, Zenon DEF get_buf_for_read_cb, ubi_complete_io
<1>4. ASSUME NEW i \in Io, ubi_submit_request(i) PROVE PhaseInv'
    BY <1>1, <1>4, Zenon DEF ubi_submit_request
<1>5. CASE PollBegin \/ ReapEnd \/ StartEnd \/ ServeStop \/ SubmitRing
    BY <1>2, <1>5, Zenon DEF PollBegin, ReapEnd, StartEnd, ServeStop, SubmitRing
<1>6. ASSUME NEW o \in batch, ubi_complete_fetch_stripe(o) PROVE PhaseInv'
    BY <1>2, <1>6, Zenon DEF ubi_complete_fetch_stripe
<1>7. ASSUME NEW o \in batch, ubi_complete_read_from_image(o) PROVE PhaseInv'
  <2>1. o.who \in Io
    BY <1>7, OpOwner, Zenon DEF TypeOK, ubi_complete_read_from_image
  <2>. QED BY <1>1, <1>7, <2>1, Zenon DEF ubi_complete_read_from_image, ubi_complete_io
<1>8. ASSUME NEW k \in free, ubi_start_fetch_stripe(k) PROVE PhaseInv'
    BY <1>2, <1>8, Zenon DEF ubi_start_fetch_stripe
<1>9. ASSUME NEW i \in Io, ServeFailed(i) \/ ServeFlush(i) PROVE PhaseInv'
    BY <1>1, <1>9, Zenon DEF ServeFailed, ServeFlush
<1>10. ASSUME NEW i \in Io, ServeRead(i) PROVE PhaseInv'
    BY <1>1, <1>3, <1>10, Zenon DEF ServeRead
<1>11. ASSUME NEW i \in Io, ServeWrite(i) PROVE PhaseInv'
    BY <1>1, <1>11, Zenon DEF ServeWrite
<1>12. ASSUME NEW o \in ops, KernelRead(o) \/ BaseStripeWrite(o) \/ BaseClientIo(o) PROVE PhaseInv'
    BY <1>2, <1>12, Zenon DEF KernelRead, BaseStripeWrite, BaseClientIo
<1>13. ASSUME NEW o \in ops, write_stripe_io_completion(o) PROVE PhaseInv'
    BY <1>2, <1>13, Zenon DEF write_stripe_io_completion
<1>14. ASSUME NEW o \in ops, ubi_io_completion_cb(o) PROVE PhaseInv'
  <2>1. o.who \in Io
    BY <1>14, OpOwner, Zenon DEF TypeOK, ubi_io_completion_cb
  <2>. QED BY <1>1, <1>14, <2>1, Zenon DEF ubi_io_completion_cb, ubi_complete_io
<1>15. ASSUME NEW i \in Io, FlushCompletion(i) PROVE PhaseInv'
    BY <1>1, <1>15, Zenon DEF FlushCompletion
<1>16. ASSUME NEW i \in Io, LateGetBuf(i) PROVE PhaseInv'
    BY <1>3, <1>16, Zenon DEF LateGetBuf, PhaseInv
<1>17. CASE UNCHANGED vars
    BY <1>2, <1>17, Zenon DEF vars
<1>. QED
    BY <1>4, <1>5, <1>6, <1>7, <1>8, <1>9, <1>10, <1>11, <1>12, <1>13, <1>14, <1>15, Zenon,
       <1>16, <1>17
    DEF Next, Poll, Environment, Completion

----------------------------------------------------------------------------
\* How requests are served, whatever fails.

\* No request's operation begins, moves or ends.
LEMMA RequestOthers ==
    ASSUME RequestInv, TypeOK', UNCHANGED <<phase, io>>,
           \A p : p.who \in Io => (p \in ops' <=> p \in ops),
           \A p \in batch' : p \in batch \/ (p \in ops /\ Finished(p))
    PROVE  QueueInv' /\ RequestOps'
<1>0. TypeOK /\ QueueInv /\ RequestOps
    BY Zenon DEF RequestInv
<1>1. QueueInv'
    BY <1>0, Frames, Zenon
<1>2. ASSUME NEW p \in ops' PROVE p.kind \in {"image_read", "base_io"} => p.who \in Io /\ p \in ops
    BY OpOwner, Zenon DEF TypeOK
<1>3. \A o, p \in ops' : o.who \in Io /\ o.who = p.who => o = p
    BY <1>0 DEF RequestOps
<1>4. \A o \in ops' : /\ o.kind = "image_read" => phase'[o.who] = "image"
                      /\ o.kind = "base_io" => phase'[o.who] = "base" /\ o.at # "sq"
    BY <1>0, <1>2, Zenon DEF RequestOps
<1>5. ASSUME NEW o \in batch', o.kind = "image_read" PROVE o \in ops' /\ Finished(o)
  <2>1. o.who \in Io
    BY <1>5, OpOwner, Zenon DEF TypeOK
  <2>2. o \in ops /\ Finished(o)
    BY <1>0, <1>5, Zenon DEF RequestOps
  <2>. QED BY <2>1, <2>2, Zenon
<1>. QED BY <1>1, <1>3, <1>4, <1>5, Zenon DEF RequestOps

\* io_uring_submit, and perhaps a fetch that begins.
LEMMA RequestRing ==
    ASSUME RequestInv, UNCHANGED <<phase, io, batch>>,
           \A p \in ops' : p \in Submitted(ops) \/ p.who \notin Io, Submitted(ops) \subseteq ops',
           TypeOK'
    PROVE  QueueInv' /\ RequestOps'
<1>0. TypeOK /\ QueueInv /\ RequestOps
    BY Zenon DEF RequestInv
<1>1. QueueInv'
    BY <1>0, Frames, Zenon
<1>2. ASSUME NEW p \in ops', p.who \in Io
      PROVE  \E o \in ops : /\ p.kind = o.kind /\ p.who = o.who
                            /\ o.at # "sq" => p = o
                            /\ o.at = "sq" => p = Moved(o, "sub") /\ p.at = "sub"
  <2>1. ops \in SUBSET (SlotOp \cup IoOp) /\ p \in Submitted(ops)
    BY <1>0, <1>2, Zenon DEF TypeOK
  <2>. QED BY <2>1, SubmittedOps
<1>3. ASSUME NEW o \in ops', NEW p \in ops', o.who \in Io, o.who = p.who PROVE o = p
  <2>1. PICK a \in ops : /\ o.who = a.who
                         /\ a.at # "sq" => o = a
                         /\ a.at = "sq" => o = Moved(a, "sub")
    BY <1>2, <1>3, Zenon
  <2>2. PICK b \in ops : /\ p.who = b.who
                         /\ b.at # "sq" => p = b
                         /\ b.at = "sq" => p = Moved(b, "sub")
    BY <1>2, <1>3, Zenon
  <2>3. a = b
    BY <1>0, <1>3, <2>1, <2>2, Zenon DEF RequestOps
  <2>. QED BY <2>1, <2>2, <2>3, Zenon
<1>4. ASSUME NEW p \in ops'
      PROVE  /\ p.kind = "image_read" => phase'[p.who] = "image"
             /\ p.kind = "base_io" => phase'[p.who] = "base" /\ p.at # "sq"
  <2>1. p.kind \in {"image_read", "base_io"} => p.who \in Io
    BY OpOwner, Zenon DEF TypeOK
  <2>2. CASE p.who \in Io
    <3>1. PICK o \in ops : /\ p.kind = o.kind /\ p.who = o.who
                           /\ o.at # "sq" => p = o
                           /\ o.at = "sq" => p.at = "sub"
      BY <1>2, <2>2, Zenon
    <3>. QED BY <1>0, <3>1, Zenon DEF RequestOps
  <2>. QED BY <2>1, <2>2, Zenon
<1>5. ASSUME NEW o \in batch', o.kind = "image_read" PROVE o \in ops' /\ Finished(o)
  <2>1. o \in ops /\ Finished(o)
    BY <1>0, <1>5, Zenon DEF RequestOps
  <2>2. o.at # "sq"
    BY <2>1 DEF Finished
  <2>3. o \in Submitted(ops)
    BY <2>1, <2>2, Zenon DEF Submitted
  <2>. QED BY <2>1, <2>3, Zenon
<1>. QED BY <1>1, <1>3, <1>4, <1>5, Zenon DEF RequestOps

\* The kernel or the base bdev finishes an operation.
LEMMA RequestFinish ==
    ASSUME RequestInv, UNCHANGED <<phase, io, batch>>, NEW o \in ops, o.at = "sub",
           NEW a \in {"ok", "err"}, Finish(o, a)
    PROVE  QueueInv' /\ RequestOps'
<1>0. TypeOK /\ QueueInv /\ RequestOps
    BY Zenon DEF RequestInv
<1>1. PICK n : n = Moved(o, a)
    BY Zenon
<1>2. n.kind = o.kind /\ n.who = o.who /\ n.at = a
    BY <1>0, <1>1, OpMoved DEF TypeOK
<1>3. ops' = (ops \ {o}) \cup {n}
    BY <1>1, Zenon DEF Finish
<1>4. QueueInv'
    BY <1>0, Frames, Zenon
<1>5. \A p, q \in ops : p.who \in Io /\ p.who = q.who => p = q
    BY <1>0, Zenon DEF RequestOps
<1>6. ASSUME NEW p \in ops', NEW q \in ops', p.who \in Io, p.who = q.who PROVE p = q
  <2>1. CASE p = n /\ q = n
    BY <2>1, Zenon
  <2>2. CASE p \in ops \ {o} /\ q \in ops \ {o}
    BY <1>5, <1>6, <2>2, Zenon
  <2>3. CASE p = n /\ q \in ops \ {o}
    BY <1>2, <1>5, <1>6, <2>3, Zenon
  <2>4. CASE q = n /\ p \in ops \ {o}
    BY <1>2, <1>5, <1>6, <2>4, Zenon
  <2>. QED BY <1>3, <2>1, <2>2, <2>3, <2>4, Zenon
<1>7. \A p \in ops : /\ p.kind = "image_read" => phase[p.who] = "image"
                     /\ p.kind = "base_io" => phase[p.who] = "base" /\ p.at # "sq"
    BY <1>0, Zenon DEF RequestOps
<1>8. a # "sq"
    OBVIOUS
<1>9. \A p \in ops' : /\ p.kind = "image_read" => phase'[p.who] = "image"
                      /\ p.kind = "base_io" => phase'[p.who] = "base" /\ p.at # "sq"
    BY <1>2, <1>3, <1>7, <1>8, Zenon
<1>10. ~ Finished(o)
    BY DEF Finished
<1>11. \A p \in batch' : p.kind = "image_read" => p \in ops' /\ Finished(p)
    BY <1>0, <1>3, <1>10, Zenon DEF RequestOps
<1>. QED BY <1>4, <1>6, <1>9, <1>11, Zenon DEF RequestOps

\* A request without an operation changes phase, or gets its one operation.
LEMMA RequestServed ==
    ASSUME TypeOK, RequestOps, NEW i \in Io, phase[i] \notin {"image", "base"}, NEW x,
           phase' = [phase EXCEPT ![i] = x], UNCHANGED batch,
           \/ ops' = ops
           \/ x = "base" /\ ops' = ops \cup {Op("base_io", i, StartStripe(i), "sub")}
           \/ x = "image" /\ ops' = ops \cup {Op("image_read", i, StartStripe(i), "sq")}
    PROVE  RequestOps'
<1>1. ASSUME NEW o \in ops PROVE o.who # i
  <2>1. o.who \in Io => o.kind \in {"image_read", "base_io"}
    BY OpOwner, Zenon DEF TypeOK
  <2>. QED BY <2>1, Zenon DEF RequestOps
<1>2. phase'[i] = x /\ \A j : j # i => phase'[j] = phase[j]
    BY DEF TypeOK
<1>3. ASSUME NEW o \in ops
      PROVE  /\ o.kind = "image_read" => phase'[o.who] = "image"
             /\ o.kind = "base_io" => phase'[o.who] = "base" /\ o.at # "sq"
    BY <1>1, <1>2, Zenon DEF RequestOps
<1>4. \A o, p \in ops : o.who \in Io /\ o.who = p.who => o = p
    BY Zenon DEF RequestOps
<1>5. ops \subseteq ops'
    BY Zenon
<1>6. \A o \in batch' : o.kind = "image_read" => o \in ops' /\ Finished(o)
    BY <1>5, Zenon DEF RequestOps
<1>7. CASE ops' = ops
    BY <1>3, <1>4, <1>6, <1>7, Zenon DEF RequestOps
<1>8. ASSUME NEW n, n.who = i, ops' = ops \cup {n},
             n.kind = "base_io" => x = "base" /\ n.at = "sub",
             n.kind = "image_read" => x = "image"
      PROVE  RequestOps'
  <2>1. \A o, p \in ops' : o.who \in Io /\ o.who = p.who => o = p
    BY <1>1, <1>4, <1>8, Zenon
  <2>2. /\ n.kind = "image_read" => phase'[n.who] = "image"
        /\ n.kind = "base_io" => phase'[n.who] = "base" /\ n.at # "sq"
    BY <1>2, <1>8
  <2>3. \A o \in ops' : /\ o.kind = "image_read" => phase'[o.who] = "image"
                        /\ o.kind = "base_io" => phase'[o.who] = "base" /\ o.at # "sq"
    BY <1>3, <1>8, <2>2, Zenon
  <2>. QED BY <1>6, <2>1, <2>3, Zenon DEF RequestOps
<1>9. CASE x = "base" /\ ops' = ops \cup {Op("base_io", i, StartStripe(i), "sub")}
  <2>1. PICK n : n = Op("base_io", i, StartStripe(i), "sub")
    BY Zenon
  <2>2. n.who = i /\ n.kind = "base_io" /\ n.at = "sub"
    BY <2>1, OpFields
  <2>3. n.kind # "image_read"
    BY <2>2
  <2>. QED BY <1>8, <1>9, <2>1, <2>2, <2>3, Zenon
<1>10. CASE x = "image" /\ ops' = ops \cup {Op("image_read", i, StartStripe(i), "sq")}
  <2>1. PICK n : n = Op("image_read", i, StartStripe(i), "sq")
    BY Zenon
  <2>2. n.who = i /\ n.kind = "image_read"
    BY <2>1, OpFields
  <2>3. n.kind # "base_io"
    BY <2>2
  <2>. QED BY <1>8, <1>10, <2>1, <2>2, <2>3, Zenon
<1>. QED BY <1>7, <1>9, <1>10, Zenon

\* Submitting, serving, and what follows when a flush ends or a buffer comes late.
LEMMA RequestStep ==
    ASSUME RequestInv, NEW i \in Io,
           \/ ubi_submit_request(i)
           \/ ServeFailed(i) \/ ServeRead(i) \/ ServeWrite(i) \/ ServeFlush(i)
           \/ FlushCompletion(i) \/ LateGetBuf(i)
    PROVE  QueueInv' /\ RequestOps'
<1> USE DEF locals
<1>0. TypeOK /\ QueueInv /\ RequestOps
    BY Zenon DEF RequestInv
<1>1. CASE ubi_submit_request(i)
  <2>1. phase[i] = "new" /\ UNCHANGED <<ops, batch>>
    BY <1>1, Zenon DEF ubi_submit_request
  <2>2. \/ io' = io /\ phase' = [phase EXCEPT ![i] = "failed"]
        \/ io' = Append(io, i) /\ phase' = [phase EXCEPT ![i] = "queued"]
    BY <1>1, Zenon DEF ubi_submit_request
  <2>3. QueueInv'
    BY <1>0, <2>1, <2>2, QueueInvPhase, EnqueueQueue, Zenon
  <2>4. RequestOps'
    BY <1>0, <2>1, <2>2, RequestServed, Zenon
  <2>. QED BY <2>3, <2>4, Zenon
<1>2. CASE ServeFailed(i) \/ ServeRead(i) \/ ServeWrite(i) \/ ServeFlush(i)
  <2>1. Dequeue(i) /\ UNCHANGED batch
    BY <1>2, Zenon DEF ServeFailed, ServeRead, ServeWrite, ServeFlush
  <2>2. phase[i] = "queued" /\ \A x : phase' = [phase EXCEPT ![i] = x] => QueueInv'
    BY <1>0, <2>1, DequeueQueue, Zenon
  <2>3. PICK x : /\ phase' = [phase EXCEPT ![i] = x]
                 /\ \/ ops' = ops
                    \/ x = "base" /\ ops' = ops \cup {Op("base_io", i, StartStripe(i), "sub")}
                    \/ x = "image" /\ ops' = ops \cup {Op("image_read", i, StartStripe(i), "sq")}
    <3>1. CASE ServeFailed(i)
      BY <3>1, Zenon DEF ServeFailed
    <3>2. CASE ServeRead(i)
      <4>1. \/ get_buf_for_read_cb(i, active_reads + 1)
            \/ phase' = [phase EXCEPT ![i] = "getbuf"] /\ ops' = ops
        BY <3>2, Zenon DEF ServeRead
      <4>. QED BY <4>1, GetBufCases, Zenon
    <3>3. CASE ServeWrite(i)
      BY <3>3, Zenon DEF ServeWrite
    <3>4. CASE ServeFlush(i)
      BY <3>4, Zenon DEF ServeFlush
    <3>. QED BY <1>2, <3>1, <3>2, <3>3, <3>4, Zenon
  <2>4. phase[i] \notin {"image", "base"}
    BY <2>2
  <2>5. RequestOps'
    BY <1>0, <2>1, <2>3, <2>4, RequestServed, Zenon
  <2>. QED BY <2>2, <2>3, <2>5, Zenon
<1>3. CASE FlushCompletion(i) \/ LateGetBuf(i)
  <2>1. phase[i] \in {"flush", "getbuf"} /\ UNCHANGED <<io, batch>>
    BY <1>3, Zenon DEF FlushCompletion, LateGetBuf
  <2>2. PICK x : /\ phase' = [phase EXCEPT ![i] = x]
                 /\ \/ ops' = ops
                    \/ x = "base" /\ ops' = ops \cup {Op("base_io", i, StartStripe(i), "sub")}
                    \/ x = "image" /\ ops' = ops \cup {Op("image_read", i, StartStripe(i), "sq")}
    <3>1. CASE FlushCompletion(i)
      BY <3>1, Zenon DEF FlushCompletion
    <3>2. CASE LateGetBuf(i)
      BY <3>2, GetBufCases, Zenon DEF LateGetBuf
    <3>. QED BY <1>3, <3>1, <3>2, Zenon
  <2>3. phase[i] # "queued" /\ phase[i] \notin {"image", "base"}
    BY <2>1
  <2>. QED BY <1>0, <2>1, <2>2, <2>3, RequestServed, QueueInvPhase, Zenon
<1>. QED BY <1>1, <1>2, <1>3, Zenon

\* The operation of a request completes, and the request with it.
LEMMA RequestCompletes ==
    ASSUME RequestInv, NEW o,
           (o \in batch /\ ubi_complete_read_from_image(o)) \/ (o \in ops /\ ubi_io_completion_cb(o))
    PROVE  /\ QueueInv' /\ RequestOps'
           /\ o.who \in Io /\ phase[o.who] \in {"image", "base"}
           /\ ubi_complete_io(o.who, o.at = "ok", active_reads)
<1> DEFINE i == o.who
<1> USE DEF locals
<1>0. TypeOK /\ QueueInv /\ RequestOps
    BY Zenon DEF RequestInv
<1>1. /\ o \in ops
      /\ \/ o.kind = "image_read" /\ phase[i] = "image" /\ batch' = batch \ {o}
         \/ o.kind = "base_io" /\ phase[i] = "base" /\ batch' = batch
    BY <1>0, Zenon DEF RequestOps, ubi_complete_read_from_image, ubi_io_completion_cb
<1>2. /\ io' = io /\ ops' = ops \ {o} /\ ubi_complete_io(o.who, o.at = "ok", active_reads)
    BY Zenon DEF ubi_complete_read_from_image, ubi_io_completion_cb
<1>3. PICK x : phase' = [phase EXCEPT ![i] = x]
    BY <1>2, Zenon DEF ubi_complete_io
<1>4. i \in Io /\ phase[i] \in {"image", "base"}
    BY <1>0, <1>1, OpOwner, Zenon DEF TypeOK
<1>5. QueueInv'
  <2>1. phase[i] # "queued"
    BY <1>4
  <2>. QED BY <1>0, <1>2, <1>3, <1>4, <2>1, QueueInvPhase, Zenon
<1>6. \A p, q \in ops : p.who \in Io /\ p.who = q.who => p = q
    BY <1>0, Zenon DEF RequestOps
<1>7. ASSUME NEW p \in ops'
      PROVE  /\ p.kind = "image_read" => phase'[p.who] = "image"
             /\ p.kind = "base_io" => phase'[p.who] = "base" /\ p.at # "sq"
  <2>1. p \in ops /\ p.who # i
    BY <1>1, <1>2, <1>4, <1>6, Zenon
  <2>2. phase'[p.who] = phase[p.who]
    BY <1>0, <1>3, <2>1 DEF TypeOK
  <2>. QED BY <1>0, <2>1, <2>2, Zenon DEF RequestOps
<1>8. ASSUME NEW p \in batch', p.kind = "image_read" PROVE p \in ops' /\ Finished(p)
  <2>1. p \in batch /\ p # o
    BY <1>1, <1>8
  <2>. QED BY <1>0, <1>2, <1>8, <2>1, Zenon DEF RequestOps
<1>9. RequestOps'
    BY <1>2, <1>6, <1>7, <1>8, Zenon DEF RequestOps
<1>. QED BY <1>2, <1>4, <1>5, <1>9, Zenon

\* Fetches begin, move and end without touching requests.
LEMMA RequestFetches ==
    ASSUME RequestInv, TypeOK',
           \/ PollBegin \/ ReapEnd \/ StartEnd \/ ServeStop \/ SubmitRing
           \/ \E o \in batch : ubi_complete_fetch_stripe(o)
           \/ \E k \in free : ubi_start_fetch_stripe(k)
           \/ \E o \in ops : write_stripe_io_completion(o)
    PROVE  QueueInv' /\ RequestOps'
<1> USE DEF locals, requests
<1>0. TypeOK /\ RequestOps
    BY Zenon DEF RequestInv
<1>1. CASE PollBegin \/ ReapEnd \/ StartEnd \/ ServeStop
  <2>1. UNCHANGED <<phase, io, ops>> /\ \A p \in batch' : p \in batch \/ (p \in ops /\ Finished(p))
    BY <1>1, Zenon DEF PollBegin, ReapEnd, StartEnd, ServeStop
  <2>. QED BY <2>1, RequestOthers, Zenon
<1>2. CASE SubmitRing
  <2>1. UNCHANGED <<phase, io, batch>> /\ (ops' = ops \/ ops' = Submitted(ops))
    BY <1>2, Zenon DEF SubmitRing
  <2>. QED BY <2>1, RequestOthers, RequestRing, Zenon
<1>3. ASSUME NEW o \in batch, ubi_complete_fetch_stripe(o) PROVE QueueInv' /\ RequestOps'
  <2>1. PICK n : n = Op("stripe_write", o.who, stripe_idx[o.who], "sub")
    BY Zenon
  <2>2. /\ o.kind = "fetch" /\ UNCHANGED <<phase, io>> /\ batch' = batch \ {o}
        /\ ops' = ops \ {o} \/ ops' = (ops \ {o}) \cup {n}
    BY <1>3, <2>1, Zenon DEF ubi_complete_fetch_stripe
  <2>3. o.who \notin Io /\ n.who = o.who
    <3>1. o.kind \notin {"image_read", "base_io"}
      BY <2>2
    <3>2. n.who = o.who
      BY <2>1, OpFields
    <3>. QED BY <1>0, <3>1, <3>2, OpOwner, Zenon DEF TypeOK
  <2>4. \A p : p.who \in Io => (p \in ops' <=> p \in ops)
    BY <2>2, <2>3, Zenon
  <2>. QED BY <2>2, <2>4, RequestOthers, Zenon
<1>4. ASSUME NEW k \in free, ubi_start_fetch_stripe(k) PROVE QueueInv' /\ RequestOps'
  <2> DEFINE s == Head(stripe_fetch_queue)
  <2>1. UNCHANGED <<phase, io, batch>>
    BY <1>4, Zenon DEF ubi_start_fetch_stripe
  <2>2. k \notin Io
    BY <1>0, IoAssumption, Zenon DEF TypeOK
  <2>3. CASE ops' = Submitted(ops) \cup {Op("fetch", k, s, "sub")}
    <3>1. PICK n : n = Op("fetch", k, s, "sub")
      BY Zenon
    <3>2. n.who = k
      BY <3>1, OpFields
    <3>3. /\ \A p \in ops' : p \in Submitted(ops) \/ p.who \notin Io
          /\ Submitted(ops) \subseteq ops'
      BY <2>2, <2>3, <3>1, <3>2, Zenon
    <3>. QED BY <2>1, <3>3, RequestRing, Zenon
  <2>4. CASE ops' = ops \cup {Op("fetch", k, s, "sq")}
    <3>1. PICK n : n = Op("fetch", k, s, "sq")
      BY Zenon
    <3>2. n.who = k
      BY <3>1, OpFields
    <3>3. \A p : p.who \in Io => (p \in ops' <=> p \in ops)
      BY <2>2, <2>4, <3>1, <3>2, Zenon
    <3>. QED BY <2>1, <3>3, RequestOthers, Zenon
  <2>. QED BY <1>4, <2>3, <2>4, Zenon DEF ubi_start_fetch_stripe
<1>5. ASSUME NEW o \in ops, write_stripe_io_completion(o) PROVE QueueInv' /\ RequestOps'
  <2>1. o.kind = "stripe_write" /\ UNCHANGED <<phase, io, batch>> /\ ops' = ops \ {o}
    BY <1>5, Zenon DEF write_stripe_io_completion
  <2>2. o.who \notin Io
    <3>1. o.kind \notin {"image_read", "base_io"}
      BY <2>1
    <3>. QED BY <1>0, <3>1, OpOwner, Zenon DEF TypeOK
  <2>3. \A p : p.who \in Io => (p \in ops' <=> p \in ops)
    BY <2>1, <2>2, Zenon
  <2>. QED BY <2>1, <2>3, RequestOthers, Zenon
<1>. QED BY <1>1, <1>2, <1>3, <1>4, <1>5, Zenon

\* Every step preserves how requests are served.
LEMMA RequestNext ==
    ASSUME RequestInv, [Next]_vars
    PROVE  RequestInv'
<1>0. TypeOK' /\ PhaseInv'
    BY TypeNext, PhaseNext, Zenon DEF RequestInv
<1> SUFFICES QueueInv' /\ RequestOps'
    BY <1>0, Zenon DEF RequestInv
<1>1. ASSUME NEW i \in Io,
             \/ ubi_submit_request(i)
             \/ ServeFailed(i) \/ ServeRead(i) \/ ServeWrite(i) \/ ServeFlush(i)
             \/ FlushCompletion(i) \/ LateGetBuf(i)
      PROVE  QueueInv' /\ RequestOps'
    BY <1>1, RequestStep, Zenon
<1>2. CASE \/ PollBegin \/ ReapEnd \/ StartEnd \/ ServeStop \/ SubmitRing
           \/ \E o \in batch : ubi_complete_fetch_stripe(o)
           \/ \E k \in free : ubi_start_fetch_stripe(k)
           \/ \E o \in ops : write_stripe_io_completion(o)
    BY <1>0, <1>2, RequestFetches, Zenon
<1>3. CASE \/ \E o \in batch : ubi_complete_read_from_image(o)
           \/ \E o \in ops : ubi_io_completion_cb(o)
    BY <1>3, RequestCompletes, Zenon
<1>4. ASSUME NEW o \in ops, KernelRead(o) \/ BaseStripeWrite(o) \/ BaseClientIo(o)
      PROVE  QueueInv' /\ RequestOps'
  <2>1. /\ o.at = "sub" /\ \E a \in {"ok", "err"} : Finish(o, a)
        /\ UNCHANGED <<phase, io, batch>>
    BY <1>4, Zenon DEF KernelRead, BaseStripeWrite, BaseClientIo, locals, requests
  <2>. QED BY <2>1, RequestFinish, Zenon
<1>5. CASE UNCHANGED vars
  <2>1. UNCHANGED <<phase, io, ops, batch>>
    BY <1>5, Zenon DEF vars, locals, requests
  <2>. QED BY <1>0, <2>1, RequestOthers, Zenon
<1>. QED
    BY <1>1, <1>2, <1>3, <1>4, <1>5, Zenon DEF Next, Poll, Environment, Completion

----------------------------------------------------------------------------
\* How fetches run, and what they move.

\* Unless a fetch cannot be submitted, every step preserves how fetches run.
LEMMA ControlNext ==
    ASSUME "fetch_submit" \notin Faults, ControlInv, [Next]_vars
    PROVE  ControlInv'
<1>0. TypeOK'
    BY TypeNext, Zenon DEF ControlInv
<1>1. ASSUME NEW i \in Io, ubi_submit_request(i) PROVE ControlInv'
    BY <1>0, <1>1, ControlSubmit, Zenon
<1>2. CASE PollBegin \/ ReapEnd \/ StartEnd \/ ServeStop
    BY <1>0, <1>2, ControlPoll, Zenon
<1>3. CASE SubmitRing
    BY <1>0, <1>3, ControlSubmitRing, Zenon
<1>4. ASSUME NEW o \in batch, ubi_complete_fetch_stripe(o) PROVE ControlInv'
    BY <1>0, <1>4, ControlCompleteFetch, Zenon
<1>5. ASSUME NEW o, ubi_complete_read_from_image(o) \/ (o \in ops /\ ubi_io_completion_cb(o))
      PROVE  ControlInv'
    BY <1>0, <1>5, ControlCompletion, Zenon
<1>6. ASSUME NEW k \in free, ubi_start_fetch_stripe(k) PROVE ControlInv'
    BY <1>0, <1>6, ControlStartFetch, Zenon
<1>7. ASSUME NEW i \in Io, ServeFailed(i) \/ ServeRead(i) \/ ServeWrite(i) \/ ServeFlush(i)
      PROVE  ControlInv'
    BY <1>0, <1>7, ControlServe, Zenon
<1>8. ASSUME NEW o \in ops, KernelRead(o) \/ BaseStripeWrite(o) \/ BaseClientIo(o)
      PROVE  ControlInv'
    BY <1>0, <1>8, ControlEnvironment, Zenon
<1>9. ASSUME NEW o \in ops, write_stripe_io_completion(o) PROVE ControlInv'
    BY <1>0, <1>9, ControlStripeCompletion, Zenon
<1>10. ASSUME NEW i \in Io, FlushCompletion(i) \/ LateGetBuf(i) PROVE ControlInv'
    BY <1>0, <1>10, ControlLate, Zenon
<1>11. CASE UNCHANGED vars
    BY <1>0, <1>11, Frames, Zenon DEF ControlInv, vars, stripes, requests, slots, reads, locals
<1>. QED
    BY <1>1, <1>2, <1>3, <1>4, <1>5, <1>6, <1>7, <1>8, <1>9, <1>10, <1>11, Zenon
    DEF Next, Poll, Environment, Completion

\* In the safe setting no request that spans stripes is accepted.
LEMMA SpanNext ==
    ASSUME SafeSetting, ControlInv, SpanInv, [Next]_vars
    PROVE  SpanInv'
<1> USE DEF stripes, requests, slots, reads, locals
<1>0. TypeOK /\ QueueInv /\ OpsInv /\ LocalsInv
    BY Zenon DEF ControlInv
<1>1. ASSUME NEW i \in Io, NEW x, phase' = [phase EXCEPT ![i] = x], phase[i] \notin {"new", "failed"}
      PROVE  SpanInv'
    BY <1>0, <1>1, SpanPhase, Zenon
<1>2. ASSUME UNCHANGED phase PROVE SpanInv'
    BY <1>2, Frames, Zenon
<1>3. ASSUME NEW i \in Io, ubi_submit_request(i) PROVE SpanInv'
  <2>1. \/ phase' = [phase EXCEPT ![i] = "failed"]
        \/ /\ phase' = [phase EXCEPT ![i] = "queued"]
           /\ ~ (TriggersFetch(i) /\ StartStripe(i) # EndStripe(i))
    BY <1>3, Zenon DEF ubi_submit_request
  <2>2. ~ (TriggersFetch(i) /\ StartStripe(i) # EndStripe(i))
          => (i.type # "FLUSH" => StartStripe(i) = EndStripe(i))
    BY RequestType, Zenon DEF TriggersFetch, SafeSetting
  <2>. QED BY <1>0, <2>1, <2>2, SpanPhase, Zenon
<1>4. ASSUME NEW i \in Io, ServeFailed(i) \/ ServeRead(i) \/ ServeWrite(i) \/ ServeFlush(i)
      PROVE  SpanInv'
  <2>1. Dequeue(i)
    BY <1>4, Zenon DEF ServeFailed, ServeRead, ServeWrite, ServeFlush
  <2>2. phase[i] \notin {"new", "failed"}
    BY <1>0, <2>1, DequeueQueue, Zenon
  <2>3. \E x : phase' = [phase EXCEPT ![i] = x]
    <3>1. CASE ServeRead(i)
      BY <3>1, GetBufCases, Zenon DEF ServeRead
    <3>. QED BY <1>4, <3>1, Zenon DEF ServeFailed, ServeWrite, ServeFlush
  <2>. QED BY <1>1, <2>2, <2>3, Zenon
<1>5. ASSUME NEW i \in Io, FlushCompletion(i) \/ LateGetBuf(i) PROVE SpanInv'
  <2>1. phase[i] \notin {"new", "failed"}
    BY <1>5, Zenon DEF FlushCompletion, LateGetBuf
  <2>2. \E x : phase' = [phase EXCEPT ![i] = x]
    BY <1>5, GetBufCases, Zenon DEF FlushCompletion, LateGetBuf
  <2>. QED BY <1>1, <2>1, <2>2, Zenon
<1>6. ASSUME NEW o, ubi_complete_read_from_image(o) \/ (o \in ops /\ ubi_io_completion_cb(o))
      PROVE  SpanInv'
  <2>1. o \in ops /\ o.kind \in {"image_read", "base_io"}
    BY <1>0, <1>6, Zenon DEF LocalsInv, ubi_complete_read_from_image, ubi_io_completion_cb
  <2>2. o.who \in Io
    BY <1>0, <2>1, OpOwner, Zenon DEF TypeOK
  <2>3. phase[o.who] \in {"image", "base"}
    BY <1>0, <2>1, Zenon DEF OpsInv
  <2>4. \E x : phase' = [phase EXCEPT ![o.who] = x]
    BY <1>6, Zenon DEF ubi_complete_read_from_image, ubi_io_completion_cb, ubi_complete_io
  <2>5. phase[o.who] \notin {"new", "failed"}
    BY <2>3
  <2>. QED BY <1>1, <2>2, <2>4, <2>5, Zenon
<1>7. CASE \/ PollBegin \/ ReapEnd \/ StartEnd \/ ServeStop \/ SubmitRing
           \/ \E o \in batch : ubi_complete_fetch_stripe(o)
           \/ \E k \in free : ubi_start_fetch_stripe(k)
           \/ \E o \in ops : write_stripe_io_completion(o)
  <2>1. UNCHANGED phase
    BY <1>7, Zenon DEF PollBegin, ReapEnd, StartEnd, ServeStop, SubmitRing,
       ubi_complete_fetch_stripe, ubi_start_fetch_stripe, write_stripe_io_completion
  <2>. QED BY <1>2, <2>1, Zenon
<1>8. CASE \E o \in ops : KernelRead(o) \/ BaseStripeWrite(o) \/ BaseClientIo(o)
  <2>1. UNCHANGED phase
    BY <1>8, Zenon DEF KernelRead, BaseStripeWrite, BaseClientIo
  <2>. QED BY <1>2, <2>1, Zenon
<1>9. CASE UNCHANGED vars
    BY <1>2, <1>9, Zenon DEF vars
<1> HIDE DEF stripes, requests, slots, reads, locals
<1>. QED
    BY <1>3, <1>4, <1>5, <1>6, <1>7, <1>8, <1>9, Zenon DEF Next, Poll, Environment, Completion

\* In the safe setting every step preserves what the operations hold.
LEMMA DataNext ==
    ASSUME SafeSetting, IInv, PhaseInv, [Next]_vars
    PROVE  DataInv'
<1>0. ControlInv /\ TypeOK /\ OpsInv /\ LocalsInv /\ DataInv /\ "fetch_submit" \notin Faults
    BY Zenon DEF IInv, ControlInv, SafeSetting
<1>1. ASSUME NEW i \in Io, ubi_submit_request(i) PROVE DataInv'
    BY <1>0, <1>1, DataSubmit, Zenon
<1>2. CASE PollBegin \/ ReapEnd \/ StartEnd \/ ServeStop \/ SubmitRing
    BY <1>0, <1>2, DataPoll, Zenon
<1>3. ASSUME NEW o \in batch, ubi_complete_fetch_stripe(o) PROVE DataInv'
    BY <1>0, <1>3, DataCompleteFetch, Zenon
<1>4. ASSUME NEW o \in batch, ubi_complete_read_from_image(o) PROVE DataInv'
  <2>1. o \in ops
    BY <1>0, Zenon DEF LocalsInv
  <2>. QED BY <1>0, <1>4, <2>1, DataCompletion, Zenon
<1>5. ASSUME NEW k \in free, ubi_start_fetch_stripe(k) PROVE DataInv'
    BY <1>0, <1>5, DataStartFetch, Zenon
<1>6. ASSUME NEW i \in Io,
             \/ ServeFailed(i) \/ ServeRead(i) \/ ServeWrite(i) \/ ServeFlush(i)
             \/ FlushCompletion(i) \/ LateGetBuf(i)
      PROVE  DataInv'
    BY <1>0, <1>6, DataServe, Zenon
<1>7. ASSUME NEW o \in ops, KernelRead(o) PROVE DataInv'
    BY <1>0, <1>7, DataKernelRead, Zenon
<1>8. ASSUME NEW o \in ops, BaseStripeWrite(o) PROVE DataInv'
    BY <1>0, <1>8, DataBaseStripeWrite, Zenon
<1>9. ASSUME NEW o \in ops, BaseClientIo(o) PROVE DataInv'
    BY <1>9, DataBaseClientIo, Zenon
<1>10. ASSUME NEW o \in ops, write_stripe_io_completion(o) \/ ubi_io_completion_cb(o) PROVE DataInv'
    BY <1>0, <1>10, DataCompletion, Zenon
<1>11. CASE UNCHANGED vars
    BY <1>0, <1>11, Frames, Zenon DEF vars, stripes, slots
<1>. QED
    BY <1>1, <1>2, <1>3, <1>4, <1>5, <1>6, <1>7, <1>8, <1>9, <1>10, <1>11, Zenon
    DEF Next, Poll, Environment, Completion

\* In the safe setting every step of the channel preserves the invariant.
LEMMA InvNext ==
    ASSUME SafeSetting, IInv, PhaseInv, [Next]_vars
    PROVE  IInv'
<1>1. ControlInv'
    BY ControlNext, Zenon DEF IInv, SafeSetting
<1>2. SpanInv'
    BY SpanNext, Zenon DEF IInv
<1>3. DataInv'
    BY DataNext, Zenon
<1>. QED BY <1>1, <1>2, <1>3, Zenon DEF IInv

\* What a step may do to a stripe's status: only an INFLIGHT stripe settles, and
\* only write_stripe_io_completion makes it FETCHED.
LEMMA StatusStep ==
    ASSUME "fetch_submit" \notin Faults, ControlInv, [Next]_vars
    PROVE  /\ \A s \in Stripe : stripe_status[s] \in {"FETCHED", "FAILED"}
                                  => stripe_status'[s] = stripe_status[s]
           /\ \/ \E o \in ops : write_stripe_io_completion(o)
              \/ \A s \in Stripe : stripe_status'[s] = "FETCHED" <=> stripe_status[s] = "FETCHED"
<1> USE DEF stripes, requests, slots, reads, locals, ubi_set_stripe_status
<1>0. TypeOK /\ OpsInv /\ LocalsInv /\ StripeFetchedOnce
    BY Zenon DEF ControlInv
<1>1. ASSUME NEW o \in ops, o.who \in Slot
      PROVE  stripe_idx[o.who] \in Stripe /\ stripe_status[stripe_idx[o.who]] = "INFLIGHT"
  <2>1. active[o.who]
    BY <1>0, <1>1, Zenon DEF OpsInv
  <2>. QED BY <1>0, <1>1, <2>1, Zenon DEF StripeFetchedOnce, Fetching, TypeOK
<1>2. CASE UNCHANGED stripe_status
    BY <1>2, Zenon
<1>3. ASSUME NEW i \in Io, ubi_submit_request(i)
      PROVE  \A s \in Stripe : stripe_status'[s] = stripe_status[s]
                \/ (stripe_status[s] = "NOT_FETCHED" /\ stripe_status'[s] = "INFLIGHT")
  <2>1. \/ UNCHANGED stripe_status
        \/ /\ stripe_status[StartStripe(i)] = "NOT_FETCHED"
           /\ stripe_status' = [stripe_status EXCEPT ![StartStripe(i)] = "INFLIGHT"]
    BY <1>3, Zenon DEF ubi_submit_request, NeedsFetch
  <2>. QED BY <1>0, <2>1, RequestType, Zenon DEF TypeOK
<1>4. ASSUME NEW o \in batch, ubi_complete_fetch_stripe(o)
      PROVE  \A s \in Stripe : stripe_status'[s] = stripe_status[s]
                \/ (stripe_status[s] = "INFLIGHT" /\ stripe_status'[s] = "FAILED")
  <2>1. o \in ops /\ o.who \in Slot
    BY <1>0, <1>4, OpOwner, Zenon DEF LocalsInv, TypeOK, ubi_complete_fetch_stripe
  <2>2. \/ UNCHANGED stripe_status
        \/ stripe_status' = [stripe_status EXCEPT ![stripe_idx[o.who]] = "FAILED"]
    BY <1>4, Zenon DEF ubi_complete_fetch_stripe, ubi_fail_stripe_fetch
  <2>. QED BY <1>0, <1>1, <2>1, <2>2, Zenon DEF TypeOK
<1>5. ASSUME NEW o \in ops, write_stripe_io_completion(o)
      PROVE  \A s \in Stripe : stripe_status'[s] = stripe_status[s]
                \/ (stripe_status[s] = "INFLIGHT" /\ stripe_status'[s] = "FETCHED")
  <2>1. o.who \in Slot
    BY <1>0, <1>5, OpOwner, Zenon DEF TypeOK, write_stripe_io_completion
  <2>2. stripe_status' = [stripe_status EXCEPT ![stripe_idx[o.who]] = "FETCHED"]
    BY <1>5, Zenon DEF write_stripe_io_completion
  <2>. QED BY <1>0, <1>1, <2>1, <2>2, Zenon DEF TypeOK
<1>6. \/ UNCHANGED stripe_status
      \/ \E i \in Io : ubi_submit_request(i)
      \/ \E o \in batch : ubi_complete_fetch_stripe(o)
      \/ \E o \in ops : write_stripe_io_completion(o)
  <2>1. CASE \E k \in free : ubi_start_fetch_stripe(k)
    BY <2>1, StartCases, Zenon
  <2>2. CASE PollBegin \/ ReapEnd \/ StartEnd \/ ServeStop \/ SubmitRing
    BY <2>2, Zenon DEF PollBegin, ReapEnd, StartEnd, ServeStop, SubmitRing
  <2>3. CASE \E o \in batch : ubi_complete_read_from_image(o)
    BY <2>3, Zenon DEF ubi_complete_read_from_image
  <2>4. CASE \E i \in Io : ServeFailed(i) \/ ServeRead(i) \/ ServeWrite(i) \/ ServeFlush(i)
    BY <2>4, Zenon DEF ServeFailed, ServeRead, ServeWrite, ServeFlush
  <2>5. CASE \E o \in ops : \/ KernelRead(o) \/ BaseStripeWrite(o) \/ BaseClientIo(o)
                            \/ ubi_io_completion_cb(o)
    BY <2>5, Zenon DEF KernelRead, BaseStripeWrite, BaseClientIo, ubi_io_completion_cb
  <2>6. CASE \E i \in Io : FlushCompletion(i) \/ LateGetBuf(i)
    BY <2>6, Zenon DEF FlushCompletion, LateGetBuf
  <2>7. CASE UNCHANGED vars
    BY <2>7, Zenon DEF vars
  <2>. QED BY <2>1, <2>2, <2>3, <2>4, <2>5, <2>6, <2>7, Zenon DEF Next, Poll, Environment, Completion
<1>. QED BY <1>2, <1>3, <1>4, <1>5, <1>6, Zenon

\* The metadata in memory changes with a stripe's status, and the count with it.
LEMMA HeadersStep ==
    ASSUME [Next]_vars
    PROVE  \/ \E o \in ops : write_stripe_io_completion(o)
           \/ UNCHANGED <<stripe_headers, stripes_fetched>>
<1> USE DEF stripes, requests, slots, reads, locals, ubi_set_stripe_status
<1>1. ASSUME NEW i \in Io, ubi_submit_request(i) PROVE UNCHANGED <<stripe_headers, stripes_fetched>>
    BY <1>1, Zenon DEF ubi_submit_request
<1>2. ASSUME NEW o \in batch, ubi_complete_fetch_stripe(o)
      PROVE  UNCHANGED <<stripe_headers, stripes_fetched>>
    BY <1>2, Zenon DEF ubi_complete_fetch_stripe, ubi_fail_stripe_fetch
<1>3. ASSUME NEW k \in free, ubi_start_fetch_stripe(k)
      PROVE  UNCHANGED <<stripe_headers, stripes_fetched>>
    BY <1>3, Zenon DEF ubi_start_fetch_stripe
<1>4. CASE PollBegin \/ ReapEnd \/ StartEnd \/ ServeStop \/ SubmitRing
    BY <1>4, Zenon DEF PollBegin, ReapEnd, StartEnd, ServeStop, SubmitRing
<1>5. CASE \E o \in batch : ubi_complete_read_from_image(o)
    BY <1>5, Zenon DEF ubi_complete_read_from_image
<1>6. CASE \E i \in Io : ServeFailed(i) \/ ServeRead(i) \/ ServeWrite(i) \/ ServeFlush(i)
    BY <1>6, Zenon DEF ServeFailed, ServeRead, ServeWrite, ServeFlush
<1>7. CASE \E o \in ops : \/ KernelRead(o) \/ BaseStripeWrite(o) \/ BaseClientIo(o)
                          \/ ubi_io_completion_cb(o)
    BY <1>7, Zenon DEF KernelRead, BaseStripeWrite, BaseClientIo, ubi_io_completion_cb
<1>8. CASE \E i \in Io : FlushCompletion(i) \/ LateGetBuf(i)
    BY <1>8, Zenon DEF FlushCompletion, LateGetBuf
<1>9. CASE UNCHANGED vars
    BY <1>9, Zenon DEF vars
<1> HIDE DEF stripes, requests, slots, reads, locals, ubi_set_stripe_status
<1>. QED BY <1>1, <1>2, <1>3, <1>4, <1>5, <1>6, <1>7, <1>8, <1>9, Zenon
         DEF Next, Poll, Environment, Completion

\* Every step of the channel is a step of the disk, or invisible.
LEMMA RefineNext ==
    ASSUME SafeSetting, IInv, PhaseInv, [Next]_vars
    PROVE  [VD!Next]_(VD!vars)
<1> USE DEF stripes, requests, slots, reads, locals
<1>0. TypeOK /\ OpsInv /\ LocalsInv /\ TypeOK' /\ OpsInv'
    BY InvNext, Zenon DEF IInv, ControlInv
<1>1. ASSUME NEW i \in Io, ubi_submit_request(i) PROVE [VD!Next]_(VD!vars)
    BY <1>0, <1>1, RefineSubmit, Zenon
<1>2. CASE \/ PollBegin \/ ReapEnd \/ StartEnd \/ ServeStop \/ SubmitRing
           \/ \E o \in batch : ubi_complete_fetch_stripe(o)
           \/ \E k \in free : ubi_start_fetch_stripe(k)
    BY <1>0, <1>2, RefinePoll, Zenon
<1>3. ASSUME NEW o \in batch, ubi_complete_read_from_image(o) PROVE [VD!Next]_(VD!vars)
  <2>1. o \in ops /\ Finished(o)
    BY <1>0, Zenon DEF LocalsInv
  <2>. QED BY <1>3, <2>1, RefineCompletion, Zenon DEF ubi_complete_read_from_image
<1>4. ASSUME NEW i \in Io, ServeFailed(i) \/ ServeRead(i) \/ ServeWrite(i) \/ ServeFlush(i)
      PROVE  [VD!Next]_(VD!vars)
    BY <1>4, RefineServe, Zenon
<1>5. ASSUME NEW o \in ops, KernelRead(o) \/ BaseStripeWrite(o) PROVE [VD!Next]_(VD!vars)
    BY <1>0, <1>5, RefineFetchIo, Zenon
<1>6. ASSUME NEW o \in ops, BaseClientIo(o) PROVE [VD!Next]_(VD!vars)
    BY <1>0, <1>6, RefineClientIo, Zenon
<1>7. ASSUME NEW o \in ops, write_stripe_io_completion(o) PROVE [VD!Next]_(VD!vars)
    BY <1>0, <1>7, RefineStripeCompletion, Zenon
<1>8. ASSUME NEW o \in ops, ubi_io_completion_cb(o) PROVE [VD!Next]_(VD!vars)
    BY <1>8, RefineCompletion, Zenon DEF ubi_io_completion_cb
<1>9. ASSUME NEW i \in Io, FlushCompletion(i) PROVE [VD!Next]_(VD!vars)
    BY <1>9, RefineFlush, Zenon
<1>10. ASSUME NEW i \in Io, LateGetBuf(i) PROVE [VD!Next]_(VD!vars)
    BY <1>10, RefineGetBuf, Zenon DEF LateGetBuf, PhaseInv
<1>11. CASE UNCHANGED vars
  <2>1. View' = View /\ IoState' = IoState /\ result' = result
    BY <1>11, Zenon DEF vars, View, IoState, Effective
  <2>. QED BY <2>1, AbstractStutter, Zenon
<1>. QED
    BY <1>1, <1>2, <1>3, <1>4, <1>5, <1>6, <1>7, <1>8, <1>9, <1>10, <1>11, Zenon
    DEF Next, Poll, Environment, Completion

----------------------------------------------------------------------------
\* Counting.

\* The facts about finite sets that the counting lemmas use. They are proved
\* below, from the library's theorems.
FiniteSetFacts ==
    /\ IsFiniteSet(Stripe)
    /\ IsFiniteSet({}) /\ Cardinality({}) = 0
    /\ \A S : IsFiniteSet(S) => Cardinality(S) \in Nat
    /\ \A S : IsFiniteSet(S) => \A T \in SUBSET S : IsFiniteSet(T)
    /\ \A S, x : IsFiniteSet(S) /\ x \notin S
                 => IsFiniteSet(S \cup {x}) /\ Cardinality(S \cup {x}) = Cardinality(S) + 1
    /\ \A S, x : IsFiniteSet(S) /\ x \in S
                 => IsFiniteSet(S \ {x}) /\ Cardinality(S \ {x}) = Cardinality(S) - 1
    /\ \A S, T, f : /\ IsFiniteSet(T) /\ f \in [S -> T]
                    /\ \A a, b \in S : f[a] = f[b] => a = b
                    => IsFiniteSet(S) /\ Cardinality(S) <= Cardinality(T)

\* Every step keeps the metadata in memory and the count with the statuses.
LEMMA MetadataNext ==
    ASSUME FiniteSetFacts, "fetch_submit" \notin Faults, ControlInv, MetadataTracksFetches,
           [Next]_vars
    PROVE  MetadataTracksFetches'
<1> DEFINE F == {s \in Stripe : stripe_status[s] = "FETCHED"}
<1>0. TypeOK /\ OpsInv /\ StripeFetchedOnce
  BY Zenon DEF ControlInv
<1>1. CASE UNCHANGED <<stripe_headers, stripes_fetched>> /\
           \A s \in Stripe : stripe_status'[s] = "FETCHED" <=> stripe_status[s] = "FETCHED"
  <2>1. F' = F
    BY <1>1, Zenon
  <2>. QED BY <1>1, <2>1, Zenon DEF MetadataTracksFetches
<1>2. ASSUME NEW o \in ops, write_stripe_io_completion(o) PROVE MetadataTracksFetches'
  <2> DEFINE s == stripe_idx[o.who]
  <2>1. o.who \in Slot
    BY <1>0, <1>2, OpOwner, Zenon DEF TypeOK, write_stripe_io_completion
  <2>2. s \in Stripe /\ stripe_status[s] = "INFLIGHT"
    <3>1. active[o.who]
      BY <1>0, <2>1, Zenon DEF OpsInv
    <3>. QED BY <1>0, <2>1, <3>1, Zenon DEF StripeFetchedOnce, Fetching, TypeOK
  <2>3. /\ stripe_status' = [stripe_status EXCEPT ![s] = "FETCHED"]
        /\ stripe_headers' = [stripe_headers EXCEPT ![s] = 1]
        /\ stripes_fetched' = stripes_fetched + 1
    BY <1>2, Zenon DEF write_stripe_io_completion, ubi_set_stripe_status
  <2> HIDE DEF s
  <2>4. F' = F \cup {s} /\ s \notin F
    BY <1>0, <2>2, <2>3, Zenon DEF TypeOK
  <2>5. Cardinality(F') = Cardinality(F) + 1
    <3>1. IsFiniteSet(F)
      BY Zenon DEF FiniteSetFacts
    <3>. QED BY <2>4, <3>1, Zenon DEF FiniteSetFacts
  <2>6. \A t \in Stripe : stripe_headers'[t] = 1 <=> stripe_status'[t] = "FETCHED"
    BY <1>0, <2>2, <2>3, Zenon DEF MetadataTracksFetches, TypeOK
  <2>. QED BY <2>3, <2>5, <2>6, Zenon DEF MetadataTracksFetches
<1>. QED BY <1>1, <1>2, HeadersStep, StatusStep, Zenon

\* The reads that active_reads counts are finitely many.
ReadsInv == IsFiniteSet({i \in Io : Reading(i)}) /\ ActiveReadsExact

\* A read starts.
LEMMA ReadStarts ==
    ASSUME FiniteSetFacts, TypeOK, ReadsInv, NEW i \in Io, i.type = "READ", ~ Reading(i),
           active_reads < UBI_MAX_CONCURRENT_READS, active_reads' = active_reads + 1,
           NEW x \in {"getbuf", "image", "base"}, phase' = [phase EXCEPT ![i] = x]
    PROVE  ReadsInv'
<1> DEFINE R == {j \in Io : Reading(j)}
<1>1. R' = R \cup {i} /\ i \notin R
    BY Zenon DEF Reading, TypeOK
<1>2. IsFiniteSet(R') /\ Cardinality(R') = Cardinality(R) + 1
    BY <1>1, Zenon DEF ReadsInv, FiniteSetFacts
<1>. QED BY <1>2, ConstantsAssumption DEF ReadsInv, ActiveReadsExact, TypeOK

\* A read ends.
LEMMA ReadEnds ==
    ASSUME FiniteSetFacts, TypeOK, ReadsInv, NEW i \in Io, Reading(i), active_reads' = active_reads - 1,
           NEW x \in {"ok", "failed"}, phase' = [phase EXCEPT ![i] = x]
    PROVE  ReadsInv'
<1> DEFINE R == {j \in Io : Reading(j)}
<1>1. R' = R \ {i} /\ i \in R
    BY Zenon DEF Reading, TypeOK
<1>2. IsFiniteSet(R') /\ Cardinality(R') = Cardinality(R) - 1
    BY <1>1, Zenon DEF ReadsInv, FiniteSetFacts
<1>. QED BY <1>2, ConstantsAssumption DEF ReadsInv, ActiveReadsExact, TypeOK

\* No read starts or ends.
LEMMA ReadsFrame ==
    ASSUME ReadsInv, active_reads' = active_reads, \A j \in Io : Reading(j)' <=> Reading(j)
    PROVE  ReadsInv'
<1>1. {j \in Io : Reading(j)}' = {j \in Io : Reading(j)}
    BY Zenon
<1>. QED BY <1>1, Zenon DEF ReadsInv, ActiveReadsExact

\* The callback that serves a read, whether it was counted just before or earlier.
LEMMA ReadServed ==
    ASSUME FiniteSetFacts, TypeOK, ReadsInv, NEW i \in Io, i.type = "READ", NEW r, get_buf_for_read_cb(i, r),
           \/ phase[i] = "getbuf" /\ r = active_reads
           \/ phase[i] = "queued" /\ r = active_reads + 1 /\ active_reads < UBI_MAX_CONCURRENT_READS
    PROVE  ReadsInv'
<1>0. active_reads \in Int
    BY Zenon DEF TypeOK
<1>1. \/ active_reads' = r - 1 /\ phase' = [phase EXCEPT ![i] = "failed"]
      \/ active_reads' = r /\ phase' = [phase EXCEPT ![i] = "base"]
      \/ active_reads' = r /\ phase' = [phase EXCEPT ![i] = "image"]
    BY Zenon DEF get_buf_for_read_cb, ubi_complete_io
<1>2. CASE phase[i] = "getbuf" /\ r = active_reads
  <2>1. Reading(i)
    BY <1>2, Zenon DEF Reading
  <2>2. CASE active_reads' = r - 1 /\ phase' = [phase EXCEPT ![i] = "failed"]
    BY <1>2, <2>1, <2>2, ReadEnds, Zenon
  <2>3. ASSUME NEW x \in {"base", "image"}, active_reads' = r, phase' = [phase EXCEPT ![i] = x]
        PROVE  ReadsInv'
    BY <1>2, <2>1, <2>3, ReadsFrame, Zenon DEF Reading, TypeOK
  <2>. QED BY <1>1, <2>2, <2>3, Zenon
<1>3. CASE /\ phase[i] = "queued" /\ r = active_reads + 1
           /\ active_reads < UBI_MAX_CONCURRENT_READS
  <2>1. ~ Reading(i)
    BY <1>3, Zenon DEF Reading
  <2>2. CASE active_reads' = r - 1 /\ phase' = [phase EXCEPT ![i] = "failed"]
    <3>1. active_reads' = active_reads
      BY <1>0, <1>3, <2>2
    <3>2. \A j \in Io : Reading(j)' <=> Reading(j)
      BY <1>3, <2>2, Zenon DEF Reading, TypeOK
    <3>. QED BY <3>1, <3>2, ReadsFrame, Zenon
  <2>3. ASSUME NEW x \in {"getbuf", "image", "base"}, active_reads' = r, phase' = [phase EXCEPT ![i] = x]
        PROVE  ReadsInv'
    BY <1>3, <2>1, <2>3, ReadStarts, Zenon
  <2>. QED BY <1>1, <2>2, <2>3, Zenon
<1>. QED BY <1>2, <1>3, Zenon

\* Every step keeps the count of the reads being served.
LEMMA ReadsNext ==
    ASSUME FiniteSetFacts, RequestInv, ReadsInv, [Next]_vars
    PROVE  ReadsInv'
<1>0. TypeOK /\ QueueInv /\ PhaseInv
    BY Zenon DEF RequestInv
<1>a. ASSUME UNCHANGED <<phase, active_reads>> PROVE ReadsInv'
    BY <1>a, ReadsFrame, Zenon DEF Reading
<1>b. ASSUME NEW i \in Io, NEW x, phase' = [phase EXCEPT ![i] = x], active_reads' = active_reads,
             i.type # "READ" \/ {phase[i], x} \cap {"getbuf", "image", "base"} = {}
      PROVE  ReadsInv'
    BY <1>0, <1>b, ReadsFrame, Zenon DEF Reading, TypeOK
<1>c. ASSUME NEW i \in Io, NEW p, ubi_complete_io(i, p, active_reads), phase[i] \in {"image", "base"}
      PROVE  ReadsInv'
  <2>0. active_reads \in Int
    BY <1>0, Zenon DEF TypeOK
  <2>1. PICK x \in {"ok", "failed"} : phase' = [phase EXCEPT ![i] = x]
    BY <1>c, Zenon DEF ubi_complete_io
  <2>2. CASE i.type = "READ"
    <3>1. active_reads' = active_reads - 1 /\ Reading(i)
      BY <1>c, <2>2, Zenon DEF ubi_complete_io, Reading
    <3>. QED BY <1>0, <2>1, <3>1, ReadEnds, Zenon
  <2>3. CASE i.type # "READ"
    <3>1. active_reads' = active_reads
      BY <1>c, <2>3, Zenon DEF ubi_complete_io
    <3>. QED BY <1>b, <2>1, <2>3, <3>1, Zenon
  <2>. QED BY <2>2, <2>3, Zenon
<1>d. ASSUME NEW i \in Io, Dequeue(i) PROVE phase[i] = "queued" /\ ~ ReadLimit(i)
    BY <1>0, <1>d, DequeueQueue, Zenon DEF Dequeue
<1>1. ASSUME NEW i \in Io, ubi_submit_request(i) PROVE ReadsInv'
  <2>1. /\ phase[i] = "new" /\ active_reads' = active_reads
        /\ \E x \in {"failed", "queued"} : phase' = [phase EXCEPT ![i] = x]
    BY <1>1, Zenon DEF ubi_submit_request, reads
  <2>. QED BY <2>1, <1>b, Zenon
<1>2. CASE PollBegin \/ ReapEnd \/ StartEnd \/ ServeStop \/ SubmitRing
    BY <1>a, <1>2, Zenon DEF PollBegin, ReapEnd, StartEnd, ServeStop, SubmitRing, reads, requests
<1>3. ASSUME NEW o \in batch, ubi_complete_fetch_stripe(o) PROVE ReadsInv'
    BY <1>a, <1>3, Zenon DEF ubi_complete_fetch_stripe, reads, requests
<1>4. ASSUME NEW o \in batch, ubi_complete_read_from_image(o) PROVE ReadsInv'
    BY <1>c, <1>4, RequestCompletes, Zenon
<1>5. ASSUME NEW k \in free, ubi_start_fetch_stripe(k) PROVE ReadsInv'
    BY <1>a, <1>5, Zenon DEF ubi_start_fetch_stripe, reads, requests
<1>6. ASSUME NEW i \in Io, ServeFailed(i) PROVE ReadsInv'
  <2>1. Dequeue(i) /\ phase' = [phase EXCEPT ![i] = "failed"] /\ active_reads' = active_reads
    BY <1>6, Zenon DEF ServeFailed, reads
  <2>. QED BY <1>b, <1>d, <2>1, Zenon
<1>7. ASSUME NEW i \in Io, ServeRead(i) PROVE ReadsInv'
  <2>1. i.type = "READ" /\ phase[i] = "queued" /\ active_reads < UBI_MAX_CONCURRENT_READS
    BY <1>0, <1>d, <1>7, ConstantsAssumption DEF ServeRead, ReadLimit, TypeOK
  <2>2. CASE get_buf_for_read_cb(i, active_reads + 1)
    BY <1>0, <2>1, <2>2, ReadServed, Zenon
  <2>3. CASE active_reads' = active_reads + 1 /\ phase' = [phase EXCEPT ![i] = "getbuf"]
    BY <1>0, <2>1, <2>3, ReadStarts, Zenon DEF Reading
  <2>. QED BY <1>7, <2>2, <2>3, Zenon DEF ServeRead
<1>8. ASSUME NEW i \in Io, ServeWrite(i) PROVE ReadsInv'
  <2>1. /\ i.type # "READ" /\ active_reads' = active_reads
        /\ \E x \in {"base", "lost"} : phase' = [phase EXCEPT ![i] = x]
    BY <1>8, Zenon DEF ServeWrite, reads
  <2>. QED BY <1>b, <2>1, Zenon
<1>9. ASSUME NEW i \in Io, ServeFlush(i) PROVE ReadsInv'
  <2>1. /\ i.type # "READ" /\ active_reads' = active_reads
        /\ \E x \in {"ok", "flush", "failed"} : phase' = [phase EXCEPT ![i] = x]
    BY <1>9, Zenon DEF ServeFlush, reads
  <2>. QED BY <1>b, <2>1, Zenon
<1>10. ASSUME NEW o \in ops, KernelRead(o) \/ BaseStripeWrite(o) \/ BaseClientIo(o) PROVE ReadsInv'
    BY <1>a, <1>10, Zenon DEF KernelRead, BaseStripeWrite, BaseClientIo, reads, requests
<1>11. ASSUME NEW o \in ops, write_stripe_io_completion(o) PROVE ReadsInv'
    BY <1>a, <1>11, Zenon DEF write_stripe_io_completion, reads, requests
<1>12. ASSUME NEW o \in ops, ubi_io_completion_cb(o) PROVE ReadsInv'
    BY <1>c, <1>12, RequestCompletes, Zenon
<1>13. ASSUME NEW i \in Io, FlushCompletion(i) PROVE ReadsInv'
  <2>1. /\ phase[i] = "flush" /\ active_reads' = active_reads
        /\ \E x \in {"ok", "failed"} : phase' = [phase EXCEPT ![i] = x]
    BY <1>13, Zenon DEF FlushCompletion, reads
  <2>. QED BY <1>b, <2>1, Zenon
<1>14. ASSUME NEW i \in Io, LateGetBuf(i) PROVE ReadsInv'
    BY <1>0, <1>14, ReadServed, Zenon DEF LateGetBuf, PhaseInv
<1>15. CASE UNCHANGED vars
    BY <1>a, <1>15, Zenon DEF vars, reads, requests
<1>. QED BY <1>1, <1>2, <1>3, <1>4, <1>5, <1>6, <1>7, <1>8, <1>9, <1>10, <1>11, <1>12, <1>13, <1>14,
            <1>15, Zenon
         DEF Next, Poll, Environment, Completion

\* No read is being served initially.
LEMMA ReadsInit ==
    ASSUME FiniteSetFacts, Init PROVE ReadsInv
<1>1. {i \in Io : Reading(i)} = {} /\ active_reads = 0
    BY Zenon DEF Init, Reading
<1>2. IsFiniteSet({}) /\ Cardinality({}) = 0
    BY Zenon DEF FiniteSetFacts
<1>3. 0 <= UBI_MAX_CONCURRENT_READS
    BY ConstantsAssumption
<1>. QED BY <1>1, <1>2, <1>3, Zenon DEF ReadsInv, ActiveReadsExact

\* The image reads in the submission queue belong to different reads being served.
LEMMA SqeLeft ==
    ASSUME FiniteSetFacts, UBI_MAX_CONCURRENT_READS < UBI_URING_QUEUE_SIZE,
           ControlInv, PhaseInv, ReadsInv
    PROVE  SqeForFetch
<1> DEFINE Q == {o \in ops : o.at = "sq"}
           R == {i \in Io : Reading(i)}
           f == [o \in Q |-> o.who]
<1>0. TypeOK /\ OpsInv
  BY Zenon DEF ControlInv
<1>1. ASSUME NEW o \in Q PROVE o.who \in R
  <2>1. o \in ops /\ o.at = "sq" /\ o \in SlotOp \cup IoOp
    BY <1>0, Zenon DEF TypeOK
  <2>2. o.who \notin Slot /\ o.kind # "base_io"
    BY <1>0, <2>1, Zenon DEF OpsInv
  <2>3. o.kind = "image_read" /\ o.who \in Io
    BY <2>1, <2>2, OpOwner, Zenon
  <2>4. phase[o.who] = "image"
    BY <1>0, <2>1, <2>3, Zenon DEF OpsInv
  <2>. QED BY <2>3, <2>4, Zenon DEF PhaseInv, Reading
<1>2. f \in [Q -> R] /\ \A o, p \in Q : f[o] = f[p] => o = p
  <2>1. \A o, p \in Q : o.who = p.who => o = p
    BY <1>0, Zenon DEF OpsInv
  <2>2. f \in [Q -> R]
    BY <1>1, Zenon
  <2>. QED BY <2>1, <2>2, Zenon
<1>3. IsFiniteSet(R) /\ Cardinality(R) = active_reads /\ active_reads <= UBI_MAX_CONCURRENT_READS
  BY Zenon DEF ReadsInv, ActiveReadsExact
<1>4. IsFiniteSet(Q) /\ Cardinality(Q) <= Cardinality(R)
  BY <1>2, <1>3, Zenon DEF FiniteSetFacts
<1>5. Cardinality(Q) \in Nat /\ Cardinality(R) \in Nat
  BY <1>3, <1>4, Zenon DEF FiniteSetFacts
<1>6. Cardinality(Q) < UBI_URING_QUEUE_SIZE
  BY <1>3, <1>4, <1>5, ConstantsAssumption
<1>. QED BY <1>6, Zenon DEF SqeForFetch, SqLen

\* The initial state of a channel has the types.
LEMMA TypeInit ==
    ASSUME FiniteSetFacts, Init PROVE TypeOK
<1>1. 0 \in Stripe
    BY ConstantsAssumption DEF Stripe
<1>2. stripes_fetched \in Nat
    BY Zenon DEF Init, FiniteSetFacts
<1>3. /\ stripe_status \in [Stripe -> {"NOT_FETCHED", "INFLIGHT", "FAILED", "FETCHED"}]
      /\ stripe_headers \in [Stripe -> {0, 1}]
    BY Zenon DEF Init
<1>4. base \in [Block -> Contents] /\ buf \in [Slot -> [Offset -> Contents]]
    BY Zenon DEF Init, Contents
<1>5. phase \in [Io -> {"new", "queued", "getbuf", "image", "base", "flush", "lost",
                       "ok", "failed"}]
    BY Zenon DEF Init
<1>6. /\ stripe_fetch_queue \in Seq(Stripe) /\ io \in Seq(Io)
      /\ active_reads \in Int /\ has_reads \in Nat
      /\ active \in [Slot -> BOOLEAN] /\ stripe_idx \in [Slot -> Stripe]
    BY <1>1 DEF Init
<1>. QED BY <1>2, <1>3, <1>4, <1>5, <1>6, Zenon DEF Init, TypeOK

\* A new channel satisfies the invariants.
LEMMA InvInit ==
    ASSUME FiniteSetFacts, Init PROVE RequestInv /\ ControlInv /\ IInv
<1>1. TypeOK
    BY TypeInit, Zenon
<1>2. Len(io) = 0 /\ Len(stripe_fetch_queue) = 0
    BY Zenon DEF Init
<1>3. OpsInv /\ LocalsInv /\ DataInv /\ RequestOps
    BY Zenon DEF Init, OpsInv, LocalsInv, DataInv, RequestOps
<1>4. QueueInv /\ QueuedIsFetching
    BY <1>2 DEF Init, QueueInv, QueuedIsFetching
<1>5. StripeFetchedOnce /\ FetchHasWaiter
    BY <1>2 DEF Init, StripeFetchedOnce, FetchHasWaiter, Queued, Fetching
<1>6. PhaseInv /\ SpanInv
    BY Zenon DEF Init, PhaseInv, SpanInv
<1>. QED BY <1>1, <1>3, <1>4, <1>5, <1>6, Zenon DEF RequestInv, ControlInv, IInv

\* The initial states are initial states of the disk.
LEMMA RefineInit ==
    ASSUME FiniteSetFacts, Init PROVE VD!Init
<1>1. View \in [Block -> Contents]
    BY TypeInit, ViewType, Zenon
<1>2. IoState = [i \in Io |-> "new"]
    BY Zenon DEF Init, IoState
<1>. QED BY <1>1, <1>2, Zenon DEF VD!Init, Init

\* What the theorems combine, stated without the library's theorems on finite sets.
LEMMA InitFacts ==
    FiniteSetFacts /\ Init
      => /\ TypeOK /\ RequestInv /\ ControlInv /\ IInv /\ PhaseInv
         /\ MetadataTracksFetches /\ ReadsInv /\ VD!Init
<1>1. Init => MetadataTracksFetches
    BY DEF Init, MetadataTracksFetches
<1>. QED BY <1>1, TypeInit, InvInit, ReadsInit, RefineInit, Zenon DEF RequestInv

\* The properties of single states.
LEMMA StateFacts ==
    /\ ReadsInv => ActiveReadsExact
    /\ ControlInv => /\ StripeFetchedOnce /\ FetchHasWaiter /\ QueuedIsFetching
                     /\ SlotOwnsItsFetch
    /\ /\ FiniteSetFacts /\ UBI_MAX_CONCURRENT_READS < UBI_URING_QUEUE_SIZE
       /\ ControlInv /\ RequestInv /\ ReadsInv
       => SqeForFetch
<1>1. ReadsInv => ActiveReadsExact
    BY Zenon DEF ReadsInv
<1>2. OpsInv => SlotOwnsItsFetch
    BY DEF OpsInv, SlotOwnsItsFetch
<1>3. /\ FiniteSetFacts /\ UBI_MAX_CONCURRENT_READS < UBI_URING_QUEUE_SIZE
      /\ ControlInv /\ RequestInv /\ ReadsInv
      => SqeForFetch
    BY SqeLeft, Zenon DEF RequestInv
<1>. QED BY <1>1, <1>2, <1>3, Zenon DEF ControlInv

\* The properties of steps.
LEMMA StepFacts ==
    /\ TypeOK /\ [Next]_vars => TypeOK'
    /\ RequestInv /\ [Next]_vars => RequestInv'
    /\ FiniteSetFacts /\ RequestInv /\ ReadsInv /\ [Next]_vars => ReadsInv'
    /\ "fetch_submit" \notin Faults /\ ControlInv /\ [Next]_vars => ControlInv'
    /\ /\ "fetch_submit" \notin Faults /\ FiniteSetFacts
       /\ ControlInv /\ MetadataTracksFetches /\ [Next]_vars
       => MetadataTracksFetches'
    /\ "fetch_submit" \notin Faults /\ ControlInv /\ [Next]_vars
       => [\A s \in Stripe : stripe_status[s] \in {"FETCHED", "FAILED"}
                                => stripe_status'[s] = stripe_status[s]]_vars
    /\ SafeSetting /\ IInv /\ PhaseInv /\ [Next]_vars => (IInv /\ PhaseInv)'
    /\ SafeSetting /\ IInv /\ PhaseInv /\ [Next]_vars => [VD!Next]_(VD!vars)
<1>1. TypeOK /\ [Next]_vars => TypeOK'
    BY TypeNext, Zenon
<1>2. RequestInv /\ [Next]_vars => RequestInv'
    BY RequestNext, Zenon
<1>3. FiniteSetFacts /\ RequestInv /\ ReadsInv /\ [Next]_vars => ReadsInv'
    BY ReadsNext, Zenon
<1>4. "fetch_submit" \notin Faults /\ ControlInv /\ [Next]_vars => ControlInv'
    BY ControlNext, Zenon
<1>5. /\ "fetch_submit" \notin Faults /\ FiniteSetFacts
      /\ ControlInv /\ MetadataTracksFetches /\ [Next]_vars
      => MetadataTracksFetches'
    BY MetadataNext, Zenon
<1>6. "fetch_submit" \notin Faults /\ ControlInv /\ [Next]_vars
      => [\A s \in Stripe : stripe_status[s] \in {"FETCHED", "FAILED"}
                               => stripe_status'[s] = stripe_status[s]]_vars
    BY StatusStep, Zenon
<1>7. SafeSetting /\ IInv /\ PhaseInv /\ [Next]_vars => (IInv /\ PhaseInv)'
    BY InvNext, PhaseNext, Zenon DEF IInv, ControlInv
<1>8. SafeSetting /\ IInv /\ PhaseInv /\ [Next]_vars => [VD!Next]_(VD!vars)
    BY RefineNext, Zenon
<1>. QED BY <1>1, <1>2, <1>3, <1>4, <1>5, <1>6, <1>7, <1>8, Zenon

\* A step of the disk changes a block only by a write.
LEMMA DiskStep ==
    [VD!Next]_(VD!vars)
      => [\A b \in Block : View[b] \in Io /\ phase[View[b]] = "ok" => View'[b] \in Io]_vars
<1> SUFFICES ASSUME [VD!Next]_(VD!vars), NEW b \in Block, View[b] \in Io PROVE View'[b] \in Io
    BY Zenon
<1>1. CASE View' = View
    BY <1>1, Zenon
<1>2. ASSUME NEW i \in Io, VD!Write(i) PROVE View'[b] \in Io
  <2>1. View' = [c \in Block |-> IF c \in VD!Blocks(i) THEN i ELSE View[c]]
    BY <1>2, Zenon DEF VD!Write
  <2>. QED BY <2>1, Zenon
<1>3. View' = View \/ \E i \in Io : VD!Write(i)
    BY Zenon DEF VD!Next, VD!Submit, VD!Read, VD!Succeed, VD!Fail, VD!vars
<1>. QED BY <1>1, <1>2, <1>3, Zenon

\* The two operators under names of their own, and what they mean: the instance
\* below brings in its own copy of FiniteSets.
Finite(S) == IsFiniteSet(S)
Size(S)   == Cardinality(S)

\* A set is finite when a sequence lists it.
LEMMA FiniteMeans ==
    \A S : Finite(S) <=> \E seq \in Seq(S) : \A s \in S : \E n \in 1 .. Len(seq) : seq[n] = s
BY Zenon DEF Finite, IsFiniteSet

\* The size of a set is counted by removing its elements one by one.
LEMMA SizeMeans ==
    \A S : Size(S) = LET CS[T \in SUBSET S] ==
                          IF T = {} THEN 0 ELSE 1 + CS[T \ {CHOOSE x : x \in T}]
                    IN  CS[S]
BY Zenon DEF Size, Cardinality

----------------------------------------------------------------------------
\* The theorems.
LOCAL INSTANCE FiniteSetTheorems

\* The facts about finite sets that the lemmas assume.
LEMMA FactsHold == FiniteSetFacts
<1>1. \A S : Finite(S) <=> IsFiniteSet(S)
    BY FiniteMeans, Zenon DEF IsFiniteSet
<1>2. \A S : Size(S) = Cardinality(S)
    BY SizeMeans, Zenon DEF Cardinality
<1>3. Finite(Stripe)
  <2>1. 0 \in Int /\ UBI_MAX_STRIPES - 1 \in Int
    BY ConstantsAssumption
  <2>. QED BY <1>1, <2>1, FS_Interval, Zenon DEF Stripe
<1>4. Finite({}) /\ Size({}) = 0
    BY <1>1, <1>2, FS_EmptySet, Zenon
<1>5. \A S : Finite(S) => Size(S) \in Nat
    BY <1>1, <1>2, FS_CardinalityType, Zenon
<1>6. \A S : Finite(S) => \A T \in SUBSET S : Finite(T)
    BY <1>1, FS_Subset, Zenon
<1>7. \A S, x : Finite(S) /\ x \notin S => Finite(S \cup {x}) /\ Size(S \cup {x}) = Size(S) + 1
    BY <1>1, <1>2, FS_AddElement, Zenon
<1>8. \A S, x : Finite(S) /\ x \in S => Finite(S \ {x}) /\ Size(S \ {x}) = Size(S) - 1
    BY <1>1, <1>2, FS_RemoveElement, Zenon
<1>9. ASSUME NEW S, NEW T, NEW f \in [S -> T], Finite(T), \A a, b \in S : f[a] = f[b] => a = b
      PROVE  Finite(S) /\ Size(S) <= Size(T)
  <2>1. f \in Injection(S, T)
    BY <1>9, Zenon DEF Injection, IsInjective
  <2>. QED BY <1>1, <1>2, <1>9, <2>1, FS_Injection, Zenon
<1>. QED BY <1>3, <1>4, <1>5, <1>6, <1>7, <1>8, <1>9, Zenon DEF FiniteSetFacts, Finite, Size

\* The variables keep their types: no handler stores a stripe, a request or an
\* operation of another kind than the field it is in.
THEOREM TypeCorrect == Spec => []TypeOK
<1>1. Init => TypeOK
    BY FactsHold, InitFacts, Zenon
<1>. QED BY <1>1, StepFacts, PTL DEF Spec

\* Whatever fails, a request is queued once, is served as its type says and has at
\* most one operation in flight, and the reads are counted.
THEOREM RequestsServed == Spec => [](RequestInv /\ ReadsInv)
<1>1. Init => RequestInv /\ ReadsInv
    BY FactsHold, InitFacts, Zenon
<1>2. RequestInv /\ ReadsInv /\ [Next]_vars => (RequestInv /\ ReadsInv)'
    BY FactsHold, StepFacts, Zenon
<1>. QED BY <1>1, <1>2, PTL DEF Spec

\* active_reads is the number of reads being served, on every path that starts,
\* ends or fails one, and never exceeds UBI_MAX_CONCURRENT_READS, whatever fails.
THEOREM ActiveReadsExactAlways == Spec => []ActiveReadsExact
BY StateFacts, RequestsServed, PTL

\* Unless a fetch cannot be submitted to the ring, the invariant of the fetches holds
\* in every reachable state, also when a stripe's write fails and when requests span
\* stripes or the image ends inside one.
THEOREM FetchesRun ==
    ASSUME "fetch_submit" \notin Faults PROVE Spec => []ControlInv
<1>1. Init => ControlInv
    BY FactsHold, InitFacts, Zenon
<1>2. ControlInv /\ [Next]_vars => ControlInv'
    BY StepFacts, Zenon
<1>. QED BY <1>1, <1>2, PTL DEF Spec

\* A stripe is INFLIGHT exactly while it sits in the fetch queue or in one slot,
\* and never twice: ubi_submit_request enqueues it once.
THEOREM StripeFetchedOnceAlways ==
    ASSUME "fetch_submit" \notin Faults PROVE Spec => []StripeFetchedOnce
BY StateFacts, FetchesRun, PTL

\* A stripe being fetched always has a waiting request in ch->io, which is what
\* bounds the fetch ring, which enqueue_stripe does not check for overflow.
THEOREM FetchHasWaiterAlways ==
    ASSUME "fetch_submit" \notin Faults PROVE Spec => []FetchHasWaiter
BY StateFacts, FetchesRun, PTL

\* The poller never reaches the branch that reports "BUG: I/O for block enqueued,
\* but stripe isn't enqueued".
THEOREM QueuedIsFetchingAlways ==
    ASSUME "fetch_submit" \notin Faults PROVE Spec => []QueuedIsFetching
BY StateFacts, FetchesRun, PTL

\* A fetch slot is active exactly while one operation of its own is in flight.
THEOREM SlotOwnsItsFetchAlways ==
    ASSUME "fetch_submit" \notin Faults PROVE Spec => []SlotOwnsItsFetch
BY StateFacts, FetchesRun, PTL

\* FETCHED and FAILED are final: no step of the channel changes a settled stripe.
THEOREM SettledForGood ==
    ASSUME "fetch_submit" \notin Faults PROVE Spec => SettledIsFinal
<1>1. ControlInv /\ [Next]_vars
        => [\A s \in Stripe : stripe_status[s] \in {"FETCHED", "FAILED"}
                                => stripe_status'[s] = stripe_status[s]]_vars
    BY StepFacts, Zenon
<1>. QED BY <1>1, FetchesRun, PTL DEF Spec, SettledIsFinal

\* The headers in memory and stripes_fetched are those of the FETCHED stripes, so
\* that comparing counters, as a flush does, tells whether a header is new.
THEOREM MetadataTracksFetchesAlways ==
    ASSUME "fetch_submit" \notin Faults PROVE Spec => []MetadataTracksFetches
<1>1. Init => MetadataTracksFetches
    BY FactsHold, InitFacts, Zenon
<1>2. ControlInv /\ MetadataTracksFetches /\ [Next]_vars => MetadataTracksFetches'
    BY FactsHold, StepFacts, Zenon
<1>. QED BY <1>1, <1>2, FetchesRun, PTL DEF Spec

\* When a fetch is started the submission queue holds image reads only, one for
\* each read being served, so it has an entry left and io_uring_get_sqe, whose
\* result ubi_start_fetch_stripe does not check, returns one.
THEOREM SqeForFetchAlways ==
    ASSUME "fetch_submit" \notin Faults, UBI_MAX_CONCURRENT_READS < UBI_URING_QUEUE_SIZE
    PROVE  Spec => []SqeForFetch
<1>1. ControlInv /\ RequestInv /\ ReadsInv => SqeForFetch
    BY FactsHold, StateFacts, Zenon
<1>. QED BY <1>1, FetchesRun, RequestsServed, PTL

\* In the safe setting the whole invariant holds in every reachable state.
THEOREM Invariance ==
    ASSUME SafeSetting PROVE Spec => [](IInv /\ PhaseInv)
<1>1. Init => IInv /\ PhaseInv
    BY FactsHold, InitFacts, Zenon
<1>2. IInv /\ PhaseInv /\ [Next]_vars => (IInv /\ PhaseInv)'
    BY StepFacts, Zenon
<1>. QED BY <1>1, <1>2, PTL DEF Spec

\* The channel implements the virtual disk: whatever the requests, the sizes and
\* the number of slots, and under every failure except the two SafeSetting names,
\* reads return what was last written or the image, and fetches are invisible.
THEOREM ChannelIsVirtualDisk ==
    ASSUME SafeSetting PROVE Spec => ImplementsVirtualDisk
<1>1. IInv /\ PhaseInv /\ [Next]_vars => [VD!Next]_(VD!vars)
    BY StepFacts, Zenon
<1>2. Init => VD!Init
    BY FactsHold, InitFacts, Zenon
<1>. QED BY <1>1, <1>2, Invariance, PTL DEF Spec, ImplementsVirtualDisk, VD!Spec

\* A block that holds a write the client was told has succeeded changes only by
\* another write: no fetch completing late puts the image's block back over it.
THEOREM WrittenStaysAlways ==
    ASSUME SafeSetting PROVE Spec => WrittenStays
<1>1. IInv /\ PhaseInv /\ [Next]_vars
        => [\A b \in Block : View[b] \in Io /\ phase[View[b]] = "ok" => View'[b] \in Io]_vars
    BY StepFacts, DiskStep, Zenon
<1>. QED BY <1>1, Invariance, PTL DEF Spec, WrittenStays
=============================================================================
