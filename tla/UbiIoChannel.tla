---------------------------- MODULE UbiIoChannel ----------------------------
(***************************************************************************)
(* One I/O channel of a ubi bdev: client requests, the stripe fetches they *)
(* trigger, the poller, the io_uring of image reads and the base bdev.     *)
(*                                                                         *)
(* All code of a channel runs on one SPDK thread.  A handler is one        *)
(* action, except the poller, which is a sequence of steps (pc) because    *)
(* it completes requests half-way: the client's completion callback then   *)
(* runs inside the poller and may submit again (cb).  The kernel and the   *)
(* base bdev execute what was handed to them at any time, in any order.    *)
(***************************************************************************)
EXTENDS Integers, Sequences, FiniteSets

CONSTANTS
    Io,                        \* the client's requests, each submitted once
    blockcnt,                  \* ubi_bdev->bdev.blockcnt
    image_block_count,
    stripe_block_count,
    UBI_MAX_STRIPES,
    copy_on_read, no_sync,     \* options of the bdev
    Slot,                      \* indices of ch->stripe_fetches
    UBI_MAX_CONCURRENT_READS,
    UBI_URING_QUEUE_SIZE,
    Faults                     \* the external failures that may happen

Block  == 0 .. (blockcnt - 1)
Stripe == 0 .. (UBI_MAX_STRIPES - 1)
Offset == 0 .. (stripe_block_count - 1)

StripeOf(b)     == b \div stripe_block_count
FirstBlock(s)   == s * stripe_block_count
StripeBlocks(s) == FirstBlock(s) .. (FirstBlock(s) + stripe_block_count - 1)
Blocks(i)       == i.start .. (i.start + i.num - 1)
StartStripe(i)  == StripeOf(i.start)
EndStripe(i)    == StripeOf(i.start + i.num - 1)

AllFaults == {"image_read",    \* an image read completes with res < 0
              "base_io",       \* a client's base I/O completes unsuccessfully
              "stripe_write",  \* the base write of a fetched stripe does
              "stripe_submit", \* spdk_bdev_write of a stripe returns an error
              "read_submit",   \* spdk_bdev_readv_blocks_ext returns an error
              "write_submit",  \* spdk_bdev_writev_blocks_ext returns an error
              "fetch_submit",  \* io_uring_submit of a stripe fetch fails
              "ring_submit",   \* io_uring_submit at the end of a poll fails
              "get_buf",       \* no read buffer: callback with success = false
              "buf_wait"}      \* no read buffer yet: callback comes later

ASSUME ConstantsAssumption ==
    /\ blockcnt \in Nat \ {0} /\ image_block_count \in 0 .. blockcnt
    /\ stripe_block_count \in Nat \ {0} /\ UBI_MAX_STRIPES \in Nat \ {0}
    /\ copy_on_read \in BOOLEAN /\ no_sync \in BOOLEAN
    /\ UBI_MAX_CONCURRENT_READS \in Nat \ {0}
    /\ UBI_URING_QUEUE_SIZE \in Nat \ {0}
    /\ Faults \subseteq AllFaults

\* The generic bdev layer hands down requests inside the disk.
ASSUME IoAssumption ==
    /\ \A i \in Io : /\ i.type \in {"READ", "WRITE", "FLUSH"}
                     /\ i.start \in Block /\ i.num \in Nat \ {0}
                     /\ Blocks(i) \subseteq Block
    /\ Io \cap Slot = {}

\* Every block has an entry in stripe_status (the code does not check it).
ASSUME StripesFit == \A b \in Block : StripeOf(b) \in Stripe

\* What a block may hold: the image's block, what the base bdev held before, a
\* client's write, or whatever was in a buffer that was not filled.
ImageData(b) == [image |-> b]
BaseData(b)  == [base |-> b]
Stale        == [buffer |-> "stale"]
Contents == {ImageData(b) : b \in Block} \cup {BaseData(b) : b \in Block}
            \cup Io \cup {Stale}

VARIABLES
    stripe_status,       \* ubi_bdev->stripe_status
    stripe_headers,      \* ubi_bdev->metadata.stripe_headers[s][0]
    stripes_fetched,     \* ubi_bdev->stripes_fetched
    stripe_fetch_queue,  \* the fetch ring, as a FIFO
    io,                  \* ch->io
    active, stripe_idx, buf,   \* fields of ch->stripe_fetches[k]
    active_reads, has_reads,
    ops,                 \* asynchronous operations the channel waits for
    phase,               \* where each request is
    result,              \* what each read returned
    base,                \* data blocks of the base bdev
    pc, queues_empty, batch, free, \* the poller's position and locals
    cb                   \* a client's callback is running inside the poller

stripes  == <<stripe_status, stripe_headers, stripes_fetched>>
requests == <<phase, result>>
slots    == <<active, stripe_idx, buf>>
reads    == <<active_reads, has_reads>>
locals   == <<pc, queues_empty, batch, free, cb>>
vars == <<stripes, stripe_fetch_queue, io, slots, reads, ops, requests,
          base, locals>>

\* An operation in flight: an io_uring read for a slot ("fetch") or a request
\* ("image_read"), or a base bdev I/O for a slot ("stripe_write") or a request
\* ("base_io").  It is in the submission queue ("sq"), submitted ("sub"), or
\* finished with its result waiting to be handled ("ok", "err").
Op(kind, who, stripe, at) ==
    [kind |-> kind, who |-> who, stripe |-> stripe, at |-> at]
Moved(o, at) == [o EXCEPT !.at = at]
Uring(o)    == o.kind \in {"fetch", "image_read"}
Finished(o) == o.at \in {"ok", "err"}

\* io_uring_submit hands the whole submission queue to the kernel.
Submitted(O) == {IF o.at = "sq" THEN Moved(o, "sub") ELSE o : o \in O}
SqLen == Cardinality({o \in ops : o.at = "sq"})

Init ==
    /\ stripe_status \in [Stripe -> {"NOT_FETCHED", "FETCHED"}]
    /\ \A s \in Stripe : stripe_status[s] = "FETCHED" => FirstBlock(s) < image_block_count
    /\ stripe_headers = [s \in Stripe |-> IF stripe_status[s] = "FETCHED" THEN 1 ELSE 0]
    /\ stripes_fetched = Cardinality({s \in Stripe : stripe_status[s] = "FETCHED"})
    /\ stripe_fetch_queue = <<>> /\ io = <<>>
    /\ active = [k \in Slot |-> FALSE]
    /\ stripe_idx = [k \in Slot |-> 0]
    /\ buf = [k \in Slot |-> [d \in Offset |-> Stale]]
    /\ active_reads = 0 /\ has_reads = 0
    /\ ops = {}
    /\ phase = [i \in Io |-> "new"] /\ result = [i \in Io |-> <<>>]
    /\ base = [b \in Block |-> BaseData(b)]
    /\ pc = "idle" /\ queues_empty = TRUE /\ batch = {} /\ free = {}
    /\ cb = FALSE

\* Client code and the callbacks it triggers run when the poller does not, or
\* inside the poller, on the stack of a completion.
Callable == pc = "idle" \/ cb

\* Mutant: the header is forgotten.
StatusOnly(s, st) ==
    /\ stripe_status' = [stripe_status EXCEPT ![s] = st]
    /\ UNCHANGED stripe_headers

ubi_set_stripe_status(s, st) ==
    /\ stripe_status' = [stripe_status EXCEPT ![s] = st]
    /\ stripe_headers' = IF st = "FETCHED" THEN [stripe_headers EXCEPT ![s] = 1]
                         ELSE stripe_headers

----------------------------------------------------------------------------
\* Submission.

TriggersFetch(i) == i.type = "WRITE" \/ (i.type = "READ" /\ copy_on_read)
InImage(i)       == i.type # "FLUSH" /\ i.start < image_block_count

\* Mutants: a stripe being fetched is enqueued again; a failed fetch is retried.
FetchesTwice(i) == /\ TriggersFetch(i) /\ InImage(i)
                   /\ stripe_status[StartStripe(i)] \in {"NOT_FETCHED", "INFLIGHT"}
RetriesFailed(i) == /\ TriggersFetch(i) /\ InImage(i)
                    /\ stripe_status[StartStripe(i)] \in {"NOT_FETCHED", "FAILED"}

NeedsFetch(i) == /\ TriggersFetch(i) /\ InImage(i)
                 /\ stripe_status[StartStripe(i)] = "NOT_FETCHED"

\* A request that spans stripes is refused.  The first request that needs an
\* unfetched stripe of the image enqueues its fetch.
ubi_submit_request(i) ==
    /\ phase[i] = "new" /\ Callable
    /\ IF TriggersFetch(i) /\ StartStripe(i) # EndStripe(i)
       THEN /\ phase' = [phase EXCEPT ![i] = "failed"]
            /\ UNCHANGED <<stripe_fetch_queue, stripe_status, stripe_headers, io>>
       ELSE /\ phase' = [phase EXCEPT ![i] = "queued"]
            /\ io' = Append(io, i)
            /\ IF NeedsFetch(i)
               THEN /\ stripe_fetch_queue' = Append(stripe_fetch_queue, StartStripe(i))
                    /\ ubi_set_stripe_status(StartStripe(i), "INFLIGHT")
               ELSE UNCHANGED <<stripe_fetch_queue, stripe_status, stripe_headers>>
    /\ UNCHANGED <<stripes_fetched, slots, reads, ops, result, base, locals>>

\* Mutant: a failed read stays counted.
CountsFailed(i, success, r) ==
    /\ phase' = [phase EXCEPT ![i] = IF success THEN "ok" ELSE "failed"]
    /\ active_reads' = IF i.type = "READ" /\ success THEN r - 1 ELSE r

\* ubi_complete_io, called with r active reads.
ubi_complete_io(i, success, r) ==
    /\ phase' = [phase EXCEPT ![i] = IF success THEN "ok" ELSE "failed"]
    /\ active_reads' = IF i.type = "READ" THEN r - 1 ELSE r

----------------------------------------------------------------------------
\* The poller: reap image I/O, start fetches, serve requests, submit the ring.

PollBegin ==
    /\ pc = "idle"
    /\ pc' = "reap"
    /\ queues_empty' = (io = <<>> /\ stripe_fetch_queue = <<>>)
    /\ batch' = {o \in ops : Uring(o) /\ Finished(o)}
    /\ UNCHANGED <<stripes, stripe_fetch_queue, io, slots, reads, ops,
                   requests, base, free, cb>>

\* Mutants: the slot stays active; the stripe may be fetched again; it stays INFLIGHT.
KeepsSlot(k) == ubi_set_stripe_status(stripe_idx[k], "FAILED") /\ UNCHANGED active
StartsOver(k) == /\ ubi_set_stripe_status(stripe_idx[k], "NOT_FETCHED")
                 /\ active' = [active EXCEPT ![k] = FALSE]
ForgetsStatus(k) == /\ active' = [active EXCEPT ![k] = FALSE]
                    /\ UNCHANGED <<stripe_status, stripe_headers>>

ubi_fail_stripe_fetch(k) ==
    /\ ubi_set_stripe_status(stripe_idx[k], "FAILED")
    /\ active' = [active EXCEPT ![k] = FALSE]

\* The completion of a slot's image read: write the stripe to the base bdev.
\* spdk_bdev_write refuses a stripe that ends beyond the base bdev.
ubi_complete_fetch_stripe(o) ==
    LET k == o.who
        s == stripe_idx[k]
    IN  /\ pc = "reap" /\ o \in batch /\ o.kind = "fetch"
        /\ \/ /\ \/ o.at = "err"
                 \/ "stripe_submit" \in Faults
                 \/ ~ (StripeBlocks(s) \subseteq Block)
              /\ ubi_fail_stripe_fetch(k)
              /\ ops' = ops \ {o}
           \/ /\ o.at = "ok" /\ StripeBlocks(s) \subseteq Block
              /\ ops' = (ops \ {o}) \cup {Op("stripe_write", k, s, "sub")}
              /\ UNCHANGED <<stripe_status, stripe_headers, active>>
        /\ batch' = batch \ {o} /\ cb' = FALSE
        /\ UNCHANGED <<stripes_fetched, stripe_fetch_queue, io, stripe_idx, buf, reads,
                       requests, base, pc, queues_empty, free>>

ubi_complete_read_from_image(o) ==
    /\ pc = "reap" /\ o \in batch /\ o.kind = "image_read"
    /\ ubi_complete_io(o.who, o.at = "ok", active_reads)
    /\ ops' = ops \ {o} /\ batch' = batch \ {o} /\ cb' = TRUE
    /\ UNCHANGED <<stripes, stripe_fetch_queue, io, slots, has_reads,
                   result, base, pc, queues_empty, free>>

\* The early returns of the poller look at queues_empty, read before reaping.
ReapEnd ==
    /\ pc = "reap" /\ batch = {}
    /\ pc' = (IF queues_empty THEN "idle" ELSE "start")
    /\ free' = {k \in Slot : ~ queues_empty /\ ~ active[k]} /\ cb' = FALSE
    /\ UNCHANGED <<stripes, stripe_fetch_queue, io, slots, reads, ops,
                   requests, base, queues_empty, batch>>

\* Dequeue a stripe into a free slot.  When io_uring_submit fails the fetch is
\* failed, but its entry stays in the submission queue.  The code takes an entry
\* of that queue without a check; that there is one is SqeForFetch.  Only such
\* failures can leave the queue full, in which case the code writes to a null entry
\* and the model goes on.
ubi_start_fetch_stripe(k) ==
    LET s == Head(stripe_fetch_queue)
    IN  /\ pc = "start" /\ k \in free /\ stripe_fetch_queue # <<>>
        /\ stripe_fetch_queue' = Tail(stripe_fetch_queue)
        /\ stripe_idx' = [stripe_idx EXCEPT ![k] = s]
        /\ free' = free \ {k}
        /\ \/ /\ active' = [active EXCEPT ![k] = TRUE]
              /\ ops' = Submitted(ops) \cup {Op("fetch", k, s, "sub")}
              /\ UNCHANGED <<stripe_status, stripe_headers>>
           \/ /\ "fetch_submit" \in Faults
              /\ active' = [active EXCEPT ![k] = FALSE]
              /\ ops' = ops \cup {Op("fetch", k, s, "sq")}
              /\ ubi_set_stripe_status(s, "FAILED")
        /\ UNCHANGED <<stripes_fetched, io, buf, reads, requests, base, pc, queues_empty, batch, cb>>

StartEnd ==
    /\ pc = "start" /\ (free = {} \/ stripe_fetch_queue = <<>>)
    /\ pc' = "serve" /\ free' = {}
    /\ UNCHANGED <<stripes, stripe_fetch_queue, io, slots, reads, ops,
                   requests, base, queues_empty, batch, cb>>

----------------------------------------------------------------------------
\* Serving the request at the head of ch->io.

\* Mutants: one read too many; only reads wait for a fetch.
OneMoreRead(i) == i.type = "READ" /\ active_reads > UBI_MAX_CONCURRENT_READS
OnlyReadsWait(i) == /\ InImage(i) /\ i.type = "READ"
                    /\ stripe_status[StartStripe(i)] = "INFLIGHT"

ReadLimit(i) == i.type = "READ" /\ active_reads >= UBI_MAX_CONCURRENT_READS
Waits(i) == InImage(i) /\ stripe_status[StartStripe(i)] = "INFLIGHT"

\* A failed stripe, or one that should have been enqueued and was not.
Refused(i) ==
    /\ InImage(i)
    /\ stripe_status[StartStripe(i)] \in
         {"FAILED"} \cup (IF TriggersFetch(i) THEN {"NOT_FETCHED"} ELSE {})

ServeStop ==
    /\ pc = "serve"
    /\ io # <<>> => ReadLimit(Head(io)) \/ Waits(Head(io))
    /\ pc' = "submit" /\ cb' = FALSE
    /\ UNCHANGED <<stripes, stripe_fetch_queue, io, slots, reads, ops,
                   requests, base, queues_empty, batch, free>>

\* Mutant: the request stays on ch->io.
StaysQueued(i) ==
    /\ pc = "serve" /\ io # <<>> /\ i = Head(io)
    /\ ~ ReadLimit(i) /\ ~ Waits(i)
    /\ UNCHANGED io

\* The step that takes i off ch->io.
Dequeue(i) ==
    /\ pc = "serve" /\ io # <<>> /\ i = Head(io)
    /\ ~ ReadLimit(i) /\ ~ Waits(i)
    /\ io' = Tail(io)

ServeFailed(i) ==
    /\ Dequeue(i) /\ Refused(i)
    /\ phase' = [phase EXCEPT ![i] = "failed"] /\ cb' = TRUE
    /\ UNCHANGED <<stripes, stripe_fetch_queue, slots, reads, ops, result,
                   base, pc, queues_empty, batch, free>>

\* Mutant: a stripe being fetched is read from the base bdev.
ReadsBaseEarly(i) == \/ stripe_status[StartStripe(i)] \in {"INFLIGHT", "FETCHED"}
                     \/ i.start >= image_block_count

\* The read goes to the base bdev when its stripe is there by now, else to the
\* image; r is the value of active_reads when the callback runs.
ReadsBase(i) == \/ stripe_status[StartStripe(i)] = "FETCHED"
                \/ i.start >= image_block_count

\* The image never changes, so what a read of it returns is known when it is
\* prepared; blocks beyond the end of the image keep what the buffer held.
ImageRead(i) == [b \in Blocks(i) |->
                   IF b < image_block_count THEN ImageData(b) ELSE Stale]

get_buf_for_read_cb(i, r) ==
    \/ /\ \/ "get_buf" \in Faults
          \/ ReadsBase(i) /\ "read_submit" \in Faults
          \/ ~ ReadsBase(i) /\ SqLen >= UBI_URING_QUEUE_SIZE
       /\ ubi_complete_io(i, FALSE, r)
       /\ UNCHANGED <<ops, has_reads, result>>
    \/ /\ ReadsBase(i)
       /\ phase' = [phase EXCEPT ![i] = "base"] /\ active_reads' = r
       /\ ops' = ops \cup {Op("base_io", i, StartStripe(i), "sub")}
       /\ UNCHANGED <<has_reads, result>>
    \/ /\ ~ ReadsBase(i) /\ SqLen < UBI_URING_QUEUE_SIZE
       /\ phase' = [phase EXCEPT ![i] = "image"] /\ active_reads' = r
       /\ ops' = ops \cup {Op("image_read", i, StartStripe(i), "sq")}
       /\ has_reads' = has_reads + 1
       /\ result' = [result EXCEPT ![i] = ImageRead(i)]

ServeRead(i) ==
    /\ Dequeue(i) /\ ~ Refused(i) /\ i.type = "READ"
    /\ \/ get_buf_for_read_cb(i, active_reads + 1)
       \/ /\ "buf_wait" \in Faults
          /\ phase' = [phase EXCEPT ![i] = "getbuf"]
          /\ active_reads' = active_reads + 1
          /\ UNCHANGED <<ops, has_reads, result>>
    /\ cb' = (phase'[i] = "failed")
    /\ UNCHANGED <<stripes, stripe_fetch_queue, slots, base, pc,
                   queues_empty, batch, free>>

\* A buffer became available for a read that waits for one.
LateGetBuf(i) ==
    /\ phase[i] = "getbuf" /\ Callable
    /\ get_buf_for_read_cb(i, active_reads)
    /\ UNCHANGED <<stripes, stripe_fetch_queue, io, slots, base, locals>>

\* The poller ignores what ubi_submit_write_request returns: a write that could
\* not be submitted is on no list any more.
ServeWrite(i) ==
    /\ Dequeue(i) /\ ~ Refused(i) /\ i.type = "WRITE"
    /\ \/ /\ phase' = [phase EXCEPT ![i] = "base"]
          /\ ops' = ops \cup {Op("base_io", i, StartStripe(i), "sub")}
       \/ /\ "write_submit" \in Faults
          /\ phase' = [phase EXCEPT ![i] = "lost"]
          /\ UNCHANGED ops
    /\ cb' = FALSE
    /\ UNCHANGED <<stripes, stripe_fetch_queue, slots, reads, result, base,
                   pc, queues_empty, batch, free>>

\* The steps of a flush, and the one on which it is lost, are the subject of
\* module UbiFlush.
ServeFlush(i) ==
    /\ Dequeue(i) /\ i.type = "FLUSH"
    /\ \/ no_sync /\ phase' = [phase EXCEPT ![i] = "ok"] /\ cb' = TRUE
       \/ ~ no_sync /\ phase' = [phase EXCEPT ![i] = "flush"] /\ cb' = FALSE
       \/ /\ ~ no_sync /\ "base_io" \in Faults
          /\ phase' = [phase EXCEPT ![i] = "failed"] /\ cb' = TRUE
    /\ UNCHANGED <<stripes, stripe_fetch_queue, slots, reads, ops, result,
                   base, pc, queues_empty, batch, free>>

SubmitRing ==
    /\ pc = "submit" /\ pc' = "idle"
    /\ \/ /\ has_reads > 0
          /\ ops' = Submitted(ops) /\ has_reads' = 0
       \/ /\ has_reads = 0 \/ "ring_submit" \in Faults
          /\ UNCHANGED <<ops, has_reads>>
    /\ UNCHANGED <<stripes, stripe_fetch_queue, io, slots, active_reads,
                   requests, base, queues_empty, batch, free, cb>>

Poll ==
    \/ PollBegin \/ ReapEnd \/ StartEnd \/ ServeStop \/ SubmitRing
    \/ \E o \in batch : \/ ubi_complete_fetch_stripe(o)
                        \/ ubi_complete_read_from_image(o)
    \/ \E k \in free : ubi_start_fetch_stripe(k)
    \/ \E i \in Io : ServeFailed(i) \/ ServeRead(i) \/ ServeWrite(i) \/ ServeFlush(i)

----------------------------------------------------------------------------
\* The kernel and the base bdev (external): an operation takes effect, or fails
\* and has none.

Finish(o, at) == ops' = (ops \ {o}) \cup {Moved(o, at)}

\* A read of a stripe at the end of the image fills only part of the buffer.
Filled(b, s) == [d \in Offset |-> IF FirstBlock(s) + d < image_block_count
                                  THEN ImageData(FirstBlock(s) + d) ELSE b[d]]

KernelRead(o) ==
    /\ Uring(o) /\ o.at = "sub"
    /\ \/ /\ Finish(o, "ok")
          /\ buf' = IF o.kind = "fetch"
                    THEN [buf EXCEPT ![o.who] = Filled(@, o.stripe)] ELSE buf
       \/ "image_read" \in Faults /\ Finish(o, "err") /\ UNCHANGED buf
    /\ UNCHANGED <<stripes, stripe_fetch_queue, io, active, stripe_idx,
                   reads, requests, base, locals>>

BaseStripeWrite(o) ==
    /\ o.kind = "stripe_write" /\ o.at = "sub"
    /\ \/ /\ Finish(o, "ok")
          /\ base' = [b \in Block |-> IF b \in StripeBlocks(o.stripe)
                        THEN buf[o.who][b - FirstBlock(o.stripe)] ELSE base[b]]
       \/ "stripe_write" \in Faults /\ Finish(o, "err") /\ UNCHANGED base
    /\ UNCHANGED <<stripes, stripe_fetch_queue, io, slots, reads,
                   requests, locals>>

BaseClientIo(o) ==
    LET i == o.who
    IN  /\ o.kind = "base_io" /\ o.at = "sub"
        /\ \/ /\ Finish(o, "ok")
              /\ base' = IF i.type = "WRITE"
                         THEN [b \in Block |-> IF b \in Blocks(i) THEN i ELSE base[b]]
                         ELSE base
              /\ result' = IF i.type = "READ"
                           THEN [result EXCEPT ![i] = [b \in Blocks(i) |-> base[b]]]
                           ELSE result
           \/ "base_io" \in Faults /\ Finish(o, "err") /\ UNCHANGED <<base, result>>
        /\ UNCHANGED <<stripes, stripe_fetch_queue, io, slots, reads,
                       phase, locals>>

----------------------------------------------------------------------------
\* Completions that the base bdev delivers from its own poller.

\* The callback does not look at its argument "success".
write_stripe_io_completion(o) ==
    /\ pc = "idle" /\ o.kind = "stripe_write" /\ Finished(o)
    /\ ubi_set_stripe_status(stripe_idx[o.who], "FETCHED")
    /\ stripes_fetched' = stripes_fetched + 1
    /\ active' = [active EXCEPT ![o.who] = FALSE]
    /\ ops' = ops \ {o}
    /\ UNCHANGED <<stripe_fetch_queue, io, stripe_idx, buf, reads, requests,
                   base, locals>>

ubi_io_completion_cb(o) ==
    /\ pc = "idle" /\ o.kind = "base_io" /\ Finished(o)
    /\ ubi_complete_io(o.who, o.at = "ok", active_reads)
    /\ ops' = ops \ {o}
    /\ UNCHANGED <<stripes, stripe_fetch_queue, io, slots, has_reads,
                   result, base, locals>>

FlushCompletion(i) ==
    /\ pc = "idle" /\ phase[i] = "flush"
    /\ \E end \in {"ok"} \cup (IF "base_io" \in Faults THEN {"failed"} ELSE {}) :
         phase' = [phase EXCEPT ![i] = end]
    /\ UNCHANGED <<stripes, stripe_fetch_queue, io, slots, reads, ops,
                   result, base, locals>>

Environment == \E o \in ops : KernelRead(o) \/ BaseStripeWrite(o) \/ BaseClientIo(o)

Completion ==
    \/ \E o \in ops : write_stripe_io_completion(o) \/ ubi_io_completion_cb(o)
    \/ \E i \in Io : FlushCompletion(i) \/ LateGetBuf(i)

Next ==
    \/ \E i \in Io : ubi_submit_request(i)
    \/ Poll
    \/ Environment
    \/ Completion

Spec == Init /\ [][Next]_vars

\* SPDK runs the pollers of a thread in turn: the poller is always called again
\* (weak fairness), and between two of its runs the base bdev's poller gets its
\* turn to deliver completions (strong fairness: completions need pc = "idle").
\* Whatever was handed to the kernel or to the base bdev is executed.  Clients
\* need not submit anything.
FairSpec == /\ Spec
            /\ WF_vars(Poll) /\ WF_vars(Environment) /\ SF_vars(Completion)

----------------------------------------------------------------------------
\* Properties.

Queued(s)   == \E n \in 1 .. Len(stripe_fetch_queue) : stripe_fetch_queue[n] = s
Fetching(s) == \E k \in Slot : active[k] /\ stripe_idx[k] = s
Reading(i)  == i.type = "READ" /\ phase[i] \in {"getbuf", "image", "base"}

SlotOp == [kind : {"fetch", "stripe_write"}, who : Slot, stripe : Stripe,
           at : {"sq", "sub", "ok", "err"}]
IoOp   == [kind : {"image_read", "base_io"}, who : Io, stripe : Stripe,
           at : {"sq", "sub", "ok", "err"}]

\* Every variable has its type.
TypeOK ==
    /\ stripe_status \in [Stripe -> {"NOT_FETCHED", "INFLIGHT", "FAILED", "FETCHED"}]
    /\ stripe_headers \in [Stripe -> {0, 1}] /\ stripes_fetched \in Nat
    /\ stripe_fetch_queue \in Seq(Stripe) /\ io \in Seq(Io)
    /\ active \in [Slot -> BOOLEAN] /\ stripe_idx \in [Slot -> Stripe]
    /\ buf \in [Slot -> [Offset -> Contents]]
    /\ active_reads \in Int /\ has_reads \in Nat
    /\ ops \subseteq SlotOp \cup IoOp
    /\ phase \in [Io -> {"new", "queued", "getbuf", "image", "base", "flush",
                         "lost", "ok", "failed"}]
    /\ base \in [Block -> Contents]
    /\ pc \in {"idle", "reap", "start", "serve", "submit"}
    /\ queues_empty \in BOOLEAN /\ cb \in BOOLEAN
    /\ batch \subseteq SlotOp \cup IoOp /\ free \subseteq Slot

\* A stripe is INFLIGHT exactly while it is in the fetch queue or in one slot,
\* and it is there once: ubi_submit_request never enqueues a stripe twice.
StripeFetchedOnce ==
    /\ \A m, n \in 1 .. Len(stripe_fetch_queue) :
         stripe_fetch_queue[m] = stripe_fetch_queue[n] => m = n
    /\ \A k, l \in Slot : active[k] /\ active[l] /\ stripe_idx[k] = stripe_idx[l] => k = l
    /\ \A s \in Stripe : /\ ~ (Queued(s) /\ Fetching(s))
                         /\ stripe_status[s] = "INFLIGHT" <=> Queued(s) \/ Fetching(s)

\* The metadata in memory says which stripes are on the base bdev, and
\* stripes_fetched, which ubi_data_flush_completion compares to decide whether
\* metadata is dirty, counts them.
MetadataTracksFetches ==
    /\ \A s \in Stripe : stripe_headers[s] = 1 <=> stripe_status[s] = "FETCHED"
    /\ stripes_fetched = Cardinality({s \in Stripe : stripe_status[s] = "FETCHED"})

\* "Is this currently used for an ongoing stripe fetch?"  A slot is active
\* exactly while one operation of its own, on its stripe, is in flight; so its
\* buffer is not reused under an operation.
SlotOwnsItsFetch ==
    \A k \in Slot : LET own == {o \in ops : o.who = k}
                    IN  /\ active[k] <=> own # {}
                        /\ \A o, p \in own : o = p
                        /\ \A o \in own : o.stripe = stripe_idx[k]

\* A stripe being fetched is awaited by a request of this channel: no fetch is
\* queued or in flight when the channel has no I/O and may be destroyed, and the
\* fetch queue never holds more entries than ch->io.
FetchHasWaiter ==
    \A s \in Stripe : stripe_status[s] = "INFLIGHT" =>
        \E n \in 1 .. Len(io) : InImage(io[n]) /\ StartStripe(io[n]) = s

\* "Such a scenario should never arise": a queued request whose stripe should be
\* fetched never finds it NOT_FETCHED.
QueuedIsFetching ==
    \A n \in 1 .. Len(io) : ~ NeedsFetch(io[n])

\* active_reads counts the reads being served, on every path that starts, ends
\* or fails one, and respects its limit.
ActiveReadsExact ==
    /\ active_reads = Cardinality({i \in Io : Reading(i)})
    /\ active_reads <= UBI_MAX_CONCURRENT_READS

\* UBI_URING_QUEUE_SIZE = UBI_MAX_ACTIVE_STRIPE_FETCHES + UBI_MAX_CONCURRENT_READS:
\* when a fetch is started the submission queue has a free entry, so that
\* io_uring_get_sqe, whose result is not checked there, does not return NULL.
SqeForFetch ==
    pc = "start" /\ free # {} /\ stripe_fetch_queue # <<>> => SqLen < UBI_URING_QUEUE_SIZE

\* FETCHED and FAILED are final.
SettledIsFinal ==
    [][\A s \in Stripe : stripe_status[s] \in {"FETCHED", "FAILED"}
                           => stripe_status'[s] = stripe_status[s]]_vars

\* "Once stripe has been fetched, the actual I/O operation is served": again and
\* again every request that was submitted has completed, so none is left behind.
EveryIoCompletes ==
    []<>(\A i \in Io : phase[i] \in {"new", "ok", "failed"})

\* Refinement: what a client sees of block b.
View == [b \in Block |-> IF b < image_block_count /\ stripe_status[StripeOf(b)] # "FETCHED"
                          THEN ImageData(b) ELSE base[b]]

\* "Read data didn't match written data": a block that holds a write the
\* client was told has succeeded changes only by another write.
WrittenStays == [][\A b \in Block : View[b] \in Io /\ phase[View[b]] = "ok"
                                     => View'[b] \in Io]_vars

Effective(i) == \/ phase[i] = "image"
                \/ phase[i] = "base" /\ \E o \in ops : o.who = i /\ o.at = "ok"

IoState == [i \in Io |-> IF phase[i] \in {"new", "ok", "failed"} THEN phase[i]
                          ELSE IF Effective(i) THEN "effective" ELSE "pending"]

VD == INSTANCE VirtualDisk WITH disk <- View, state <- IoState

\* The channel implements a virtual disk: reads return what was last written or
\* the image, from the base bdev or from the image file, and fetching a stripe
\* is invisible.
ImplementsVirtualDisk == VD!Spec

----------------------------------------------------------------------------
\* The inductive invariant behind the safety properties.

\* The setting in which the channel is a virtual disk: the image ends where a
\* stripe ends, the bdev layer has split plain reads at stripe boundaries, and
\* the two failures the code mishandles (see the README) do not happen.
SafeSetting ==
    /\ \A b, c \in Block : StripeOf(b) = StripeOf(c) /\ b < image_block_count
                              => c < image_block_count
    /\ \A i \in Io : i.type = "READ" /\ ~ copy_on_read => StartStripe(i) = EndStripe(i)
    /\ "stripe_write" \notin Faults /\ "fetch_submit" \notin Faults

\* A slot or a request has at most one operation in flight, of the kind its
\* state says.
OpsInv ==
    /\ \A o, p \in ops : o.who = p.who => o = p
    /\ \A o \in ops :
         /\ o.kind = "image_read" => phase[o.who] = "image"
         /\ o.kind = "base_io" => phase[o.who] = "base" /\ o.at # "sq"
         /\ o.who \in Slot => /\ active[o.who] /\ o.stripe = stripe_idx[o.who]
                              /\ o.at # "sq"
    /\ \A k \in Slot : active[k] => \E o \in ops : o.who = k

\* The requests on ch->io are distinct and queued.
QueueInv ==
    /\ \A n \in 1 .. Len(io) : phase[io[n]] = "queued"
    /\ \A m, n \in 1 .. Len(io) : io[m] = io[n] => m = n

\* How a request is served follows from its type.
PhaseInv ==
    \A i \in Io : /\ phase[i] \in {"getbuf", "image"} => i.type = "READ"
                  /\ phase[i] = "base" => i.type \in {"READ", "WRITE"}
                  /\ phase[i] = "flush" => i.type = "FLUSH"

\* A request has at most one operation in flight, of the kind its phase says,
\* and an image read about to be completed is still in flight.
RequestOps ==
    /\ \A o, p \in ops : o.who \in Io /\ o.who = p.who => o = p
    /\ \A o \in ops : /\ o.kind = "image_read" => phase[o.who] = "image"
                      /\ o.kind = "base_io" => phase[o.who] = "base" /\ o.at # "sq"
    /\ \A o \in batch : o.kind = "image_read" => o \in ops /\ Finished(o)

\* How requests are served, inductive whatever fails: on ch->io once and only while
\* it waits, then by at most one operation at a time, of the kind its type and phase
\* say, so that no completion ends a request a second time or one never started.
RequestInv == TypeOK /\ QueueInv /\ PhaseInv /\ RequestOps

\* The poller's locals.
LocalsInv ==
    /\ pc # "reap" => batch = {}
    /\ \A o \in batch : o \in ops /\ Uring(o) /\ Finished(o)
    /\ pc = "start" => \A k \in free : ~ active[k]

\* How fetches run, inductive unless a fetch cannot be submitted to the ring.
ControlInv == /\ TypeOK /\ OpsInv /\ QueueInv /\ LocalsInv
              /\ StripeFetchedOnce /\ FetchHasWaiter /\ QueuedIsFetching

\* What was not refused does not span stripes.
SpanInv ==
    \A i \in Io : phase[i] \notin {"new", "failed"} /\ i.type # "FLUSH"
                  => StartStripe(i) = EndStripe(i)

\* A fetched buffer holds the stripe, a written stripe is on the base bdev, and
\* a client's I/O goes to blocks whose stripe has been fetched for good.
OpData(o) ==
    /\ o.kind = "stripe_write" => o.at # "err"
    /\ o.kind = "stripe_write" \/ (o.kind = "fetch" /\ o.at = "ok")
       => \A d \in Offset : FirstBlock(o.stripe) + d \in Block
            => buf[o.who][d] = ImageData(FirstBlock(o.stripe) + d)
    /\ o.kind = "stripe_write" /\ o.at = "ok"
       => \A b \in StripeBlocks(o.stripe) : base[b] = ImageData(b)
    /\ o.kind = "stripe_write" => StripeBlocks(o.stripe) \subseteq Block
    /\ o.kind = "base_io" => ReadsBase(o.who)

DataInv == \A o \in ops : OpData(o)

\* The conjunction, inductive in the safe setting.
IInv == ControlInv /\ SpanInv /\ DataInv
=============================================================================
