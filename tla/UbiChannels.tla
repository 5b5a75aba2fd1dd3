----------------------------- MODULE UbiChannels -----------------------------
(***************************************************************************)
(* Several I/O channels on one ubi bdev.  Each has its own queues and      *)
(* fetches; they share stripe_status, stripes_fetched and the base bdev,   *)
(* without a lock.  A channel belongs to an SPDK thread.  When all threads *)
(* run on one reactor a handler is not interrupted by those of another     *)
(* channel; on several reactors every access to shared state is a step of  *)
(* its own.                                                                *)
(*                                                                         *)
(* UbiIoChannel has one channel in full.  Here a stripe is one block of    *)
(* the image, and the poller may take its steps in any order.              *)
(***************************************************************************)
EXTENDS Integers, Sequences, FiniteSets

CONSTANTS
    Channel, Stripe,
    Io,            \* requests: records with id, ch, type and stripe
    Reactors,      \* the settings to consider: subset of {"one", "many"}
    copy_on_read,
    UBI_MAX_ACTIVE_STRIPE_FETCHES,
    Faults         \* what may fail: subset of {"image_read", "stripe_write", "write_submit"}

ASSUME ChannelsAssumption ==
    /\ \A i \in Io : i.ch \in Channel /\ i.type \in {"READ", "WRITE"} /\ i.stripe \in Stripe
    /\ Reactors \subseteq {"one", "many"} /\ copy_on_read \in BOOLEAN
    /\ UBI_MAX_ACTIVE_STRIPE_FETCHES \in Nat \ {0} /\ IsFiniteSet(Stripe)

\* What a stripe may hold besides a write of Io.
OldData == [data |-> "old"]
Image   == [data |-> "image"]
Nothing == [data |-> "none"]

\* What a base write of the stripe that failed has left.
Unwritten == [data |-> "unwritten"]

ASSUME ContentsDiffer == OldData \notin Io /\ Image \notin Io /\ Unwritten \notin Io

VARIABLES
    reactors,
    stripe_status, stripes_fetched,  \* of ubi_bdev, shared
    base,                \* the stripes of the base bdev
    io, stripe_fetch_queue, fetches, \* of each channel
    running,             \* the rest of the handler that each thread is in
    phase, result        \* of each request

shared   == <<stripe_status, stripes_fetched>>
requests == <<phase, result>>
vars == <<reactors, shared, base, io, stripe_fetch_queue, fetches, running, requests>>

Init ==
    /\ reactors \in Reactors
    /\ stripe_status = [s \in Stripe |-> "NOT_FETCHED"] /\ stripes_fetched = 0
    /\ base = [s \in Stripe |-> OldData]
    /\ io = [c \in Channel |-> <<>>] /\ stripe_fetch_queue = [c \in Channel |-> <<>>]
    /\ fetches = [c \in Channel |-> {}] /\ running = [c \in Channel |-> <<>>]
    /\ phase = [i \in Io |-> "new"] /\ result = [i \in Io |-> Nothing]

\* A handler of channel c begins; its last step ends it.
Begins(c) == /\ running[c] = <<>>
             /\ reactors = "many" \/ \A d \in Channel : running[d] = <<>>
Runs(c, rest) == running' = [running EXCEPT ![c] = rest]

Fetch(s, at) == [stripe |-> s, at |-> at]

----------------------------------------------------------------------------
\* Submission: the status is tested, and set in a later step.

\* Mutants: a stripe being fetched, or fetched, is enqueued again.
FetchesTwice(i) == stripe_status[i.stripe] \in {"NOT_FETCHED", "INFLIGHT"}
FetchesAgain(i) == stripe_status[i.stripe] \in {"NOT_FETCHED", "FETCHED"}

NotFetched(i) == stripe_status[i.stripe] = "NOT_FETCHED"

TriggersFetch(i) == i.type = "WRITE" \/ copy_on_read

Enqueue(i) == /\ io' = [io EXCEPT ![i.ch] = Append(@, i)]
              /\ phase' = [phase EXCEPT ![i] = "queued"]

ubi_submit_request(i) ==
    /\ Begins(i.ch) /\ phase[i] = "new"
    /\ IF TriggersFetch(i) /\ NotFetched(i)
       THEN /\ stripe_fetch_queue' = [stripe_fetch_queue EXCEPT ![i.ch] = Append(@, i.stripe)]
            /\ Runs(i.ch, <<"mark", i>>) /\ UNCHANGED <<io, phase>>
       ELSE Enqueue(i) /\ UNCHANGED <<stripe_fetch_queue, running>>
    /\ UNCHANGED <<reactors, shared, base, fetches, result>>

MarkInflight(i) ==
    /\ running[i.ch] = <<"mark", i>> /\ Runs(i.ch, <<>>)
    /\ stripe_status' = [stripe_status EXCEPT ![i.stripe] = "INFLIGHT"]
    /\ Enqueue(i)
    /\ UNCHANGED <<reactors, stripes_fetched, base, stripe_fetch_queue, fetches, result>>

----------------------------------------------------------------------------
\* Fetches.

ubi_start_fetch_stripe(c) ==
    /\ Begins(c) /\ stripe_fetch_queue[c] # <<>>
    /\ Cardinality(fetches[c]) < UBI_MAX_ACTIVE_STRIPE_FETCHES
    /\ stripe_fetch_queue' = [stripe_fetch_queue EXCEPT ![c] = Tail(@)]
    /\ fetches' = [fetches EXCEPT ![c] = @ \cup {Fetch(Head(stripe_fetch_queue[c]), "image")}]
    /\ UNCHANGED <<reactors, shared, base, io, running, requests>>

\* Mutant: the stripe stays INFLIGHT.
StaysInflight(s) == stripe_status

Failed(s) == [stripe_status EXCEPT ![s] = "FAILED"]

\* The image read is done: the stripe is written to the base bdev, or has failed.
ubi_complete_fetch_stripe(c, f) ==
    /\ Begins(c) /\ f.at = "image"
    /\ \/ /\ fetches' = [fetches EXCEPT ![c] = (@ \ {f}) \cup {Fetch(f.stripe, "write")}]
          /\ UNCHANGED stripe_status
       \/ /\ "image_read" \in Faults
          /\ stripe_status' = Failed(f.stripe)
          /\ fetches' = [fetches EXCEPT ![c] = @ \ {f}]
    /\ UNCHANGED <<reactors, stripes_fetched, base, io, stripe_fetch_queue, running, requests>>

\* The base bdev (external).
BaseStripeWrite(c, f) ==
    /\ f.at = "write"
    /\ \/ base' = [base EXCEPT ![f.stripe] = Image]
       \/ "stripe_write" \in Faults /\ base' = [base EXCEPT ![f.stripe] = Unwritten]
    /\ fetches' = [fetches EXCEPT ![c] = (@ \ {f}) \cup {Fetch(f.stripe, "written")}]
    /\ UNCHANGED <<reactors, shared, io, stripe_fetch_queue, running, requests>>

\* The callback does not look at `success`.  It stores the status; stripes_fetched++
\* is a load and a store.
write_stripe_io_completion(c, f) ==
    /\ Begins(c) /\ f.at = "written"
    /\ stripe_status' = [stripe_status EXCEPT ![f.stripe] = "FETCHED"]
    /\ Runs(c, <<"load", f>>)
    /\ UNCHANGED <<reactors, stripes_fetched, base, io, stripe_fetch_queue, fetches, requests>>

LoadFetched(c) ==
    /\ running[c] # <<>> /\ running[c][1] = "load"
    /\ Runs(c, <<"count", running[c][2], stripes_fetched>>)
    /\ UNCHANGED <<reactors, shared, base, io, stripe_fetch_queue, fetches, requests>>

CountFetched(c) ==
    /\ running[c] # <<>> /\ running[c][1] = "count" /\ Runs(c, <<>>)
    /\ stripes_fetched' = running[c][3] + 1
    /\ fetches' = [fetches EXCEPT ![c] = @ \ {running[c][2]}]
    /\ UNCHANGED <<reactors, stripe_status, base, io, stripe_fetch_queue, requests>>

----------------------------------------------------------------------------
\* Serving requests.

\* Stripe s is in the fetch queue of channel c; the channel fetches it.
Queued(c, s) == \E n \in 1 .. Len(stripe_fetch_queue[c]) : stripe_fetch_queue[c][n] = s
Held(c, s)   == Queued(c, s) \/ \E f \in fetches[c] : f.stripe = s

\* Mutants: only the channel's own fetches are waited for; only reads wait.
OwnFetches(i) == Held(i.ch, i.stripe)
OnlyReadsWait(i) == i.type = "READ" /\ stripe_status[i.stripe] = "INFLIGHT"

Waits(i) == stripe_status[i.stripe] = "INFLIGHT"

Refused(i) == \/ stripe_status[i.stripe] = "FAILED"
              \/ stripe_status[i.stripe] = "NOT_FETCHED" /\ TriggersFetch(i)

\* The head of ch->io: the status is tested here, and by a read once more.  A write
\* that the base bdev does not take is on no list any more.
Serve(i) ==
    /\ Begins(i.ch) /\ io[i.ch] # <<>> /\ i = Head(io[i.ch]) /\ ~ Waits(i)
    /\ io' = [io EXCEPT ![i.ch] = Tail(@)]
    /\ \/ Refused(i) /\ phase' = [phase EXCEPT ![i] = "failed"] /\ UNCHANGED running
       \/ /\ ~ Refused(i) /\ i.type = "WRITE"
          /\ \/ phase' = [phase EXCEPT ![i] = "base"]
             \/ "write_submit" \in Faults /\ phase' = [phase EXCEPT ![i] = "lost"]
          /\ UNCHANGED running
       \/ ~ Refused(i) /\ i.type = "READ" /\ Runs(i.ch, <<"getbuf", i>>) /\ UNCHANGED phase
    /\ UNCHANGED <<reactors, shared, base, stripe_fetch_queue, fetches, result>>

\* Mutant: a stripe being fetched is read from the base bdev.
ReadsBaseEarly(i) == stripe_status[i.stripe] \in {"INFLIGHT", "FETCHED"}

ReadsBase(i) == stripe_status[i.stripe] = "FETCHED"

get_buf_for_read_cb(i) ==
    /\ running[i.ch] = <<"getbuf", i>> /\ Runs(i.ch, <<>>)
    /\ IF ReadsBase(i) THEN phase' = [phase EXCEPT ![i] = "base"] /\ UNCHANGED result
       ELSE /\ phase' = [phase EXCEPT ![i] = "effective"]
            /\ result' = [result EXCEPT ![i] = Image]
    /\ UNCHANGED <<reactors, shared, base, io, stripe_fetch_queue, fetches>>

\* The base bdev (external).
BaseClientIo(i) ==
    /\ phase[i] = "base" /\ phase' = [phase EXCEPT ![i] = "effective"]
    /\ IF i.type = "WRITE" THEN base' = [base EXCEPT ![i.stripe] = i] /\ UNCHANGED result
       ELSE result' = [result EXCEPT ![i] = base[i.stripe]] /\ UNCHANGED base
    /\ UNCHANGED <<reactors, shared, io, stripe_fetch_queue, fetches, running>>

ubi_complete_io(i) ==
    /\ Begins(i.ch) /\ phase[i] = "effective" /\ phase' = [phase EXCEPT ![i] = "ok"]
    /\ UNCHANGED <<reactors, shared, base, io, stripe_fetch_queue, fetches, running, result>>

Thread(c) ==
    \/ ubi_start_fetch_stripe(c) \/ LoadFetched(c) \/ CountFetched(c)
    \/ \E f \in fetches[c] : ubi_complete_fetch_stripe(c, f) \/ write_stripe_io_completion(c, f)
    \/ \E i \in Io : i.ch = c /\ \/ MarkInflight(i) \/ Serve(i)
                                 \/ get_buf_for_read_cb(i) \/ ubi_complete_io(i)

BaseBdev == \/ \E c \in Channel : \E f \in fetches[c] : BaseStripeWrite(c, f)
            \/ \E i \in Io : BaseClientIo(i)

Next == \/ \E i \in Io : ubi_submit_request(i)
        \/ \E c \in Channel : Thread(c)
        \/ BaseBdev

Spec == Init /\ [][Next]_vars

\* Every thread goes on, and so does the base bdev; clients need not submit.
FairSpec == Spec /\ WF_vars(BaseBdev) /\ \A c \in Channel : WF_vars(Thread(c))

----------------------------------------------------------------------------
\* Properties.

OneReactor == reactors = "one"
Between == \A c \in Channel : running[c] = <<>>

\* On one reactor no stripe is fetched by two channels, and between handlers a
\* stripe is INFLIGHT exactly while some channel fetches it.
FetchedByOneChannel ==
    OneReactor =>
      \A s \in Stripe :
        /\ \A c, d \in Channel : Held(c, s) /\ Held(d, s) => c = d
        /\ Between => (stripe_status[s] = "INFLIGHT" <=> \E c \in Channel : Held(c, s))

\* A request on ch->io is for stripe s.
Awaited(c, s) == \E n \in 1 .. Len(io[c]) : io[c][n].stripe = s

\* On one reactor a channel that fetches a stripe has a request waiting for it: it
\* cannot be destroyed, which the bdev layer does when it has no I/O, under a fetch
\* that other channels wait for.
FetchHasWaiter ==
    OneReactor /\ Between =>
      \A c \in Channel, s \in Stripe : Held(c, s) => Awaited(c, s)

Fetched == {s \in Stripe : stripe_status[s] = "FETCHED"}

\* On one reactor no fetched stripe is counted twice or left out of
\* stripes_fetched, which decides whether a flush writes the metadata.
CountExact ==
    OneReactor /\ Between =>
        stripes_fetched = Cardinality(Fetched)

\* "Read data didn't match written data": on one reactor an acknowledged write, of
\* whichever channel, is not overwritten by a fetch.
WrittenStays ==
    [][\A s \in Stripe : OneReactor /\ base[s] \in Io /\ phase[base[s]] = "ok"
                            => base'[s] \in Io]_vars

\* Also on several reactors, a FETCHED stripe holds the image, a write, or what a
\* failed base write of the stripe left, and no read returns what was there before:
\* write_stripe_io_completion runs after that write.
NoOldData ==
    /\ \A s \in Stripe : stripe_status[s] = "FETCHED" => base[s] \in Io \cup {Image, Unwritten}
    /\ \A i \in Io : result[i] \in Io \cup {Image, Unwritten, Nothing}

\* Also on several reactors, no request waits for ever for a fetch of another channel:
\* again and again every request that was submitted has completed, or is a write that
\* the base bdev did not take.
EveryIoServed ==
    []<>(\A i \in Io : phase[i] \in {"new", "ok", "failed", "lost"})

----------------------------------------------------------------------------
\* The inductive invariants behind the safety properties.

FetchRecord == [stripe : Stripe, at : {"image", "write", "written"}]
Rest    == {<<>>} \cup ({"mark", "getbuf"} \X Io) \cup ({"load"} \X FetchRecord)
                  \cup ({"count"} \X FetchRecord \X Nat)
Phases  == {"new", "queued", "base", "effective", "ok", "failed", "lost"}
Content == Io \cup {OldData, Image, Unwritten}

\* Every variable has its type.
TypeOK ==
    /\ reactors \in {"one", "many"} /\ stripes_fetched \in Nat
    /\ stripe_status \in [Stripe -> {"NOT_FETCHED", "INFLIGHT", "FAILED", "FETCHED"}]
    /\ io \in [Channel -> Seq(Io)] /\ stripe_fetch_queue \in [Channel -> Seq(Stripe)]
    /\ fetches \in [Channel -> SUBSET FetchRecord]
    /\ running \in [Channel -> Rest] /\ phase \in [Io -> Phases]
    /\ base \in [Stripe -> Content] /\ result \in [Io -> Content \cup {Nothing}]

Marking(c, s)  == \E i \in Io : running[c] = <<"mark", i>> /\ i.stripe = s
Completes(c)   == running[c] # <<>> /\ running[c][1] \in {"load", "count"}
Counting(c, s) == \E f \in fetches[c] :
                    /\ f.stripe = s /\ f.at = "written"
                    /\ running[c] \in {<<"load", f>>, <<"count", f, stripes_fetched>>}

NoRepeat(c) == \A m, n \in 1 .. Len(stripe_fetch_queue[c]) :
                 stripe_fetch_queue[c][m] = stripe_fetch_queue[c][n] => m = n

\* Where the fetches are.
HeldInv ==
    /\ \A c \in Channel :
         /\ NoRepeat(c)
         /\ \A f \in fetches[c] : ~ Queued(c, f.stripe)
         /\ \A f, g \in fetches[c] : f.stripe = g.stripe => f = g
    /\ \A c, d \in Channel, s \in Stripe : Held(c, s) /\ Held(d, s) => c = d

\* How the status follows from them, and from the handler that is running.
StatusInv ==
    /\ \A c, d \in Channel : running[c] # <<>> /\ running[d] # <<>> => c = d
    /\ \A c \in Channel : Completes(c) => \E s \in Stripe : Counting(c, s)
    /\ \A c \in Channel, s \in Stripe :
         /\ Held(c, s) => stripe_status[s] = "INFLIGHT" \/ Marking(c, s) \/ Counting(c, s)
         /\ Held(c, s) /\ stripe_status[s] = "INFLIGHT" => Awaited(c, s)
         /\ Marking(c, s) => Queued(c, s) /\ stripe_status[s] = "NOT_FETCHED"
         /\ Counting(c, s) => stripe_status[s] = "FETCHED"
    /\ \A s \in Stripe : stripe_status[s] = "INFLIGHT" => \E c \in Channel : Held(c, s)

\* Writes go to stripes that have been fetched.
WriteInv == /\ \A i \in Io : phase[i] = "base" /\ i.type = "WRITE"
                               => stripe_status[i.stripe] = "FETCHED"
            /\ \A s \in Stripe : base[s] \in Io => stripe_status[s] = "FETCHED"

\* The stripe being counted is not in stripes_fetched yet.
Behind   == \E c \in Channel : Completes(c)
CountInv == Cardinality(Fetched) = stripes_fetched + (IF Behind THEN 1 ELSE 0)

\* The conjunction, inductive on one reactor.
IInv == OneReactor => HeldInv /\ StatusInv /\ WriteInv /\ CountInv

\* Inductive on any number of reactors: what was written is not old.
NotOld ==
    /\ \A s \in Stripe : stripe_status[s] = "FETCHED" => base[s] # OldData
    /\ \A c \in Channel : \A f \in fetches[c] : f.at = "written" => base[f.stripe] # OldData
    /\ \A i \in Io : /\ phase[i] = "base" => base[i.stripe] # OldData
                     /\ result[i] # OldData
=============================================================================
