------------------------------ MODULE UbiFlush ------------------------------
(***************************************************************************)
(* Flush requests, the metadata they persist, and restarts of a ubi bdev.  *)
(*                                                                         *)
(* The base bdev may have a volatile write cache: what was written is lost *)
(* in a crash unless it was flushed, or happened to be written back.  The  *)
(* 8MB of metadata are not written atomically: a cell per stripe header    *)
(* and one for the magic.  Contents of a stripe are versions: -1 is what   *)
(* the base bdev held before the disk was created, -2 is what a failed base*)
(* write of the stripe left there, 0 is the image, and clients write 1, 2, *)
(* ...                                                                     *)
(***************************************************************************)
EXTENDS Integers, FiniteSets

CONSTANTS
    Stripe,       \* the stripes of the image
    Magic,        \* the magic of the metadata, beside the stripe headers
    Flush,        \* flush requests: records with id and range, a set of stripes
    MaxVersion,   \* bound on the writes to a stripe
    NoSync,       \* the values of opts->no_sync that creations are given
    write_cache,  \* the base bdev has a volatile write cache
    bounce,       \* the base bdev copies a buffer when a write is submitted,
                  \* rather than reading it when the write is executed
    stale_headers,\* a new disk may hold the stripe headers of an earlier one
    Ends,         \* how an incarnation of the bdev may end
    Faults        \* the failures that may happen

Cell == Stripe \cup {Magic}

AllFaults == {"data_submit", "data_flush", "md_submit", "md_write",
              "md_flush_submit", "md_flush", "stripe_write"}

ASSUME FlushAssumption ==
    /\ IsFiniteSet(Stripe) /\ Magic \notin Stripe
    /\ \A f \in Flush : f.range \subseteq Stripe
    /\ MaxVersion \in Nat /\ Faults \subseteq AllFaults
    /\ Ends \subseteq {"power_loss", "kill", "delete"}
    /\ NoSync \subseteq BOOLEAN /\ write_cache \in BOOLEAN
    /\ bounce \in BOOLEAN /\ stale_headers \in BOOLEAN

VARIABLES
    up,               \* the ubi bdev exists
    no_sync,          \* ubi_bdev->no_sync, an option of each creation
    stripe_status,    \* FETCHED or not; fetches in flight are in UbiIoChannel
    metadata,         \* ubi_bdev->metadata: 1 for a set header, the valid magic
    stripes_fetched, stripes_flushed,
    stage,            \* where each flush request is
    fetched_at,       \* ubi_io->stripes_fetched of each flush request
    todo, copied,     \* a metadata write: cells not yet written, bounce buffer
    data, md,         \* what the base bdev returns to reads
    data_d, md_d,     \* what of it is durable
    \* History variables, for the properties:
    last,             \* the last version written to each stripe
    need,             \* versions written when a flush was submitted
    promised,         \* versions a successful flush has covered
    order             \* when a stripe was fetched, counted like stripes_fetched

memory  == <<no_sync, stripe_status, metadata, stripes_fetched, stripes_flushed, order>>
flushes == <<stage, fetched_at, todo, copied, need>>
basedev == <<data, md, data_d, md_d>>
vars == <<up, memory, flushes, basedev, last, promised>>

\* Without a write cache what is written is durable at once.
Durable(old, written) == IF write_cache THEN old ELSE written
Larger(m, n) == IF m > n THEN m ELSE n

Init ==
    /\ up = FALSE /\ no_sync = FALSE
    /\ stripe_status = [s \in Stripe |-> "NOT_FETCHED"]
    /\ metadata = [c \in Cell |-> 0]
    /\ stripes_fetched = 0 /\ stripes_flushed = 0
    /\ stage = [f \in Flush |-> "new"] /\ fetched_at = [f \in Flush |-> 0]
    /\ todo = [f \in Flush |-> {}] /\ copied = [f \in Flush |-> [c \in Cell |-> 0]]
    /\ data = [s \in Stripe |-> -1] /\ data_d = data
    /\ md \in [Cell -> {0, 1}] /\ md[Magic] = 0 /\ md_d = md
    /\ stale_headers \/ md = [c \in Cell |-> 0]
    /\ last = [s \in Stripe |-> 0] /\ order = [s \in Stripe |-> 0]
    /\ need = [f \in Flush |-> [s \in Stripe |-> 0]]
    /\ promised = [s \in Stripe |-> 0]

----------------------------------------------------------------------------
\* Creation: the metadata is read; a disk with a zero magic is new.

Fetched(m) == {s \in Stripe : m[s] = 1}

\* Mutants: the magic is counted as a header; the count starts at -1.
CountsMagic(m) == Cardinality(Fetched(m)) + m[Magic]
CountsShort(m) == Cardinality(Fetched(m)) - 1

Count(m) == Cardinality(Fetched(m))

\* Mutant: the headers are not kept in ubi_bdev->metadata.
ForgetsHeaders == [c \in Cell |-> IF c = Magic THEN 1 ELSE 0]

\* ubi_init_metadata sets the magic and leaves the headers as they were read.
InMemory == [md EXCEPT ![Magic] = 1]

ubi_finish_read_metadata ==
    /\ ~ up /\ up' = TRUE /\ no_sync' \in NoSync
    /\ metadata' = InMemory
    /\ IF md[Magic] = 0
       THEN /\ stripe_status' = [s \in Stripe |-> "NOT_FETCHED"]
            /\ stripes_fetched' = 0 /\ stripes_flushed' = 0
       ELSE /\ stripe_status' = [s \in Stripe |-> IF s \in Fetched(md) THEN "FETCHED"
                                                  ELSE "NOT_FETCHED"]
            /\ stripes_fetched' = Count(md) /\ stripes_flushed' = Count(md)
    /\ order' = [s \in Stripe |-> 0]
    /\ UNCHANGED <<flushes, basedev, last, promised>>

\* The memory of the process is gone, and with it the flush requests in progress.
Stops ==
    /\ up' = FALSE /\ no_sync' = FALSE /\ stripe_status' = [s \in Stripe |-> "NOT_FETCHED"]
    /\ metadata' = [c \in Cell |-> 0] /\ order' = [s \in Stripe |-> 0]
    /\ stripes_fetched' = 0 /\ stripes_flushed' = 0
    /\ stage' = [f \in Flush |-> IF stage[f] \in {"new", "ok", "failed"} THEN stage[f]
                                 ELSE "gone"]
    /\ fetched_at' = [f \in Flush |-> 0] /\ todo' = [f \in Flush |-> {}]
    /\ copied' = [f \in Flush |-> [c \in Cell |-> 0]]
    /\ need' = [f \in Flush |-> [s \in Stripe |-> 0]]
    /\ UNCHANGED <<last, promised>>

\* The process is killed; the base bdev keeps its cache.
Kill == "kill" \in Ends /\ up /\ Stops /\ UNCHANGED basedev

\* The machine stops: any part of the cache may have been written back.
PowerLoss ==
    /\ "power_loss" \in Ends /\ Stops
    /\ \E C \in SUBSET {c \in Cell : md[c] # md_d[c]},
         S \in SUBSET {s \in Stripe : data[s] # data_d[s]} :
         /\ md_d' = [c \in Cell |-> IF c \in C THEN md[c] ELSE md_d[c]]
         /\ data_d' = [s \in Stripe |-> IF s \in S THEN data[s] ELSE data_d[s]]
    /\ md' = md_d' /\ data' = data_d'

Idle == \A f \in Flush : stage[f] \in {"new", "ok", "failed", "gone"}

\* The bdev is deleted once no I/O is outstanding; nothing is written.
ubi_destruct == "delete" \in Ends /\ up /\ Idle /\ Stops /\ UNCHANGED basedev

----------------------------------------------------------------------------
\* What the channel does meanwhile.

\* Mutant: the stripe is marked before its base write is done.
NotYet(s) == data

\* The base bdev with the image's stripe, and with what a failed write left of it.
Unwritten == -2
StripeWritten(s) == [data EXCEPT ![s] = 0]
StripeLost(s)    == [data EXCEPT ![s] = Unwritten]

\* The base write of a fetched stripe is done.  The callback does not look at success.
write_stripe_io_completion(s) ==
    /\ up /\ stripe_status[s] = "NOT_FETCHED"
    /\ stripe_status' = [stripe_status EXCEPT ![s] = "FETCHED"]
    /\ metadata' = [metadata EXCEPT ![s] = 1]
    /\ stripes_fetched' = stripes_fetched + 1
    /\ order' = [order EXCEPT ![s] = stripes_fetched + 1]
    /\ \/ data' = StripeWritten(s)
       \/ "stripe_write" \in Faults /\ data' = StripeLost(s)
    /\ data_d' = Durable(data_d, data')
    /\ UNCHANGED <<up, no_sync, stripes_flushed, flushes, md, md_d, last, promised>>

\* A client's write is acknowledged.
ClientWrite(s) ==
    /\ up /\ stripe_status[s] = "FETCHED" /\ last[s] < MaxVersion
    /\ last' = [last EXCEPT ![s] = @ + 1]
    /\ data' = [data EXCEPT ![s] = last[s] + 1] /\ data_d' = Durable(data_d, data')
    /\ UNCHANGED <<up, memory, flushes, md, md_d, promised>>

----------------------------------------------------------------------------
\* The stages of a flush request.

Goes(f, from, to) == stage[f] = from /\ stage' = [stage EXCEPT ![f] = to]

\* The request ends successfully; with no_sync that promises nothing.
Succeeds(f, from) ==
    /\ Goes(f, from, "ok")
    /\ promised' = [s \in Stripe |-> IF s \in f.range /\ ~ no_sync
                                     THEN Larger(promised[s], need[f][s]) ELSE promised[s]]

ubi_submit_flush_request(f) ==
    /\ up
    /\ \/ no_sync /\ Succeeds(f, "new") /\ UNCHANGED need
       \/ ~ no_sync /\ "data_submit" \in Faults /\ Goes(f, "new", "failed")
          /\ UNCHANGED <<need, promised>>
       \/ /\ ~ no_sync /\ Goes(f, "new", "data")
          /\ need' = [need EXCEPT ![f] = [s \in Stripe |->
                        IF stripe_status[s] = "FETCHED" /\ data[s] > 0 THEN data[s] ELSE 0]]
          /\ UNCHANGED promised
    /\ UNCHANGED <<up, memory, fetched_at, todo, copied, basedev, last>>

\* The base bdev flushes the range (external).
DataFlush(f) ==
    /\ \/ /\ Goes(f, "data", "data_ok")
          /\ data_d' = [s \in Stripe |-> IF s \in f.range THEN data[s] ELSE data_d[s]]
       \/ "data_flush" \in Faults /\ Goes(f, "data", "data_err") /\ UNCHANGED data_d
    /\ UNCHANGED <<up, memory, fetched_at, todo, copied, need, data, md, md_d, last, promised>>

\* Mutant: off by one.
CleanButOne == stripes_fetched <= stripes_flushed + 1

\* Is there nothing to write?
MetadataClean == stripes_fetched = stripes_flushed

\* When the data flush failed the callback returns without completing the
\* request.
ubi_data_flush_completion(f) ==
    /\ \/ /\ Goes(f, "data_err", "lost")
          /\ UNCHANGED <<fetched_at, todo, copied, promised>>
       \/ /\ MetadataClean /\ Succeeds(f, "data_ok")
          /\ UNCHANGED <<fetched_at, todo, copied>>
       \/ /\ ~ MetadataClean
          /\ fetched_at' = [fetched_at EXCEPT ![f] = stripes_fetched]
          /\ \/ "md_submit" \in Faults /\ Goes(f, "data_ok", "failed") /\ UNCHANGED <<todo, copied>>
             \/ /\ Goes(f, "data_ok", "md")
                /\ todo' = [todo EXCEPT ![f] = Cell]
                /\ copied' = IF bounce THEN [copied EXCEPT ![f] = metadata] ELSE copied
          /\ UNCHANGED promised
    /\ UNCHANGED <<up, memory, need, basedev, last>>

\* The base bdev writes one cell of the metadata (external).
MetadataCell(f, c) ==
    /\ stage[f] = "md" /\ c \in todo[f]
    /\ todo' = [todo EXCEPT ![f] = @ \ {c}]
    /\ md' = [md EXCEPT ![c] = IF bounce THEN copied[f][c] ELSE metadata[c]]
    /\ md_d' = Durable(md_d, md')
    /\ UNCHANGED <<up, memory, stage, fetched_at, copied, need, data, data_d, last, promised>>

MetadataWritten(f) ==
    /\ \/ todo[f] = {} /\ Goes(f, "md", "md_ok") /\ UNCHANGED todo
       \/ "md_write" \in Faults /\ Goes(f, "md", "md_err") /\ todo' = [todo EXCEPT ![f] = {}]
    /\ UNCHANGED <<up, memory, fetched_at, copied, need, basedev, last, promised>>

\* Mutant: returns without completing, as after a failed data flush.
Drops == "lost"

\* How a request ends whose metadata write failed.
FailedWrite == "failed"

ubi_metadata_write_completion(f) ==
    /\ \/ Goes(f, "md_err", FailedWrite)
       \/ "md_flush_submit" \in Faults /\ Goes(f, "md_ok", "failed")
       \/ Goes(f, "md_ok", "md_flush")
    /\ UNCHANGED <<up, memory, fetched_at, todo, copied, need, basedev, last, promised>>

\* The base bdev flushes the metadata (external).
MetadataFlush(f) ==
    /\ \/ Goes(f, "md_flush", "md_flush_ok") /\ md_d' = md
       \/ "md_flush" \in Faults /\ Goes(f, "md_flush", "md_flush_err") /\ UNCHANGED md_d
    /\ UNCHANGED <<up, memory, fetched_at, todo, copied, need, data, md, data_d, last, promised>>

\* Mutant: the count when the flush completes, not when the write was submitted.
FlushedByNow(f) == stripes_fetched

\* How many stripes the metadata flushed by f accounts for.
FlushedBy(f) == fetched_at[f]

ubi_metadata_flush_completion(f) ==
    /\ \/ Goes(f, "md_flush_err", "failed") /\ UNCHANGED <<stripes_flushed, promised>>
       \/ /\ Succeeds(f, "md_flush_ok")
          /\ stripes_flushed' = Larger(stripes_flushed, FlushedBy(f))
    /\ UNCHANGED <<up, no_sync, stripe_status, metadata, stripes_fetched, order, fetched_at, todo,
                   copied, need, basedev, last>>

BaseStep(f) == \/ DataFlush(f) \/ MetadataWritten(f) \/ MetadataFlush(f)
               \/ \E c \in Cell : MetadataCell(f, c)
Callback(f) == \/ ubi_data_flush_completion(f) \/ ubi_metadata_write_completion(f)
               \/ ubi_metadata_flush_completion(f)

Next ==
    \/ ubi_finish_read_metadata \/ Kill \/ PowerLoss \/ ubi_destruct
    \/ \E s \in Stripe : write_stripe_io_completion(s) \/ ClientWrite(s)
    \/ \E f \in Flush : ubi_submit_flush_request(f) \/ BaseStep(f) \/ Callback(f)

Spec == Init /\ [][Next]_vars

\* The base bdev executes what it was given and delivers completions.  Nothing
\* else has to happen.
FairSpec == Spec /\ \A f \in Flush : WF_vars(BaseStep(f)) /\ WF_vars(Callback(f))

----------------------------------------------------------------------------
\* Properties.

Stages == {"new", "data", "data_ok", "data_err", "md", "md_ok", "md_err", "md_flush",
           "md_flush_ok", "md_flush_err", "ok", "failed", "lost", "gone"}

\* Every variable has its type.
TypeOK ==
    /\ up \in BOOLEAN /\ no_sync \in BOOLEAN /\ stripe_status \in [Stripe -> {"NOT_FETCHED", "FETCHED"}]
    /\ metadata \in [Cell -> {0, 1}] /\ stripes_fetched \in Nat /\ stripes_flushed \in Nat
    /\ stage \in [Flush -> Stages] /\ fetched_at \in [Flush -> Nat]
    /\ todo \in [Flush -> SUBSET Cell] /\ copied \in [Flush -> [Cell -> {0, 1}]]
    /\ data \in [Stripe -> Int] /\ data_d \in [Stripe -> Int]
    /\ md \in [Cell -> {0, 1}] /\ md_d \in [Cell -> {0, 1}]
    /\ last \in [Stripe -> Nat] /\ need \in [Flush -> [Stripe -> Nat]]
    /\ promised \in [Stripe -> Nat] /\ order \in [Stripe -> Nat]

\* What the next incarnation of the disk reads from a stripe after a crash now.
Recovered(s) == IF md_d[Magic] = 1 /\ md_d[s] = 1 THEN data_d[s] ELSE 0

\* "We also support FLUSH to provide crash recovery": what was written before a
\* flush that covers it was submitted survives a crash once the flush has
\* succeeded, at any later time.
FlushedSurvives == \A s \in Stripe : promised[s] > 0 => Recovered(s) >= promised[s]

\* After a crash a stripe reads as the image or as something a client wrote, never
\* as what the base bdev held before.  The one exception is a stripe whose base write
\* failed, which write_stripe_io_completion marks as FETCHED all the same.
ImageOrWritten == \A s \in Stripe : Recovered(s) >= 0 \/ Recovered(s) = Unwritten

\* When ubi_data_flush_completion skips the metadata because stripes_fetched equals
\* stripes_flushed, the metadata on the base bdev is complete and durable.
CleanIsDurable ==
    up /\ MetadataClean => \A s \in Stripe : stripe_status[s] = "FETCHED"
                                               => md_d[s] = 1 /\ md_d[Magic] = 1

\* stripes_flushed never overtakes stripes_fetched, which counts the fetched stripes.
CountersAgree ==
    up => /\ stripes_flushed <= stripes_fetched
          /\ stripes_fetched = Cardinality({s \in Stripe : stripe_status[s] = "FETCHED"})

\* A durable stripe header stays durable.
HeadersStay == [][\A c \in Cell : md_d[c] = 1 => md_d'[c] = 1]_vars

\* "Then the I/O request is marked as completed": a flush that was submitted is
\* completed, unless the process ends first.
FlushCompletes ==
    \A f \in Flush : stage[f] = "data" ~> stage[f] \in {"ok", "failed", "gone"}

----------------------------------------------------------------------------
\* The inductive invariant behind the safety properties.

\* The setting in which flushed data survives: metadata writes take effect in the
\* order they complete, and metadata that creation reads from the write cache of
\* the base bdev has been flushed (see the README for what happens otherwise).
SafeSetting ==
    /\ ~ bounce
    /\ write_cache => /\ "kill" \notin Ends
                      /\ "delete" \in Ends => Faults \cap {"md_write", "md_flush_submit", "md_flush"} = {}

MdStages == {"md", "md_ok", "md_flush", "md_flush_ok"}

\* The counters order the fetches of this incarnation.
OrderInv ==
    up => /\ stripes_flushed <= stripes_fetched
          /\ \A s \in Stripe : order[s] <= stripes_fetched
          /\ \A f \in Flush : stage[f] \in MdStages => fetched_at[f] <= stripes_fetched

\* While the bdev is down no flush is under way.
IdleInv == ~ up => Idle

\* Without a write cache everything is durable.
CacheInv == ~ write_cache => md_d = md /\ data_d = data

\* The metadata in memory is ahead of the one on the base bdev, and that of the
\* durable one.
HeaderInv ==
    /\ \A c \in Cell : md_d[c] <= md[c]
    /\ up => metadata[Magic] = 1 /\ \A c \in Cell : md[c] <= metadata[c]

\* While the bdev is down, or nothing but a finished flush wrote the metadata,
\* all of it is durable.
MetadataInv ==
    /\ IdleInv /\ CacheInv /\ HeaderInv
    /\ up => \A s \in Stripe : stripe_status[s] = "FETCHED" => metadata[s] = 1
    /\ ~ up => md_d = md
    /\ "delete" \in Ends =>
         md_d = md \/ \E f \in Flush : stage[f] \in {"md", "md_ok", "md_flush"}

\* The metadata m records the first n stripes fetched.
Records(m, n) == \A s \in Stripe : stripe_status[s] = "FETCHED" /\ order[s] <= n
                                      => m[s] = 1 /\ m[Magic] = 1

\* How far flush f has brought the metadata.
FlushProgress(f) ==
    /\ stage[f] = "md" =>
         /\ Magic \in todo[f] \/ md[Magic] = 1
         /\ \A s \in Stripe : stripe_status[s] = "FETCHED" /\ order[s] <= fetched_at[f]
                                => s \in todo[f] \/ md[s] = 1
    /\ stage[f] \in {"md_ok", "md_flush"} => Records(md, fetched_at[f])
    /\ stage[f] = "md_flush_ok" => Records(md_d, fetched_at[f])

\* How far each flush has brought the metadata, and where the last one left it.
ProgressInv ==
    /\ up => Records(md_d, stripes_flushed)
    /\ \A f \in Flush : FlushProgress(f)

\* What flush f has to make durable of stripe s is on the base bdev, and durable
\* once its data flush is done; the metadata it writes records the stripe.
Needs(f, s) ==
    /\ need[f][s] <= last[s]
    /\ ~ stage[f] \in {"new", "ok", "failed", "lost", "gone"} /\ need[f][s] > 0 =>
         /\ stripe_status[s] = "FETCHED" /\ data[s] >= need[f][s]
         /\ ~ stage[f] \in {"data", "data_err"} /\ s \in f.range => data_d[s] >= need[f][s]
         /\ stage[f] \in MdStages => order[s] <= fetched_at[f]

\* No flush loses what it has to make durable.
NeedInv == \A f \in Flush, s \in Stripe : Needs(f, s)

\* What a flush has promised is durable and stays.
PromiseInv ==
    \A s \in Stripe :
      /\ data[s] <= last[s] /\ data_d[s] <= last[s] /\ promised[s] <= last[s]
      /\ promised[s] > 0 => /\ md_d[Magic] = 1 /\ md_d[s] = 1
                            /\ data[s] >= promised[s] /\ data_d[s] >= promised[s]
                            /\ up => stripe_status[s] = "FETCHED"

\* Some copy of the metadata has the header of stripe s set.
HeaderSet(s) == \/ md[s] = 1
                \/ up /\ metadata[s] = 1
                \/ \E f \in Flush : copied[f][s] = 1

\* Without a write cache, a header is set after the base write of its stripe, which
\* may have failed.
ImageInv == ~ write_cache /\ ~ stale_headers =>
              \A s \in Stripe : HeaderSet(s) => data[s] >= 0 \/ data[s] = Unwritten

\* The conjunction, inductive in the safe setting.
IInv == /\ TypeOK /\ OrderInv /\ MetadataInv /\ ProgressInv
        /\ NeedInv /\ PromiseInv /\ ImageInv
=============================================================================
