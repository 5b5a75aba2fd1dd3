# Verification of bdev_ubi

TLA+ models of the ubi bdev of this repository (`src/lib`, `src/include`), checked with TLC on
small instances, and proofs about them checked with TLAPS.

## 1. The system

A ubi bdev is an SPDK block device made of a read-only *image file* and a *base bdev*. The base bdev
holds 8 MB of metadata and then the disk's data in *stripes*. A stripe of the image is copied to the
base bdev (*fetched*) when it is first written, with `copy_on_read` also when it is first read. A
stripe header in the metadata says whether its stripe has been fetched. Flush requests persist data
and metadata.

| Part | State | Operations | Hard behaviour | Correctness |
|---|---|---|---|---|
| I/O channel (`bdev_ubi_io_channel.c`, `ubi_submit_request`) | queue `io`, `active_reads`, `has_reads`, io_uring | submit, poller (reap, start fetches, serve, submit ring), buffer callback, completions | client callbacks inside the poller, late buffers, failures at submission and at completion | a virtual disk: reads return what was last written or the image; every request completes |
| Stripe fetches (`bdev_ubi_stripe.c`) | `stripe_status`, headers, `stripes_fetched`, fetch slots | start, complete, fail a fetch; base write of a stripe | many requests for one stripe, several fetches at once, failed fetches | a stripe is fetched once, slots own their operation, outcomes are final |
| Fetch queue (`bdev_ubi_stripe.c`) | ring `entries`, `head`, `tail` | enqueue, dequeue, empty | wrap-around, no test for a full ring | a FIFO |
| Flush (`bdev_ubi_flush.c`) | `stripes_flushed`, per request `stripes_fetched` | data flush, metadata write, metadata flush, each with a completion | overlapping flushes, fetches during a flush, failures, crashes | flushed data survives; a skipped metadata write was not needed |
| Recovery (`ubi_finish_read_metadata`) | metadata on the base bdev | read metadata at creation | write caches, torn metadata writes, old headers | a stripe reads as the image or as written |
| Layout (`ubi_init_layout_params`) | layout fields, version stamp | computed and checked at creation | block lengths and stripe sizes, rounding, re-creation from a saved configuration | addresses computed in bytes and in blocks agree; the same disk comes back |
| Several channels | shared `stripe_status`, `stripes_fetched` | those of a channel, on several threads | test and set without a lock, waiting for another channel's fetch | one fetch per stripe, acknowledged writes stay, nobody waits for ever |
| Lifecycle (`bdev_ubi.c`, channel creation) | list of disks, descriptors, claims, channels | create, delete, destruct, channels, base bdev events | failures half-way, messages between threads, removal of the base bdev | nothing refers to freed memory, nothing leaks, deletion ends |
| JSON-RPC, configuration dump | requests not yet answered | `bdev_ubi_create`, `bdev_ubi_delete`, `ubi_write_config_json` | failures, deletion of a disk that is going away | every request is answered once |
| `vhost_ubi`, test control | none of their own | start-up, switches | none | not modelled |

Interaction: the channel enqueues fetches in the fetch queue, fetches change the status and the
headers, flushes write the headers, creation reads them back. The lifecycle decides when channels
exist; the layout gives the block arithmetic all of them use. Channels meet in the status of stripes
and on the base bdev.

The hazards of the code, each at its line with the properties that cover it, are listed in
`PROJECT.json`.

## 2. Modules

| Module | Models | Kind |
|---|---|---|
| `VirtualDisk` | what a client may rely on | abstract specification |
| `UbiIoChannel` | one channel with its fetches | detailed; implements `VirtualDisk` |
| `FetchFifo` | what the channel uses as fetch queue | abstract specification |
| `UbiFetchQueue` | the ring | detailed; implements `FetchFifo` |
| `UbiFlush` | flushes, metadata, restarts | detailed |
| `UbiLayout` | parameters, layout, addresses, saved configuration | algorithm with its loop |
| `UbiChannels` | several channels on one bdev | detailed where they share state |
| `UbiLifecycle` | requests, disks, channels, base bdevs | detailed |
| `MC...` | workloads and instances for TLC | |
| `UbiIoChannelTypes`, `UbiIoChannelSteps`, `UbiIoChannelProofs`, `UbiFetchQueueProofs`, `UbiFlushProofs`, `UbiChannelsProofs`, `UbiLayoutProofs`, `UbiLifecycleProofs` | | proofs |

Variables and actions have the names of the fields and functions they model. `PROJECT.json` maps each
definition to its lines.

**UbiIoChannel.** A handler is one action. The poller `ubi_io_poll` is several (`pc`): it completes
requests half-way, and the client's callback, run inside the poller (`cb`), may submit again.
`ops` holds the asynchronous operations: in the submission queue, submitted, or finished and not yet
handled. The kernel and the base bdev (external) execute them at any time and in any order, so an
operation's effect and its completion are separate steps. A block holds the image's block, what the
base bdev held before, the write that was last applied, or the rest of an unfilled buffer. `Faults`
says which failures may happen. Requests are submitted once each. The steps of a flush are in
`UbiFlush`; here it only takes its place in the queue.
Over-approximations: completions are reaped in any order, a fetch takes any free slot.
Abstractions: blocks, not bytes, so an image ending inside a block is not seen;
a read of the image that returns less than asked is modelled only at the end of the image;
statistics (`blocks_read`, ...) are left out.

**UbiFlush.** Contents of a stripe are versions: -1 before creation, 0 the image, then writes; -2 is what
a failed base write of the stripe left, as `write_stripe_io_completion` does not look at `success`.
`data`, `md` are what the base bdev returns, `data_d`, `md_d` what would survive a power loss; without
a write cache they are equal. The metadata is written cell by cell. `bounce` says whether the base
bdev copies the buffer at submission or reads `ubi_bdev->metadata` while it writes. `Ends` says how an
incarnation may end: power loss, kill (the cache of the base bdev survives) or deletion. Fetches in
flight are not visible here: a fetch is the step that completes it. `last`, `need`, `promised` and
`order` are history variables.

**UbiLayout** follows one creation from the parameters of the RPC request to the registered disk,
with the real constants, over a set of configurations; then it saves the configuration and creates the
disk again from it, on the metadata that a flush wrote or on a base bdev that has none. A path is
represented by its length.

**UbiChannels** has the steps of several channels at which they read or write shared state. On one
reactor (`reactors = "one"`) a handler runs to its end before one of another channel begins; on several
the test of a status and its update, the two tests of a read, and the three steps of a completion (the
status, the load and the store of `stripes_fetched++`) interleave. A base write of a stripe that fails
leaves `Unwritten` and completes like any other; a client's write that the base bdev refuses is `lost`. A
stripe is one block; the order of the poller's steps is left open.

**UbiLifecycle** has who holds what: descriptors, claims, base channels, channels with their
resources, messages that arrive later, and requests that wait for an answer. The step on which
`ubi_create_channel_cb` fails is not told apart, as each error path releases what the steps before it
acquired.

## 3. Runs

Passing runs; state counts are distinct states.

| Run | States | Shows |
|---|---|---|
| `channel_plain` | 186k | the channel implements `VirtualDisk`; acknowledged writes stay; `IInv`, `active_reads` is exact and within its limit, a free submission entry for each fetch, metadata in memory tracks the fetches |
| `channel_cor` | 426k | with `copy_on_read` and two slots, two stripes fetched at once and slots used again: a slot owns one operation, each stripe is fetched once, each with a waiting request, outcomes final, `VirtualDisk` implemented |
| `channel_faults` | 1.3M | all ten failures, also a submission queue filled by failed fetches: requests are queued once and served by one operation at a time (`RequestInv`) |
| `channel_live` | 557k | every request completes, also for a stripe that ends beyond the base bdev, and when a client submits inside a poll that began with empty queues |
| `channels` | 270k | two channels, on one reactor and on several, with failing stripe writes and refused writes: one fetch per stripe, exact counter, acknowledged writes stay; on several too, no old data but where a stripe write failed, and every request completes but refused writes |
| `fetch_queue` | 1.3k | the ring is a FIFO |
| `flush_cache` | 818k | write cache, power losses, failing flushes: flushed data survives |
| `flush_nocache` | 330k | no write cache, all ends, all failures but that of the data flush: `IInv`, flushes complete, never old contents of the base bdev but in a stripe whose base write failed |
| `layout` | 12k | addresses agree, the image fits, the saved configuration makes the same disk |
| `lifecycle` | 52k | nothing refers to freed disks, one owner per base bdev; deletion frees, removal completes, each request is answered once |

Runs that TLC refutes, each stating what a document, comment or test says. `findings` in `PROJECT.json`
quotes the lines.

| Run | What happens |
|---|---|
| `channel_partial` | the image ends inside a stripe; the fetch of that stripe overwrites acknowledged writes beyond the image |
| `flush_lost` | a flush whose data flush fails is never completed |

The other cases in which a property does not hold are outside the settings of the runs and of the proofs.
Each can be had from the modules by the change given here:

| Case | Change | Fails |
|---|---|---|
| `write_stripe_io_completion` ignores `success`: a stripe whose base write failed is served from the base bdev | `stripe_write` in `Faults` | `ImplementsVirtualDisk` |
| | the same, `Unwritten` dropped from the property | `NoOldData`, `ImageOrWritten` |
| a write refused by the base bdev at submission is never completed | `write_submit` in `Faults` | `EveryIoCompletes` |
| | the same, `lost` dropped from the property | `EveryIoServed` |
| an image read prepared by a late buffer callback is not submitted while the queues are empty | `buf_wait` in `Faults`, no `copy_on_read` | `EveryIoCompletes` |
| an image read whose `io_uring_submit` failed is not submitted again while the queues are empty | `ring_submit` in `Faults`, no `copy_on_read` | `EveryIoCompletes` |
| after a failed `io_uring_submit` a slot is free while its entry is still in the submission queue, which may then have no entry for the next fetch (`io_uring_get_sqe` returns NULL, unchecked; the model goes on) | `fetch_submit` in `Faults`; for the second, three fetches as in `channel_faults` with `copy_on_read` | `SlotOwnsItsFetch`, `SqeForFetch` |
| headers read from the base bdev's cache after a kill count as flushed; a later flush skips the metadata | write cache, `kill` in `Ends` | `FlushedSurvives` |
| two metadata writes whose buffers were copied take effect in the other order | `bounce` | `FlushedSurvives` |
| a header is durable before the data of its stripe | write cache | `ImageOrWritten` |
| zeroing only the magic keeps the old stripe headers | `stale_headers` | `ImageOrWritten` |
| on several reactors both channels find a stripe NOT_FETCHED and fetch it; the second fetch overwrites acknowledged writes, and an increment of `stripes_fetched` may be lost | `OneReactor` dropped from the property | `FetchedByOneChannel`, `FetchHasWaiter`, `WrittenStays`, `CountExact` |
| the base channel leaks when the metadata read is refused | `refused` dropped from the property | `FreedIsForgotten` |
| a removal that begins during a creation waits for the disk | `missed` dropped from the property | `RemovalCompletes` |

How likely these are depends on the base bdev and on the deployment: some need a volatile write cache,
or one that copies buffers and reorders writes to the same blocks, or threads on several reactors.

**Bounds.** Channel: stripes of two blocks (first and other block of a stripe), two or three stripes in
the image, three to five requests, one or two slots, one concurrent read. The read limit
(`channel_plain`, `channel_cor`, `channel_live`), two fetches at once and a slot used again
(`channel_cor`), more queued stripes than slots and requests that arrive in a poll which found its queues
empty (`channel_live`), and a read that finds the submission queue full (`channel_faults`) are all
reached. Flush: two stripes, two overlapping flushes with different ranges, one write per stripe, any
number of restarts. Queue: a ring of four, wrapping any number of times. Several channels: two, with two
writes and a read of one stripe and a write to another, and one slot each, so that a stripe waits for a
slot and a request for the other channel. Lifecycle: three creations, two of them on one base bdev and
two with one name, a deletion of that name, one thread. Layout: accepted and rejected block lengths,
stripe sizes and image sizes around each limit, every choice of the options, missing and unknown keys,
paths around the limit; not every configuration. Two slots are symmetric; symmetry is used only in a
run without liveness properties. What the bounds leave out the proofs cover, but for liveness.

**Fairness.** `UbiIoChannel`: SPDK calls the poller again and again (weak), between two of its runs the
pollers of the base bdev deliver completions (strong, as completions need an idle poller), and the
kernel and the base bdev execute what they were given (weak). Clients owe nothing. `UbiFlush`: the base
bdev executes and completes each flush's steps. `UbiChannels`: every thread goes on, and so does the
base bdev; clients owe nothing. `UbiLifecycle`: messages, completions and events are delivered, and
clients release their channels once the bdev is being unregistered, which SPDK requires of them.
`CHECK_DEADLOCK FALSE` is used where the system ends: a finished layout, all creations or all requests
used up.

Each property of each passing run has a mutant: a plausible error in one mapped definition, under which
TLC finds the property violated.

## 4. Proofs

For every value of the constants that satisfies the named assumptions of the modules:

| Module | Theorems | State |
|---|---|---|
| `UbiIoChannelProofs` | `TypeCorrect`, `RequestsServed`, `ActiveReadsExactAlways` | how requests are served (`RequestInv`) and the count of reads, whatever fails |
| | `FetchesRun`, `StripeFetchedOnceAlways`, `FetchHasWaiterAlways`, `QueuedIsFetchingAlways`, `SlotOwnsItsFetchAlways`, `SettledForGood`, `MetadataTracksFetchesAlways`, `SqeForFetchAlways` | how fetches run (`ControlInv`) and the safety properties of fetches, unless a fetch cannot be submitted |
| | `Invariance`, `ChannelIsVirtualDisk`, `WrittenStaysAlways` | `IInv`; the channel implements `VirtualDisk`, and acknowledged writes stay: in the safe setting |
| `UbiFetchQueueProofs` | `Types`, `Distances`, `RingIsFifoAlways` | the ring implements `FetchFifo` |
| `UbiFlushProofs` | `TypeCorrect`, `CountersAgreeAlways` | types and counters in every setting |
| | `HeadersStayAlways`, `ImageOrWrittenAlways` | what restarts find, each under one or two conditions |
| | `Invariance`, `FlushedSurvivesAlways`, `CleanIsDurableAlways` | `IInv` of `UbiFlush` and what flushes promise, in the safe setting |
| `UbiChannelsProofs` | `FetchedByOneChannelAlways`, `FetchHasWaiterAlways`, `CountExactAlways`, `WrittenStaysAlways` | any number of channels on one reactor |
| | `NoOldDataAlways` | any number of reactors |
| `UbiLayoutProofs` | `Invariance`, `ImageInDiskAlways`, `AddressesAgreeEverywhere`, `AddressesAgreeAlways`, `SavedConfigRecreatesAlways` | every configuration, every block of every stripe |
| `UbiLifecycleProofs` | `Invariance`, `FreedIsForgottenAlways`, `OneOwnerPerBaseAlways`, `AnswerOwedAlways` | any disks, base bdevs, threads and deletions, all failures |

Every safety property of a passing run, invariants, action properties and both refinements, is so
proved. Liveness is only model-checked, as fairness is out of the prover's reach: `EveryIoCompletes`,
`EveryIoServed`, `FlushCompletes`, `RemovalCompletes`, `DeletedIsFreed` and
`RequestsAnswered`.

**Assumptions.** Each theorem assumes what its argument needs, which excludes the cases of the last
two tables of section 3 where they would refute it.

| Theorems | Assume |
|---|---|
| channel: `TypeCorrect`, `RequestsServed`, `ActiveReadsExactAlways` | nothing |
| channel: those about fetches | the `io_uring_submit` of a fetch does not fail; `SqeForFetchAlways` also that the submission queue has more entries than there are concurrent reads, as 32 and 24 are |
| channel: `Invariance`, `ChannelIsVirtualDisk`, `WrittenStaysAlways` | `SafeSetting`: besides, the base write of a stripe does not fail, the image ends where a stripe ends, and plain reads do not span stripes (the bdev layer splits them) |
| flush: `TypeCorrect`, `CountersAgreeAlways` | nothing |
| flush: `HeadersStayAlways` | metadata writes read the metadata as they are executed (no `bounce`) |
| flush: `ImageOrWrittenAlways` | no write cache, and clear headers on a new disk; the property itself excepts stripes whose base write failed |
| flush: `Invariance`, `FlushedSurvivesAlways`, `CleanIsDurableAlways` | `SafeSetting`: no `bounce`, and with a write cache no kill, and no deletion after a failed metadata write or flush |
| several channels | nothing; `NoOldData` itself excepts stripes whose base write failed, the others speak of one reactor |

`WrittenStays` of the channel is proved in the safe setting and refuted by `channel_partial` outside it,
so that the one condition that separates the two, where the image ends, is the cause.
The queue assumes that fewer stripes are queued than the ring holds, which is `FetchHasWaiter`
together with a bound on outstanding requests. Layout and lifecycle assume nothing but their constants'
types; the layout takes a few facts about powers of two up to 2^30, and that a divisor of the metadata
size is one, from assumptions (`ShiftedValues`, `ShiftedPositive`, `ShiftedAdds`,
`MetadataSizeAssumption`) that TLC evaluates, the last for the block lengths of the run.

**Channel.** The invariant has three layers, each inductive under weaker assumptions than the next.
`RequestInv` follows a request: on `io` once and only while it waits (`QueueInv`), served as its type
says (`PhaseInv`), by at most one operation at a time (`RequestOps`). No failure disturbs it, and counting the
requests being read gives `ActiveReadsExact`. `ControlInv` follows a fetch. `StripeFetchedOnce` is not
inductive: that a slot is free says nothing unless operations belong to active slots (`OpsInv`), that a
stripe has a waiting request needs `QueueInv`, and the poller acts on a batch and a list of free slots
taken earlier (`LocalsInv`). A fetch that cannot be submitted breaks `OpsInv`, nothing else does. `IInv`
adds that no request that is served spans stripes (`SpanInv`) and what buffers and the base bdev hold
while an operation is in flight (`DataInv`). A read takes effect when it is prepared, if it goes to the
image, and when the base bdev executes it otherwise; `View` gives what a client sees of a block. A fetch
is then a stuttering step: the stripe is shown from the image until it is FETCHED, when the base bdev
holds the same. The proof is in three modules: types and frames of each step, preservation of `ControlInv`
and `DataInv` and the refinement by each step, and the theorems. An entry of the submission queue is a
read being served, which bounds the queue. Facts about cardinalities are taken from the library in one
place and used through lemmas about adding and removing an element.

**Flush.** `order` numbers the stripes as `stripes_fetched` counts them. `ProgressInv` says that the
durable metadata records the first `stripes_flushed` stripes and how far each running flush has
brought it; from this follows that a flush may skip the metadata when the counters are equal.
`NeedInv` carries what a flush has to make durable through its stages, `PromiseInv` keeps it after.
Below them are layers that need less: `IdleInv` says that no flush is under way while the bdev is down,
`CacheInv` that without a write cache everything is durable, `HeaderInv` that a durable header is also in
the metadata in memory, `ImageInv` that a header is set only after the base write of its stripe, which may have failed.

**Several channels.** On one reactor at most one handler is half-way (`StatusInv`), so a stripe that a
channel holds is INFLIGHT but between the steps of a submission, where it is still NOT_FETCHED, or of a
completion, where it is already FETCHED. From this follows that nobody else can enqueue it
(`HeldInv`), that writes go only to FETCHED stripes, which no fetch will touch again (`WriteInv`), and that
the counter is behind by one exactly in a completion (`CountInv`). `NotOld`, the invariant for any number
of reactors, needs none of it: a stripe becomes FETCHED after a base write, whoever else writes it. A
failed one has left `Unwritten`, which `NoOldData` names as its exception.

**Layout.** The loop halves `r`, which stays a power of two: the block length divides the metadata size
and the stripe size is a power of two not smaller, so a stripe is exactly `2^stripe_shift` blocks
(`BlocksAreShifted`). That is what makes byte offsets and block numbers agree. The second creation meets the
options it saved (`SavedInv`), and layout is a function of options and base bdev.

**Lifecycle.** `StageInv` says what a disk holds at each stage, `ChannelInv` that what channels hold belongs
to a channel that exists, and channels to a disk that is allocated, `NameInv` that names of registered
disks are distinct. The last makes a deletion find one disk, so that it is answered once.

**Queue.** The distance of the indices is the number of queued stripes; an enqueue does not touch a
queued entry.

## 5. Not modelled, and plan

Not modelled: the application, test switches; alignment of buffers; statistics; resets and unmaps, which
the bdev refuses.

Plan, in order:

1. Channel and flush composed, with fetches in flight when the process ends.
2. Re-creation with another stripe size or image, as the recorded stripe size is not read back.
3. Short reads in the middle of the image, and images that end inside a block.
