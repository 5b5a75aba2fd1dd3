---------------------------- MODULE UbiLifecycle ----------------------------
(***************************************************************************)
(* Creation and deletion of ubi bdevs by JSON-RPC requests, their I/O      *)
(* channels, and the removal of the base bdevs under them: who holds what, *)
(* when memory is freed, and how requests are answered.                    *)
(*                                                                         *)
(* Creation, deletion and base bdev events run on the app thread, channels *)
(* on I/O threads; releasing a channel and closing the base bdev from      *)
(* another thread are messages, which arrive later.  An attempt to create  *)
(* a disk is a record with an id, a name and a base bdev.                  *)
(***************************************************************************)
EXTENDS Integers, FiniteSets

CONSTANTS
    Disk,        \* the attempts to create a disk
    Base,        \* the base bdevs
    Thread,      \* I/O threads
    Deletion,    \* requests to delete a disk: records with an id and a name
    None,
    Faults       \* the failures that may happen

AllFaults == {"decode",      \* spdk_json_decode_object rejects the parameters
              "alloc",       \* calloc or strdup fails
              "layout",      \* ubi_init_layout_params rejects the options
              "create_ch",   \* no base channel to read the metadata
              "read_submit", \* spdk_bdev_read_blocks returns an error
              "metadata",    \* the read fails, or the magic or version is wrong
              "channel"}     \* poller, base channel, image file or io_uring

ASSUME LifecycleAssumption ==
    /\ \A d \in Disk : d.base \in Base
    /\ None \notin Disk \cup Thread \cup Deletion
    /\ Disk \cap Deletion = {} /\ Faults \subseteq AllFaults

VARIABLES
    stage,    \* where each disk is
    alive,    \* struct ubi_bdev is allocated
    answer,   \* how far each request is: to create a disk, or to delete one
    asked,    \* the deletion that the unregistration of a disk will answer
    desc,     \* ubi_bdev->base_bdev_info.desc
    list,     \* g_ubi_bdev_head
    chan,     \* the I/O channel of a disk on a thread
    held,     \* what channels hold: <<disk, thread, resource>>
    claim,    \* the disk that has claimed a base bdev
    base_ch,  \* references to base channels: <<disk, thread or None>>
    base,     \* the state of each base bdev
    events,   \* descriptors with a remove event on its way
    \* History variables, for the properties:
    refused,  \* disks whose metadata read was refused
    missed    \* disks for which a remove event came before they were registered

disks    == <<stage, alive, desc, list>>
rpcs     == <<answer, asked>>
channels == <<chan, held>>
bases    == <<claim, base_ch, base, events>>
history  == <<refused, missed>>
vars == <<disks, rpcs, channels, bases, history>>

Init ==
    /\ stage = [d \in Disk |-> "new"] /\ alive = [d \in Disk |-> FALSE]
    /\ answer = [q \in Disk \cup Deletion |-> "unsent"] /\ asked = [d \in Disk |-> None]
    /\ desc = [d \in Disk |-> "none"]
    /\ list = {} /\ chan = [d \in Disk |-> [t \in Thread |-> "none"]] /\ held = {}
    /\ claim = [b \in Base |-> None] /\ base_ch = {}
    /\ base = [b \in Base |-> "present"] /\ events = {} /\ refused = {} /\ missed = {}

Answers(q, how) == answer' = [answer EXCEPT ![q] = how]

----------------------------------------------------------------------------
\* Creation.

\* spdk_bdev_register refuses a name that is in use.
NameTaken(d) == \E e \in Disk : e.name = d.name /\ stage[e] \in {"registered", "unregistering"}

\* open: configure_base_bdev has succeeded, so desc is set.
ubi_finish_create(d, status, open) ==
    /\ IF status = 0 /\ ~ NameTaken(d)
       THEN /\ stage' = [stage EXCEPT ![d] = "registered"] /\ list' = list \cup {d}
            /\ Answers(d, "ok")
            /\ UNCHANGED <<alive, desc, claim>>
       ELSE /\ stage' = [stage EXCEPT ![d] = "gone"]
            /\ alive' = [alive EXCEPT ![d] = FALSE]
            /\ desc' = [desc EXCEPT ![d] = IF open THEN "closed" ELSE @]
            /\ claim' = IF open THEN [claim EXCEPT ![d.base] = None] ELSE claim
            /\ Answers(d, "error")
            /\ UNCHANGED list

\* Mutant: the base bdev is not claimed.
OpensOnly(d) == base[d.base] = "present"

\* Opening fails when the base bdev is gone or going; claiming when another module
\* or disk has claimed it.
configure_base_bdev(d) == base[d.base] = "present" /\ claim[d.base] = None

\* When the read is not accepted, the reference to a base channel is lost.
StartFails(d) ==
    \/ {"layout", "create_ch"} \cap Faults # {} /\ UNCHANGED <<base_ch, refused>>
    \/ /\ "read_submit" \in Faults
       /\ base_ch' = base_ch \cup {<<d, None>>} /\ refused' = refused \cup {d}

bdev_ubi_create(d) ==
    \/ /\ "alloc" \in Faults \/ ~ configure_base_bdev(d)
       /\ ubi_finish_create(d, -1, FALSE) /\ UNCHANGED <<base_ch, refused>>
    \/ /\ configure_base_bdev(d) /\ StartFails(d)
       /\ ubi_finish_create(d, -1, TRUE)
    \/ /\ configure_base_bdev(d)
       /\ stage' = [stage EXCEPT ![d] = "reading"]
       /\ alive' = [alive EXCEPT ![d] = TRUE]
       /\ desc' = [desc EXCEPT ![d] = "open"] /\ claim' = [claim EXCEPT ![d.base] = d]
       /\ base_ch' = base_ch \cup {<<d, None>>}
       /\ Answers(d, "waiting") /\ UNCHANGED <<list, refused>>

rpc_bdev_ubi_create(d) ==
    /\ answer[d] = "unsent"
    /\ \/ /\ "decode" \in Faults /\ Answers(d, "error")
          /\ UNCHANGED <<disks, claim, base_ch, refused>>
       \/ bdev_ubi_create(d)
    /\ UNCHANGED <<asked, channels, base, events, missed>>

ubi_finish_read_metadata(d) ==
    /\ stage[d] = "reading"
    /\ base_ch' = base_ch \ {<<d, None>>}
    /\ \E status \in {0} \cup (IF "metadata" \in Faults THEN {-1} ELSE {}) :
         ubi_finish_create(d, status, TRUE)
    /\ UNCHANGED <<asked, channels, base, events, history>>

----------------------------------------------------------------------------
\* I/O channels.

Resources(d, t) == {<<d, t, "poller">>, <<d, t, "image_file_fd">>, <<d, t, "image_file_ring">>}

\* Mutant: the base channel is kept when the image file cannot be opened.
KeepsBaseChannel(d, t) == base_ch \cup {<<d, t>>}

\* Whatever step of the creation fails, the earlier ones are undone.
Undone(d, t) == base_ch

ubi_create_channel_cb(d, t) ==
    /\ stage[d] = "registered" /\ chan[d][t] = "none"
    /\ \/ "channel" \in Faults /\ UNCHANGED channels /\ base_ch' = Undone(d, t)
       \/ /\ chan' = [chan EXCEPT ![d][t] = "open"] /\ held' = held \cup Resources(d, t)
          /\ base_ch' = base_ch \cup {<<d, t>>}
    /\ UNCHANGED <<disks, rpcs, claim, base, events, history>>

\* The client releases the channel; the thread destroys it later (external).
PutChannel(d, t) ==
    /\ chan[d][t] = "open" /\ chan' = [chan EXCEPT ![d][t] = "closing"]
    /\ UNCHANGED <<disks, rpcs, held, bases, history>>

ubi_destroy_channel_cb(d, t) ==
    /\ chan[d][t] = "closing" /\ chan' = [chan EXCEPT ![d][t] = "none"]
    /\ held' = held \ Resources(d, t) /\ base_ch' = base_ch \ {<<d, t>>}
    /\ UNCHANGED <<disks, rpcs, claim, base, events, history>>

----------------------------------------------------------------------------
\* Deletion.

\* spdk_bdev_unregister does nothing more for a bdev that is being unregistered.
Unregister(D) == stage' = [d \in Disk |-> IF d \in D /\ stage[d] = "registered"
                                          THEN "unregistering" ELSE stage[d]]

\* Mutant: the caller is not told of an unknown name.
NotTold(q) == Answers(q, "waiting")

\* spdk_bdev_unregister_by_name finds no such disk, or one that is on its way out.
UnknownName(q) == Answers(q, "error")

bdev_ubi_delete(q) ==
    LET D == {d \in Disk : d.name = q.name /\ stage[d] = "registered"}
    IN  /\ IF D = {} THEN UnknownName(q) ELSE Answers(q, "waiting")
        /\ Unregister(D)
        /\ asked' = [d \in Disk |-> IF d \in D THEN q ELSE asked[d]]

rpc_bdev_ubi_delete(q) ==
    /\ answer[q] = "unsent"
    /\ \/ "decode" \in Faults /\ Answers(q, "error") /\ UNCHANGED <<stage, asked>>
       \/ bdev_ubi_delete(q)
    /\ UNCHANGED <<alive, desc, list, channels, bases, history>>

\* Mutants: the memory is freed here, not when the channels are gone; the io_device
\* is not unregistered.
FreesAtOnce(d) == alive' = [alive EXCEPT ![d] = FALSE] /\ stage' = [stage EXCEPT ![d] = "gone"]
KeepsIoDevice(d) == stage' = [stage EXCEPT ![d] = "leaked"] /\ UNCHANGED alive

\* spdk_io_device_unregister, with the callback that frees.
UnregistersIoDevice(d) == stage' = [stage EXCEPT ![d] = "destructed"] /\ UNCHANGED alive

\* Called by the bdev layer once no client uses the bdev; channels may still be
\* on their way down.  On another thread, closing the base bdev is a message.  The
\* bdev layer then calls back whoever asked for the deletion.
ubi_destruct(d) ==
    /\ stage[d] = "unregistering" /\ \A t \in Thread : chan[d][t] # "open"
    /\ list' = list \ {d} /\ claim' = [claim EXCEPT ![d.base] = None]
    /\ \E how \in {"closing", "closed"} : desc' = [desc EXCEPT ![d] = how]
    /\ UnregistersIoDevice(d)
    /\ IF asked[d] = None THEN UNCHANGED answer ELSE Answers(asked[d], "ok")
    /\ UNCHANGED <<asked, channels, base_ch, base, events, history>>

ubi_close_base_bdev(d) ==
    /\ desc[d] = "closing" /\ desc' = [desc EXCEPT ![d] = "closed"]
    /\ UNCHANGED <<stage, alive, list, rpcs, channels, bases, history>>

\* spdk_io_device_unregister calls back when the last channel is destroyed.
_device_unregister_cb(d) ==
    /\ stage[d] = "destructed" /\ \A t \in Thread : chan[d][t] = "none"
    /\ alive' = [alive EXCEPT ![d] = FALSE] /\ stage' = [stage EXCEPT ![d] = "gone"]
    /\ UNCHANGED <<desc, list, rpcs, channels, bases, history>>

----------------------------------------------------------------------------
\* Removal of a base bdev.

\* Its unregistration begins: an event goes to every open descriptor (external).
RemoveBase(b) ==
    /\ base[b] = "present" /\ base' = [base EXCEPT ![b] = "removing"]
    /\ events' = events \cup {d \in Disk : d.base = b /\ desc[d] = "open"}
    /\ UNCHANGED <<disks, rpcs, channels, claim, base_ch, history>>

ubi_bdev_find_by_base_bdev(b) == {e \in list : e.base = b}

\* No event is delivered to a closed descriptor.
ubi_handle_base_bdev_event(d) ==
    LET D == IF desc[d] = "open" THEN ubi_bdev_find_by_base_bdev(d.base) ELSE {}
    IN  /\ d \in events /\ events' = events \ {d}
        /\ Unregister(D)
        /\ missed' = IF desc[d] = "open" /\ D = {} THEN missed \cup {d} ELSE missed
        /\ UNCHANGED <<alive, desc, list, rpcs, channels, claim, base_ch, base, refused>>

\* The removal ends when nothing refers to the base bdev any more (external).
BaseGone(b) ==
    /\ base[b] = "removing"
    /\ \A d \in Disk : d.base = b => desc[d] \in {"none", "closed"}
                                      /\ \A r \in base_ch : r[1] # d
    /\ base' = [base EXCEPT ![b] = "gone"]
    /\ UNCHANGED <<disks, rpcs, channels, claim, base_ch, events, history>>

OnAppThread(d) ==
    \/ ubi_finish_read_metadata(d) \/ ubi_destruct(d) \/ ubi_close_base_bdev(d)
    \/ _device_unregister_cb(d) \/ ubi_handle_base_bdev_event(d)

Next ==
    \/ \E d \in Disk :
         \/ rpc_bdev_ubi_create(d) \/ OnAppThread(d)
         \/ \E t \in Thread : \/ ubi_create_channel_cb(d, t) \/ PutChannel(d, t)
                              \/ ubi_destroy_channel_cb(d, t)
    \/ \E q \in Deletion : rpc_bdev_ubi_delete(q)
    \/ \E b \in Base : RemoveBase(b) \/ BaseGone(b)

Spec == Init /\ [][Next]_vars

\* Messages, completions and events are delivered; a disk's clients close it when
\* they are told that it goes.
FairSpec ==
    /\ Spec
    /\ \A d \in Disk : /\ WF_vars(OnAppThread(d))
                      /\ \A t \in Thread :
                           /\ WF_vars(ubi_destroy_channel_cb(d, t))
                           /\ WF_vars(stage[d] = "unregistering" /\ PutChannel(d, t))
    /\ \A b \in Base : WF_vars(BaseGone(b))

----------------------------------------------------------------------------
\* Properties.

\* When struct ubi_bdev is freed, on whatever path, nothing refers to it and what
\* it held has been given back: a failed creation is "clean[ed] up (on failure) in
\* ubi_finish_create()", and _device_unregister_cb comes after the last channel.
\* The one exception is the base channel of a metadata read that was refused.
FreedIsForgotten ==
    \A d \in Disk : ~ alive[d] =>
        /\ d \notin list /\ desc[d] # "open" /\ claim[d.base] # d
        /\ \A r \in held \cup base_ch : r[1] = d => d \in refused /\ r = <<d, None>>
        /\ \A t \in Thread : chan[d][t] = "none"

\* At most one listed disk is on a base bdev, and it has claimed it: the remove
\* event of a base bdev finds the disk it is meant for.
OneOwnerPerBase ==
    \A d \in list : /\ claim[d.base] = d
                    /\ \A e \in list : e.base = d.base => e = d

\* Each request is answered once.  One that waits is owed an answer: a creation by
\* the metadata read of its disk, a deletion by the unregistration of one disk
\* only, whatever other disks have its name, and nobody else is answered.
AnswerOwed ==
    /\ \A d \in Disk : answer[d] = "waiting" <=> stage[d] = "reading"
    /\ \A q \in Deletion :
         LET Owing == {d \in Disk : stage[d] = "unregistering" /\ asked[d] = q}
         IN  /\ answer[q] = "waiting" <=> Owing # {}
             /\ \A d, e \in Owing : d = e

\* A base bdev that is being removed goes away in the end: its disk is
\* unregistered, and lets go of it.  That fails in two cases only: the event came
\* while a disk was being created on it, or its channel was lost when the metadata
\* read was refused.
RemovalCompletes ==
    \A b \in Base : base[b] = "removing" ~>
        base[b] = "gone" \/ \E d \in refused \cup missed : d.base = b

\* Deleting a disk frees it, in whatever order channels, messages and a removal of
\* the base bdev come.
DeletedIsFreed ==
    \A d \in Disk : stage[d] = "unregistering" ~> ~ alive[d]

\* "This will always call the callback stored in context->done_fn", and deletions
\* are answered too, also when the disk is going away for another reason.
RequestsAnswered ==
    \A q \in Disk \cup Deletion : answer[q] = "waiting" ~> answer[q] \in {"ok", "error"}
----------------------------------------------------------------------------
\* The inductive invariant of the proofs.

TypeOK ==
    /\ stage \in [Disk -> {"new", "reading", "registered", "unregistering", "destructed", "gone"}]
    /\ alive \in [Disk -> BOOLEAN] /\ desc \in [Disk -> {"none", "open", "closing", "closed"}]
    /\ list \subseteq Disk /\ asked \in [Disk -> Deletion \cup {None}]
    /\ answer \in [Disk \cup Deletion -> {"unsent", "waiting", "ok", "error"}]
    /\ chan \in [Disk -> [Thread -> {"none", "open", "closing"}]]
    /\ claim \in [Base -> Disk \cup {None}]

Listed(d) == stage[d] \in {"registered", "unregistering"}
Opened(d) == stage[d] = "reading" \/ Listed(d)

\* What a disk holds by itself at each stage.
StageInv ==
    \A d \in Disk :
        /\ answer[d] = "unsent" => stage[d] = "new"
        /\ alive[d] <=> Opened(d) \/ stage[d] = "destructed"
        /\ d \in list <=> Listed(d)
        /\ desc[d] = "open" <=> Opened(d)
        /\ claim[d.base] = d <=> Opened(d)

\* There are channels only between registration and the callback that frees, and
\* resources only in channels; but for the metadata read and refused ones.
ChannelInv ==
    /\ \A d \in Disk : \A t \in Thread :
         chan[d][t] # "none" => Listed(d) \/ stage[d] = "destructed"
    /\ \A r \in held : \E d \in Disk, t \in Thread :
         chan[d][t] # "none" /\ r \in Resources(d, t)
    /\ \A r \in base_ch :
         \/ \E d \in Disk, t \in Thread : chan[d][t] # "none" /\ r = <<d, t>>
         \/ \E d \in Disk : (stage[d] = "reading" \/ d \in refused) /\ r = <<d, None>>

\* Names of registered disks are distinct, and a deletion is remembered only by
\* disks that it has found.
NameInv ==
    /\ \A d, e \in Disk : Listed(d) /\ Listed(e) /\ d.name = e.name => d = e
    /\ \A d \in Disk : /\ stage[d] \in {"new", "reading", "registered"} => asked[d] = None
                       /\ asked[d] # None => answer[asked[d]] # "unsent"

IInv == TypeOK /\ StageInv /\ ChannelInv /\ NameInv /\ AnswerOwed
=============================================================================
