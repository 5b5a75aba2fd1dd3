------------------------------ MODULE UbiLayout ------------------------------
(***************************************************************************)
(* From the parameters of the RPC method bdev_ubi_create to a disk: how    *)
(* they are decoded, how ubi_init_layout_params lays metadata and data out *)
(* on the base bdev, which addresses the rest of the code computes from    *)
(* it, and how the metadata is stamped and recognized.  The disk is then   *)
(* created a second time, from the configuration that the first saved.     *)
(***************************************************************************)
EXTENDS Integers

CONSTANTS
    Config,                \* records: blocklen and blockcnt of the base bdev, the
                           \* parameters, and the sizes of the image files by path
    UBI_METADATA_SIZE, UBI_STRIPE_SIZE_MIN, UBI_STRIPE_SIZE_MAX,
    UBI_PATH_LEN, UBI_VERSION_MAJOR, UBI_VERSION_MINOR

\* 1 << k
Shifted(k) == 2 ^ k

\* x & (x - 1) is 0
PowerOfTwo(x) == \E k \in 0 .. 30 : x = Shifted(k)

\* Arithmetic that the proofs take from here: TLC evaluates it.
ASSUME ShiftedValues == Shifted(0) = 1 /\ Shifted(1) = 2 /\ Shifted(10) = 1024
ASSUME ShiftedPositive == \A a \in 0 .. 30 : Shifted(a) \in Nat \ {0}
ASSUME ShiftedAdds == \A a, b, c \in 0 .. 30 : c = a + b => Shifted(c) = Shifted(a) * Shifted(b)

ASSUME LayoutAssumption ==
    /\ {UBI_METADATA_SIZE, UBI_STRIPE_SIZE_MIN, UBI_STRIPE_SIZE_MAX,
        UBI_VERSION_MAJOR, UBI_VERSION_MINOR} \subseteq Nat
    /\ UBI_PATH_LEN \in Nat \ {0}
    /\ \A k \in 0 .. 30 : Shifted(k) <= UBI_STRIPE_SIZE_MAX => k <= 20
    /\ \A c \in Config : /\ c.blocklen \in Nat \ {0} /\ c.blockcnt \in Nat
                         /\ \A p \in DOMAIN c.files : c.files[p] \in Nat

\* UBI_METADATA_SIZE is a power of two, and so are its divisors.
ASSUME MetadataSizeAssumption ==
    \A c \in Config : UBI_METADATA_SIZE % c.blocklen = 0 => PowerOfTwo(c.blocklen)

VARIABLES
    cfg,                   \* the configuration
    params,                \* of the RPC request: key |-> value
    opts,                  \* the options as decoded and kept in ubi_bdev
    pc, r,                 \* position, and the local r of ubi_init_layout_params
    stripe_shift,          \* ubi_bdev->stripe_shift (log2_r)
    ubi_bdev,              \* the other fields that creation sets
    metadata,              \* ubi_bdev->metadata: <<>> when zeroed
    saved                  \* the options and layout of the disk that was saved

vars == <<cfg, params, opts, pc, r, stripe_shift, ubi_bdev, metadata, saved>>

Init == /\ cfg \in Config /\ params = cfg.params /\ opts = <<>> /\ pc = "rpc" /\ r = 0
        /\ stripe_shift = 0 /\ ubi_bdev = <<>> /\ metadata = <<>> /\ saved = <<>>

----------------------------------------------------------------------------
\* The RPC method.

Required == {"name", "image_path", "base_bdev", "stripe_size_kb"}
Default  == [no_sync |-> FALSE, copy_on_read |-> TRUE, directio |-> TRUE]

\* spdk_json_decode_object: unknown keys are an error, as are missing ones.
rpc_construct_ubi_decoders ==
    Required \subseteq DOMAIN params /\ DOMAIN params \subseteq Required \cup DOMAIN Default

\* A path is told by its length: strncpy keeps what fits.
Truncated(path) == IF path < UBI_PATH_LEN THEN path ELSE UBI_PATH_LEN - 1

rpc_bdev_ubi_create ==
    /\ pc = "rpc"
    /\ IF rpc_construct_ubi_decoders
       THEN /\ opts' = [k \in Required \cup DOMAIN Default |->
                          IF k = "image_path" THEN Truncated(params[k])
                          ELSE IF k \in DOMAIN params THEN params[k] ELSE Default[k]]
            /\ pc' = "check"
       ELSE pc' = "rejected" /\ UNCHANGED opts
    /\ UNCHANGED <<cfg, params, r, stripe_shift, ubi_bdev, metadata, saved>>

----------------------------------------------------------------------------
\* The layout.

stripSizeBytes(o) == o.stripe_size_kb * 1024
st_size(c, o)     == c.files[o.image_path]

\* Mutants: the metadata is left out of the size; its size need not be a multiple
\* of the block length.
ImageFitsAlone(c, o) == c.blockcnt * c.blocklen >= st_size(c, o)
AnyBlockLength(c) == TRUE

LargeEnough(c, o) == c.blockcnt * c.blocklen >= st_size(c, o) + UBI_METADATA_SIZE
WholeMetadataBlocks(c) == UBI_METADATA_SIZE % c.blocklen = 0

Accepted(c, o) ==
    /\ o.image_path \in DOMAIN c.files /\ LargeEnough(c, o)
    /\ o.stripe_size_kb \in UBI_STRIPE_SIZE_MIN .. UBI_STRIPE_SIZE_MAX
    /\ PowerOfTwo(o.stripe_size_kb)
    /\ stripSizeBytes(o) >= c.blocklen
    /\ WholeMetadataBlocks(c)

Check ==
    /\ pc = "check"
    /\ pc' = (IF Accepted(cfg, opts) THEN "loop" ELSE "rejected")
    /\ r' = (stripSizeBytes(opts) + cfg.blocklen - 1) \div cfg.blocklen
    /\ UNCHANGED <<cfg, params, opts, stripe_shift, ubi_bdev, metadata, saved>>

Halve ==
    /\ pc = "loop" /\ r > 1
    /\ r' = r \div 2 /\ stripe_shift' = stripe_shift + 1
    /\ UNCHANGED <<cfg, params, opts, pc, ubi_bdev, metadata, saved>>

data_offset_blocks(c) == UBI_METADATA_SIZE \div c.blocklen

Layout(c, o, stripe_block_count) ==
    [stripe_block_count |-> stripe_block_count,
     data_offset_blocks |-> data_offset_blocks(c),
     image_block_count |-> (st_size(c, o) + c.blocklen - 1) \div c.blocklen,
     blockcnt |-> c.blockcnt - data_offset_blocks(c)]

Finish ==
    /\ pc = "loop" /\ r <= 1 /\ pc' = "read"
    /\ ubi_bdev' = Layout(cfg, opts, Shifted(stripe_shift))
    /\ UNCHANGED <<cfg, params, opts, r, stripe_shift, metadata, saved>>

----------------------------------------------------------------------------
\* The metadata: stamped on a new disk, checked on another.

\* Mutant: the bytes are stored in the other order.
store_bigendian(n) == <<n \div 256, n % 256>>

store_littleendian_shortint(n) == <<n % 256, n \div 256>>
load_littleendian_shortint(mem) == mem[1] + 256 * mem[2]

\* stripe_size_kb is a uint8_t, and is not read back.
ubi_init_metadata ==
    [versionMajor |-> store_littleendian_shortint(UBI_VERSION_MAJOR),
     versionMinor |-> store_littleendian_shortint(UBI_VERSION_MINOR),
     stripe_size_kb |-> opts.stripe_size_kb % 256]

ubi_finish_read_metadata ==
    /\ pc = "read"
    /\ metadata' = IF metadata = <<>> THEN ubi_init_metadata ELSE metadata
    /\ pc' = (IF /\ load_littleendian_shortint(metadata'.versionMajor) = UBI_VERSION_MAJOR
                 /\ load_littleendian_shortint(metadata'.versionMinor) = UBI_VERSION_MINOR
                 \/ metadata = <<>>
              THEN "done" ELSE "rejected")
    /\ UNCHANGED <<cfg, params, opts, r, stripe_shift, ubi_bdev, saved>>

----------------------------------------------------------------------------
\* Saving the configuration, and running it in a new process.

ubi_write_config_json == [k \in Required \cup DOMAIN Default |-> opts[k]]

\* The metadata is on the base bdev if a flush has written it.
SaveAndLoad ==
    /\ pc = "done" /\ saved = <<>> /\ saved' = <<opts, ubi_bdev>>
    /\ metadata' \in {<<>>, metadata}
    /\ params' = ubi_write_config_json /\ pc' = "rpc"
    /\ opts' = <<>> /\ r' = 0 /\ stripe_shift' = 0 /\ ubi_bdev' = <<>>
    /\ UNCHANGED cfg

Next == \/ rpc_bdev_ubi_create \/ Check \/ Halve \/ Finish
        \/ ubi_finish_read_metadata \/ SaveAndLoad
Spec == Init /\ [][Next]_vars

----------------------------------------------------------------------------
\* Addresses computed elsewhere, in bytes.

\* Where a stripe is read in the image file, and where it is written.
ImageOffset(s) == opts.stripe_size_kb * 1024 * s
StripeOffset(s) == opts.stripe_size_kb * 1024 * s + UBI_METADATA_SIZE

\* Where the client's block b is on the base bdev and in the image file, and its
\* stripe: b >> stripe_shift.
ClientOffset(b) == (b + ubi_bdev.data_offset_blocks) * cfg.blocklen
ClientImageOffset(b) == b * cfg.blocklen
StripeOf(b) == b \div Shifted(stripe_shift)

----------------------------------------------------------------------------
\* Properties.

\* ConstantsAssumption of UbiIoChannel: every block of the image, also its last,
\* partial one, is a block of the disk, and no byte of the image is left out.
ImageInDisk ==
    pc = "done" => /\ ubi_bdev.image_block_count <= ubi_bdev.blockcnt
                   /\ ubi_bdev.image_block_count * cfg.blocklen >= st_size(cfg, opts)

\* A stripe fetch, which computes byte offsets from stripe_size_kb, and a client's
\* request, which computes blocks from data_offset_blocks and stripe_shift, agree
\* on where each block is, for every accepted block length.
AgreeOn(s, d) ==
    LET b == s * ubi_bdev.stripe_block_count + d
    IN  /\ StripeOf(b) = s
        /\ ClientOffset(b) = StripeOffset(s) + d * cfg.blocklen
        /\ ClientImageOffset(b) = ImageOffset(s) + d * cfg.blocklen
AddressesAgree ==
    pc = "done" =>
        \A s \in 0 .. 3 : \A d \in {0, 1, ubi_bdev.stripe_block_count - 1} :
            d < ubi_bdev.stripe_block_count => AgreeOn(s, d)

\* What ubi_write_config_json saves, given to bdev_ubi_create after a restart,
\* makes the same disk: every key is accepted, no option falls back to a default,
\* the layout is the same, and the metadata of the first disk is recognized.
SavedConfigRecreates ==
    saved # <<>> => pc # "rejected" /\ (pc = "done" => <<opts, ubi_bdev>> = saved)

----------------------------------------------------------------------------
\* The inductive invariant of the proofs.

\* n halvings lead from the stripe's blocks to 1: its size is 2^n blocks exactly.
BlocksAreShifted(c, o, n) == Shifted(n) * c.blocklen = stripSizeBytes(o)

Decoded(o) == /\ DOMAIN o = Required \cup DOMAIN Default
              /\ o = [k \in DOMAIN o |-> o[k]] /\ Truncated(o.image_path) = o.image_path

LayoutInv ==
    /\ pc \in {"rpc", "check"} => stripe_shift = 0
    /\ pc \notin {"rpc", "rejected"} => Decoded(opts)
    /\ pc \in {"loop", "read", "done"} =>
         /\ Accepted(cfg, opts) /\ stripe_shift \in 0 .. 30
         /\ pc = "loop" => \E n, m \in 0 .. 30 : /\ n = stripe_shift + m /\ r = Shifted(m)
                                                 /\ BlocksAreShifted(cfg, opts, n)
         /\ pc # "loop" => /\ BlocksAreShifted(cfg, opts, stripe_shift)
                           /\ ubi_bdev = Layout(cfg, opts, Shifted(stripe_shift))

MetadataInv ==
    metadata # <<>> => /\ load_littleendian_shortint(metadata.versionMajor) = UBI_VERSION_MAJOR
                       /\ load_littleendian_shortint(metadata.versionMinor) = UBI_VERSION_MINOR

\* The options that were saved had been accepted, and are those of the new disk.
SavedInv ==
    saved # <<>> =>
        /\ Decoded(saved[1]) /\ Accepted(cfg, saved[1]) /\ params = saved[1]
        /\ \E n \in 0 .. 30 : saved[2] = Layout(cfg, saved[1], Shifted(n)) /\ BlocksAreShifted(cfg, saved[1], n)
        /\ saved = <<saved[1], saved[2]>> /\ pc # "rejected" /\ (pc # "rpc" => opts = saved[1])

IInv == cfg \in Config /\ LayoutInv /\ MetadataInv /\ SavedInv
=============================================================================
