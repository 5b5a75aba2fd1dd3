--------------------------- MODULE UbiLayoutProofs ---------------------------
(***************************************************************************)
(* The properties of UbiLayout, for every configuration: block length and  *)
(* size of the base bdev, image, parameters of the request.                *)
(*                                                                         *)
(* What makes them hold is that block length and stripe size are powers of *)
(* two, so that the halvings of ubi_init_layout_params are exact and        *)
(* 2^stripe_shift blocks are a stripe.                                     *)
(***************************************************************************)
EXTENDS UbiLayout, TLAPS

----------------------------------------------------------------------------
\* Arithmetic.

\* The whole blocks up to x: rounding down, and up.
LEMMA Blocks ==
    ASSUME NEW x \in Nat, NEW p \in Nat \ {0}
    PROVE  /\ x \div p \in Nat
           /\ (x \div p) * p <= x
           /\ x < (x \div p) * p + p
           /\ x % p = 0 => x = (x \div p) * p
<1>1. x \div p \in Nat
  OBVIOUS
<1>2. (x \div p) * p <= x
  OBVIOUS
<1>3. x < (x \div p) * p + p
  OBVIOUS
<1>4. ASSUME x % p = 0 PROVE x = (x \div p) * p
  BY <1>4
<1>. QED BY <1>1, <1>2, <1>3, <1>4

\* The block that an offset inside of the s-th group of p blocks is in.
LEMMA Inside ==
    ASSUME NEW p \in Nat \ {0}, NEW s \in Nat, NEW d \in 0 .. (p - 1)
    PROVE  (s * p + d) \div p = s
OBVIOUS

\* Multiplication by a positive number is strictly monotonic.
LEMMA Times ==
    ASSUME NEW p \in Nat \ {0}, NEW a \in Int, NEW b \in Int, a * p < b * p + p
    PROVE  a <= b
<1>1. SUFFICES ASSUME a >= b + 1 PROVE FALSE
  OBVIOUS
<1>2. (b + 1) * p <= a * p
  BY <1>1
<1>3. (b + 1) * p = b * p + p
  OBVIOUS
<1>. QED BY <1>2, <1>3

\* Halving 1 << n gives 1 << (n - 1).
LEMMA ShiftedHalf ==
    ASSUME NEW n \in 1 .. 30, NEW m \in 0 .. 30, m = n - 1
    PROVE  Shifted(n) \div 2 = Shifted(m) /\ Shifted(n) > 1
<1>1. n \in 0 .. 30 /\ 1 \in 0 .. 30 /\ n = m + 1
  OBVIOUS
<1>2. Shifted(n) = Shifted(m) * Shifted(1)
  BY <1>1, ShiftedAdds
<1>3. Shifted(1) = 2 /\ Shifted(m) \in Nat \ {0}
  BY ShiftedValues, ShiftedPositive
<1>. QED BY <1>2, <1>3

\* A stripe of an accepted disk is a power of two of blocks: its size in bytes and
\* the block length are powers of two, and it is not smaller than a block.
LEMMA StripeBlocks ==
    ASSUME cfg \in Config, NEW o, Accepted(cfg, o)
    PROVE  \E n \in 0 .. 30 :
             /\ BlocksAreShifted(cfg, o, n)
             /\ Shifted(n) = (stripSizeBytes(o) + cfg.blocklen - 1) \div cfg.blocklen
<1>1. PICK k \in 0 .. 30 : o.stripe_size_kb = Shifted(k)
  BY Zenon DEF Accepted, PowerOfTwo
<1>2. k \in 0 .. 20
  <2>1. Shifted(k) <= UBI_STRIPE_SIZE_MAX
    BY <1>1, LayoutAssumption DEF Accepted
  <2>. QED BY <2>1, LayoutAssumption
<1>3. PICK j \in 0 .. 30 : cfg.blocklen = Shifted(j)
  BY MetadataSizeAssumption, Zenon DEF Accepted, WholeMetadataBlocks, PowerOfTwo
<1>4. PICK t \in 0 .. 30 : t = k + 10
  BY <1>2
<1>5. stripSizeBytes(o) = Shifted(t)
  <2>1. Shifted(t) = Shifted(k) * Shifted(10)
    BY <1>4, ShiftedAdds
  <2>. QED BY <1>1, <2>1, ShiftedValues DEF stripSizeBytes
<1>6. Shifted(t) >= Shifted(j)
  BY <1>3, <1>5, Zenon DEF Accepted
<1>7. j <= t
  <2>1. SUFFICES ASSUME j >= t + 1 PROVE FALSE
    OBVIOUS
  <2>2. PICK i \in 1 .. 30, m \in 0 .. 30 : j = t + i /\ m = i - 1
    <3>1. (j - t) \in 1 .. 30 /\ (j - t) - 1 \in 0 .. 30 /\ j = t + (j - t)
      BY <2>1
    <3>. QED BY <3>1
  <2>3. i \in 0 .. 30 /\ Shifted(j) = Shifted(t) * Shifted(i)
    BY <2>2, ShiftedAdds
  <2>4. Shifted(i) > 1 /\ Shifted(i) \in Nat /\ Shifted(t) \in Nat \ {0}
    BY <2>2, <2>3, ShiftedHalf, ShiftedPositive
  <2>5. Shifted(i) >= 2 /\ Shifted(t) * Shifted(i) >= Shifted(t) * 2
    BY <2>4
  <2>. QED BY <1>6, <2>3, <2>4, <2>5
<1>8. PICK n \in 0 .. 30 : t = n + j
  <2>1. t - j \in 0 .. 30 /\ t = (t - j) + j
    BY <1>7
  <2>. QED BY <2>1
<1>9. Shifted(t) = Shifted(n) * Shifted(j)
  BY <1>8, ShiftedAdds
<1>10. BlocksAreShifted(cfg, o, n)
  BY <1>3, <1>5, <1>9, Zenon DEF BlocksAreShifted
<1>11. Shifted(n) = (stripSizeBytes(o) + cfg.blocklen - 1) \div cfg.blocklen
  <2>1. Shifted(n) \in Nat /\ Shifted(j) \in Nat \ {0}
    BY ShiftedPositive
  <2>2. PICK p \in Nat \ {0}, s \in Nat : p = Shifted(j) /\ s = Shifted(n)
    BY <2>1
  <2>3. (s * p + (p - 1)) \div p = s
    BY Inside
  <2>4. stripSizeBytes(o) + cfg.blocklen - 1 = s * p + (p - 1)
    BY <1>3, <1>5, <1>9, <2>2
  <2>. QED BY <1>3, <2>2, <2>3, <2>4
<1>. QED BY <1>10, <1>11, Zenon

----------------------------------------------------------------------------
\* The steps.

\* Decoding the options twice changes nothing: paths are cut once.
LEMMA CutOnce ==
    ASSUME NEW path PROVE Truncated(Truncated(path)) = Truncated(path)
<1>1. CASE path < UBI_PATH_LEN
  BY <1>1, Zenon DEF Truncated
<1>2. CASE ~ (path < UBI_PATH_LEN)
  <2>1. Truncated(path) = UBI_PATH_LEN - 1
    BY <1>2, Zenon DEF Truncated
  <2>2. UBI_PATH_LEN - 1 < UBI_PATH_LEN
    BY LayoutAssumption
  <2>. QED BY <2>1, <2>2, Zenon DEF Truncated
<1>. QED BY <1>1, <1>2, Zenon

\* What was saved stays as it is while cfg, params and saved do.
LEMMA SavedNext ==
    ASSUME SavedInv, UNCHANGED <<cfg, params, saved>>,
           saved # <<>> => pc' # "rejected" /\ (pc' # "rpc" => opts' = saved[1])
    PROVE  SavedInv'
<1>1. SUFFICES ASSUME saved' # <<>> PROVE SavedInv'
  BY Zenon DEF SavedInv
<1>2. /\ Decoded(saved[1])' /\ Accepted(cfg, saved[1])' /\ params' = saved'[1]
      /\ saved' = <<saved'[1], saved'[2]>>
  BY <1>1, Zenon DEF SavedInv
<1>3. \E n \in 0 .. 30 : saved'[2] = Layout(cfg, saved[1], Shifted(n))' /\ BlocksAreShifted(cfg, saved[1], n)'
  BY <1>1, Zenon DEF SavedInv
<1>. QED BY <1>1, <1>2, <1>3, Zenon DEF SavedInv

LEMMA RpcNext ==
    ASSUME IInv, rpc_bdev_ubi_create
    PROVE  IInv'
<1>0. cfg \in Config /\ LayoutInv /\ MetadataInv /\ SavedInv
  BY Zenon DEF IInv
<1>1. pc = "rpc" /\ UNCHANGED <<cfg, params, stripe_shift, metadata, saved>>
  BY Zenon DEF rpc_bdev_ubi_create
<1>2. MetadataInv'
  BY <1>0, <1>1, Zenon DEF MetadataInv
<1>3. CASE rpc_construct_ubi_decoders
  <2>1. /\ opts' = [k \in Required \cup DOMAIN Default |->
                      IF k = "image_path" THEN Truncated(params[k])
                      ELSE IF k \in DOMAIN params THEN params[k] ELSE Default[k]]
        /\ pc' = "check"
    BY <1>3, Zenon DEF rpc_bdev_ubi_create
  <2>2. "image_path" \in Required \cup DOMAIN Default
    BY Zenon DEF Required
  <2>3. opts'.image_path = Truncated(params.image_path)
    BY <2>1, <2>2, Zenon
  <2>4. Decoded(opts)'
    <3>1. Truncated(opts'.image_path) = opts'.image_path
      BY <2>3, CutOnce, Zenon
    <3>2. DOMAIN opts' = Required \cup DOMAIN Default /\ opts' = [k \in DOMAIN opts' |-> opts'[k]]
      BY <2>1, Zenon
    <3>. QED BY <3>1, <3>2, Zenon DEF Decoded, Truncated
  <2>5. LayoutInv'
    BY <1>0, <1>1, <2>1, <2>4 DEF LayoutInv
  <2>6. ASSUME saved # <<>> PROVE opts' = saved[1]
    <3>1. Decoded(params) /\ params = saved[1]
      BY <1>0, <2>6, Zenon DEF SavedInv
    <3>2. \A k \in DOMAIN params : opts'[k] = params[k]
      BY <2>1, <3>1, Zenon DEF Decoded
    <3>3. opts' = [k \in DOMAIN params |-> opts'[k]]
      BY <2>1, <3>1, Zenon DEF Decoded
    <3>4. [k \in DOMAIN params |-> opts'[k]] = [k \in DOMAIN params |-> params[k]]
      BY <3>2, Zenon
    <3>. QED BY <3>1, <3>3, <3>4, Zenon DEF Decoded
  <2>7. SavedInv'
    BY <1>0, <1>1, <2>1, <2>6, SavedNext
  <2>. QED BY <1>0, <1>1, <1>2, <2>5, <2>7, Zenon DEF IInv
<1>4. CASE ~ rpc_construct_ubi_decoders
  <2>1. pc' = "rejected"
    BY <1>4, Zenon DEF rpc_bdev_ubi_create
  <2>2. saved = <<>>
    BY <1>0, <1>4, Zenon DEF SavedInv, Decoded, rpc_construct_ubi_decoders
  <2>3. LayoutInv'
    BY <2>1 DEF LayoutInv
  <2>. QED BY <1>0, <1>1, <1>2, <2>2, <2>3, SavedNext, Zenon DEF IInv
<1>. QED BY <1>3, <1>4, Zenon

LEMMA CheckNext ==
    ASSUME IInv, Check
    PROVE  IInv'
<1>0. cfg \in Config /\ LayoutInv /\ MetadataInv /\ SavedInv
  BY Zenon DEF IInv
<1>1. /\ pc = "check" /\ pc' = (IF Accepted(cfg, opts) THEN "loop" ELSE "rejected")
      /\ r' = (stripSizeBytes(opts) + cfg.blocklen - 1) \div cfg.blocklen
      /\ UNCHANGED <<cfg, params, opts, stripe_shift, metadata, saved>>
  BY Zenon DEF Check
<1>2. MetadataInv'
  BY <1>0, <1>1, Zenon DEF MetadataInv
<1>3. SavedInv'
  <2>1. saved # <<>> => Accepted(cfg, opts) /\ opts = saved[1]
    BY <1>0, <1>1 DEF SavedInv
  <2>. QED BY <1>0, <1>1, <2>1, SavedNext
<1>4. LayoutInv'
  <2>1. CASE ~ Accepted(cfg, opts)
    BY <1>1, <2>1 DEF LayoutInv
  <2>2. CASE Accepted(cfg, opts)
    <3>1. PICK n \in 0 .. 30 : BlocksAreShifted(cfg, opts, n) /\ r' = Shifted(n)
      BY <1>0, <1>1, <2>2, StripeBlocks
    <3>2. BlocksAreShifted(cfg, opts, n)' /\ Accepted(cfg, opts)' /\ Decoded(opts)'
      <4>1. Decoded(opts)
        BY <1>0, <1>1 DEF LayoutInv
      <4>. QED BY <1>1, <2>2, <3>1, <4>1, Zenon
    <3>3. stripe_shift' = 0 /\ n = stripe_shift' + n /\ pc' = "loop" /\ stripe_shift' \in 0 .. 30
      BY <1>0, <1>1, <2>2 DEF LayoutInv
    <3>. QED BY <3>1, <3>2, <3>3, Zenon DEF LayoutInv
  <2>. QED BY <2>1, <2>2, Zenon
<1>. QED BY <1>0, <1>1, <1>2, <1>3, <1>4, Zenon DEF IInv

LEMMA HalveNext ==
    ASSUME IInv, Halve
    PROVE  IInv'
<1>0. cfg \in Config /\ LayoutInv /\ MetadataInv /\ SavedInv
  BY Zenon DEF IInv
<1>1. /\ pc = "loop" /\ r > 1 /\ r' = r \div 2 /\ stripe_shift' = stripe_shift + 1
      /\ UNCHANGED <<cfg, params, opts, pc, metadata, saved>>
  BY Zenon DEF Halve
<1>2. MetadataInv' /\ SavedInv'
  <2>1. MetadataInv'
    BY <1>0, <1>1, Zenon DEF MetadataInv
  <2>2. saved # <<>> => opts = saved[1]
    BY <1>0, <1>1, Zenon DEF SavedInv
  <2>. QED BY <1>0, <1>1, <2>1, <2>2, SavedNext
<1>3. PICK n \in 0 .. 30, m \in 0 .. 30 :
        n = stripe_shift + m /\ r = Shifted(m) /\ BlocksAreShifted(cfg, opts, n)
  BY <1>0, <1>1, Zenon DEF LayoutInv
<1>4. Accepted(cfg, opts) /\ Decoded(opts) /\ stripe_shift \in 0 .. 30
  BY <1>0, <1>1 DEF LayoutInv
<1>5. m # 0
  BY <1>1, <1>3, ShiftedValues
<1>6. PICK i \in 0 .. 30 : i = m - 1
  BY <1>5
<1>7. m \in 1 .. 30 /\ n = stripe_shift' + i /\ stripe_shift' \in 0 .. 30
  BY <1>1, <1>3, <1>4, <1>5, <1>6
<1>8. r' = Shifted(i)
  BY <1>1, <1>3, <1>6, <1>7, ShiftedHalf
<1>9. BlocksAreShifted(cfg, opts, n)' /\ Accepted(cfg, opts)' /\ Decoded(opts)'
  BY <1>1, <1>3, <1>4, Zenon
<1>10. LayoutInv'
  <2>1. pc' = "loop"
    BY <1>1, Zenon
  <2>. QED BY <1>7, <1>8, <1>9, <2>1, Zenon DEF LayoutInv
<1>. QED BY <1>0, <1>1, <1>2, <1>10, Zenon DEF IInv

LEMMA FinishNext ==
    ASSUME IInv, Finish
    PROVE  IInv'
<1>0. cfg \in Config /\ LayoutInv /\ MetadataInv /\ SavedInv
  BY Zenon DEF IInv
<1>1. /\ pc = "loop" /\ r <= 1 /\ pc' = "read"
      /\ ubi_bdev' = Layout(cfg, opts, Shifted(stripe_shift))
      /\ UNCHANGED <<cfg, params, opts, stripe_shift, metadata, saved>>
  BY Zenon DEF Finish
<1>2. MetadataInv' /\ SavedInv'
  <2>1. MetadataInv'
    BY <1>0, <1>1, Zenon DEF MetadataInv
  <2>2. saved # <<>> => opts = saved[1]
    BY <1>0, <1>1, Zenon DEF SavedInv
  <2>. QED BY <1>0, <1>1, <2>1, <2>2, SavedNext
<1>3. PICK n \in 0 .. 30, m \in 0 .. 30 :
        n = stripe_shift + m /\ r = Shifted(m) /\ BlocksAreShifted(cfg, opts, n)
  BY <1>0, <1>1, Zenon DEF LayoutInv
<1>4. Accepted(cfg, opts) /\ Decoded(opts) /\ stripe_shift \in 0 .. 30
  BY <1>0, <1>1 DEF LayoutInv
<1>5. m = 0
  <2>1. SUFFICES ASSUME m \in 1 .. 30 PROVE FALSE
    OBVIOUS
  <2>2. PICK i \in 0 .. 30 : i = m - 1
    BY <2>1
  <2>3. Shifted(m) > 1 /\ Shifted(m) \in Nat
    BY <2>1, <2>2, ShiftedHalf, ShiftedPositive
  <2>. QED BY <1>1, <1>3, <2>3
<1>6. n = stripe_shift
  BY <1>3, <1>4, <1>5
<1>7. BlocksAreShifted(cfg, opts, stripe_shift)' /\ Accepted(cfg, opts)' /\ Decoded(opts)'
  BY <1>1, <1>3, <1>4, <1>6, Zenon
<1>8. ubi_bdev' = Layout(cfg, opts, Shifted(stripe_shift))'
  BY <1>1, Zenon
<1>9. LayoutInv'
  BY <1>1, <1>4, <1>7, <1>8 DEF LayoutInv
<1>. QED BY <1>0, <1>1, <1>2, <1>9, Zenon DEF IInv

\* What is stored as two bytes is loaded again.
LEMMA Stored ==
    ASSUME NEW n \in Nat
    PROVE  load_littleendian_shortint(store_littleendian_shortint(n)) = n
BY DEF load_littleendian_shortint, store_littleendian_shortint

LEMMA ReadNext ==
    ASSUME IInv, ubi_finish_read_metadata
    PROVE  IInv'
<1>0. cfg \in Config /\ LayoutInv /\ MetadataInv /\ SavedInv
  BY Zenon DEF IInv
<1>1. /\ pc = "read" /\ metadata' = IF metadata = <<>> THEN ubi_init_metadata ELSE metadata
      /\ UNCHANGED <<cfg, params, opts, stripe_shift, ubi_bdev, saved>>
  BY Zenon DEF ubi_finish_read_metadata
<1>2. /\ load_littleendian_shortint(metadata'.versionMajor) = UBI_VERSION_MAJOR
      /\ load_littleendian_shortint(metadata'.versionMinor) = UBI_VERSION_MINOR
  <2>1. CASE metadata = <<>>
    <3>1. /\ metadata'.versionMajor = store_littleendian_shortint(UBI_VERSION_MAJOR)
          /\ metadata'.versionMinor = store_littleendian_shortint(UBI_VERSION_MINOR)
      BY <1>1, <2>1, Zenon DEF ubi_init_metadata
    <3>. QED BY <3>1, Stored, LayoutAssumption
  <2>2. CASE metadata # <<>>
    BY <1>0, <1>1, <2>2, Zenon DEF MetadataInv
  <2>. QED BY <2>1, <2>2, Zenon
<1>3. pc' = "done"
  BY <1>2, Zenon DEF ubi_finish_read_metadata
<1>4. MetadataInv'
  BY <1>2, Zenon DEF MetadataInv, load_littleendian_shortint
<1>5. SavedInv'
  <2>1. saved # <<>> => opts = saved[1]
    BY <1>0, <1>1 DEF SavedInv
  <2>. QED BY <1>0, <1>1, <1>3, <2>1, SavedNext
<1>6. LayoutInv'
  <2>1. /\ Accepted(cfg, opts) /\ Decoded(opts) /\ stripe_shift \in 0 .. 30
        /\ BlocksAreShifted(cfg, opts, stripe_shift) /\ ubi_bdev = Layout(cfg, opts, Shifted(stripe_shift))
    BY <1>0, <1>1 DEF LayoutInv
  <2>2. BlocksAreShifted(cfg, opts, stripe_shift)' /\ Accepted(cfg, opts)' /\ Decoded(opts)'
    BY <1>1, <2>1, Zenon
  <2>3. ubi_bdev' = Layout(cfg, opts, Shifted(stripe_shift))'
    BY <1>1, <2>1, Zenon
  <2>. QED BY <1>1, <1>3, <2>1, <2>2, <2>3 DEF LayoutInv
<1>. QED BY <1>0, <1>1, <1>4, <1>5, <1>6, Zenon DEF IInv

LEMMA SaveNext ==
    ASSUME IInv, SaveAndLoad
    PROVE  IInv'
<1>0. cfg \in Config /\ LayoutInv /\ MetadataInv /\ SavedInv
  BY Zenon DEF IInv
<1>1. /\ pc = "done" /\ saved' = <<opts, ubi_bdev>> /\ metadata' \in {<<>>, metadata}
      /\ params' = ubi_write_config_json /\ pc' = "rpc" /\ stripe_shift' = 0 /\ cfg' = cfg
  BY Zenon DEF SaveAndLoad
<1>2. MetadataInv'
  BY <1>0, <1>1, Zenon DEF MetadataInv
<1>3. LayoutInv'
  BY <1>1 DEF LayoutInv
<1>4. /\ Accepted(cfg, opts) /\ Decoded(opts) /\ stripe_shift \in 0 .. 30
      /\ BlocksAreShifted(cfg, opts, stripe_shift) /\ ubi_bdev = Layout(cfg, opts, Shifted(stripe_shift))
  BY <1>0, <1>1 DEF LayoutInv
<1>5. saved'[1] = opts /\ saved'[2] = ubi_bdev /\ saved' = <<saved'[1], saved'[2]>>
  BY <1>1
<1>6. params' = opts
  BY <1>1, <1>4, Zenon DEF ubi_write_config_json, Decoded
<1>7. PICK n \in 0 .. 30 : n = stripe_shift
  BY <1>4, Zenon
<1>8. Accepted(cfg, saved[1])' /\ Decoded(saved[1])' /\ BlocksAreShifted(cfg, saved[1], n)'
  BY <1>1, <1>4, <1>5, <1>7, Zenon
<1>9. saved'[2] = Layout(cfg, saved[1], Shifted(n))'
  BY <1>1, <1>4, <1>5, <1>7, Zenon
<1>10. SavedInv'
  BY <1>1, <1>5, <1>6, <1>8, <1>9, Zenon DEF SavedInv
<1>. QED BY <1>0, <1>1, <1>2, <1>3, <1>10, Zenon DEF IInv

LEMMA InvInit == Init => IInv
BY DEF Init, IInv, LayoutInv, MetadataInv, SavedInv

LEMMA InvNext == IInv /\ [Next]_vars => IInv'
<1>. SUFFICES ASSUME IInv, [Next]_vars PROVE IInv'
  BY Zenon
<1>1. CASE UNCHANGED vars
  <2>1. UNCHANGED <<cfg, params, opts, pc, r, stripe_shift, ubi_bdev, metadata, saved>>
    BY <1>1, Zenon DEF vars
  <2>2. LayoutInv'
    BY <2>1, Zenon DEF IInv, LayoutInv
  <2>3. MetadataInv'
    BY <2>1, Zenon DEF IInv, MetadataInv
  <2>4. SavedInv'
    BY <2>1 DEF IInv, SavedInv
  <2>. QED BY <2>1, <2>2, <2>3, <2>4, Zenon DEF IInv
<1>. QED BY <1>1, RpcNext, CheckNext, HalveNext, FinishNext, ReadNext, SaveNext, Zenon DEF Next

----------------------------------------------------------------------------
\* The theorems.

\* The inductive invariant always holds.
THEOREM Invariance == Spec => []IInv
BY InvInit, InvNext, PTL DEF Spec

\* The layout of a disk that is ready.
LEMMA Ready ==
    ASSUME IInv, pc = "done"
    PROVE  /\ cfg.blocklen \in Nat \ {0} /\ cfg.blockcnt \in Nat /\ UBI_METADATA_SIZE \in Nat
           /\ st_size(cfg, opts) \in Nat /\ LargeEnough(cfg, opts)
           /\ UBI_METADATA_SIZE = data_offset_blocks(cfg) * cfg.blocklen /\ data_offset_blocks(cfg) \in Nat
           /\ Shifted(stripe_shift) \in Nat \ {0} /\ BlocksAreShifted(cfg, opts, stripe_shift)
           /\ opts.stripe_size_kb \in Nat
           /\ ubi_bdev = Layout(cfg, opts, Shifted(stripe_shift))
<1>1. /\ cfg \in Config /\ Accepted(cfg, opts) /\ stripe_shift \in 0 .. 30
      /\ BlocksAreShifted(cfg, opts, stripe_shift) /\ ubi_bdev = Layout(cfg, opts, Shifted(stripe_shift))
  BY DEF IInv, LayoutInv
<1>2. cfg.blocklen \in Nat \ {0} /\ cfg.blockcnt \in Nat /\ UBI_METADATA_SIZE \in Nat
  BY <1>1, LayoutAssumption
<1>3. st_size(cfg, opts) \in Nat
  BY <1>1, LayoutAssumption DEF Accepted, st_size
<1>4. UBI_METADATA_SIZE % cfg.blocklen = 0
  BY <1>1, Zenon DEF Accepted, WholeMetadataBlocks
<1>5. UBI_METADATA_SIZE = data_offset_blocks(cfg) * cfg.blocklen /\ data_offset_blocks(cfg) \in Nat
  BY <1>2, <1>4, Blocks DEF data_offset_blocks
<1>6. Shifted(stripe_shift) \in Nat \ {0}
  BY <1>1, ShiftedPositive
<1>7. opts.stripe_size_kb \in Nat
  BY <1>1, LayoutAssumption DEF Accepted
<1>. QED BY <1>1, <1>2, <1>3, <1>5, <1>6, <1>7, Zenon DEF Accepted

\* The size check of ubi_init_layout_params is right for every base bdev and image:
\* the image's blocks, its last and partial one too, fit behind the metadata.
THEOREM ImageInDiskAlways == Spec => []ImageInDisk
<1>1. IInv => ImageInDisk
  <2>. SUFFICES ASSUME IInv, pc = "done"
                PROVE  /\ ubi_bdev.image_block_count <= ubi_bdev.blockcnt
                       /\ ubi_bdev.image_block_count * cfg.blocklen >= st_size(cfg, opts)
    BY Zenon DEF ImageInDisk
  <2>1. PICK p \in Nat \ {0}, x \in Nat, q \in Nat, c \in Nat :
          /\ p = cfg.blocklen /\ x = st_size(cfg, opts) /\ q = data_offset_blocks(cfg) /\ c = cfg.blockcnt
    BY Ready
  <2>2. c * p >= x + q * p
    BY <2>1, Ready DEF LargeEnough
  <2>3. PICK n \in Nat : n = (x + p - 1) \div p
    BY Blocks
  <2>4. n * p <= x + p - 1 /\ x + p - 1 < n * p + p
    BY <2>3, Blocks
  <2>5. ubi_bdev.image_block_count = n /\ ubi_bdev.blockcnt = c - q
    BY <2>1, <2>3, Ready DEF Layout
  <2>6. (c - q) * p = c * p - q * p
    OBVIOUS
  <2>7. n * p < (c - q) * p + p
    BY <2>2, <2>4, <2>6
  <2>8. n <= c - q
    BY <2>7, Times
  <2>9. n * p >= x
    BY <2>4
  <2>. QED BY <2>1, <2>5, <2>8, <2>9
<1>. QED BY <1>1, Invariance, PTL

\* On every disk that is created, for every stripe and every block in it, the
\* client's addresses and those of a stripe fetch are the same.
THEOREM AddressesAgreeEverywhere ==
    Spec => [](pc = "done" => \A s \in Nat : \A d \in 0 .. (ubi_bdev.stripe_block_count - 1) :
                                AgreeOn(s, d))
<1>1. IInv => (pc = "done" => \A s \in Nat : \A d \in 0 .. (ubi_bdev.stripe_block_count - 1) :
                                AgreeOn(s, d))
  <2>. SUFFICES ASSUME IInv, pc = "done", NEW s \in Nat,
                       NEW d \in 0 .. (ubi_bdev.stripe_block_count - 1)
                PROVE  AgreeOn(s, d)
    BY Zenon
  <2>1. PICK p \in Nat \ {0}, c \in Nat \ {0}, q \in Nat, k \in Nat :
          /\ p = cfg.blocklen /\ c = Shifted(stripe_shift) /\ q = data_offset_blocks(cfg)
          /\ k = opts.stripe_size_kb
    BY Ready
  <2>2. ubi_bdev.stripe_block_count = c /\ ubi_bdev.data_offset_blocks = q
    BY <2>1, Ready DEF Layout
  <2>3. c * p = k * 1024 /\ UBI_METADATA_SIZE = q * p
    BY <2>1, Ready DEF BlocksAreShifted, stripSizeBytes
  <2>4. d \in 0 .. (c - 1)
    BY <2>2
  <2>5. StripeOf(s * c + d) = s
    BY <2>1, <2>4, Inside DEF StripeOf
  <2>6. s * c * p = k * 1024 * s
    <3>1. s * c * p = s * (c * p)
      OBVIOUS
    <3>2. s * (k * 1024) = k * 1024 * s
      OBVIOUS
    <3>. QED BY <2>3, <3>1, <3>2
  <2>7. ClientImageOffset(s * c + d) = ImageOffset(s) + d * cfg.blocklen
    <3>1. (s * c + d) * p = s * c * p + d * p
      BY <2>4
    <3>. QED BY <2>1, <2>6, <3>1 DEF ClientImageOffset, ImageOffset
  <2>8. ClientOffset(s * c + d) = StripeOffset(s) + d * cfg.blocklen
    <3>1. (s * c + d + q) * p = s * c * p + d * p + q * p
      BY <2>4
    <3>. QED BY <2>1, <2>2, <2>3, <2>4, <2>6, <3>1 DEF ClientOffset, StripeOffset
  <2>. QED BY <2>2, <2>5, <2>7, <2>8, Zenon DEF AgreeOn
<1>. QED BY <1>1, Invariance, PTL

\* In particular for the stripes and blocks that the model checker looks at.
THEOREM AddressesAgreeAlways == Spec => []AddressesAgree
<1>1. IInv /\ (pc = "done" => \A s \in Nat : \A d \in 0 .. (ubi_bdev.stripe_block_count - 1) :
                                AgreeOn(s, d))
      => AddressesAgree
  <2>. SUFFICES ASSUME IInv, pc = "done", NEW s \in 0 .. 3,
                       \A z \in Nat : \A d \in 0 .. (ubi_bdev.stripe_block_count - 1) : AgreeOn(z, d),
                       NEW d \in {0, 1, ubi_bdev.stripe_block_count - 1},
                       d < ubi_bdev.stripe_block_count
                PROVE  AgreeOn(s, d)
    BY Zenon DEF AddressesAgree
  <2>1. ubi_bdev.stripe_block_count \in Nat \ {0}
    BY Ready DEF Layout
  <2>. QED BY <2>1
<1>. QED BY <1>1, Invariance, AddressesAgreeEverywhere, PTL

\* What ubi_write_config_json saves makes the same disk again: it is accepted, no
\* option is lost or defaulted, and the layout and metadata are recognized.
THEOREM SavedConfigRecreatesAlways == Spec => []SavedConfigRecreates
<1>1. IInv => SavedConfigRecreates
  <2>. SUFFICES ASSUME IInv, saved # <<>>
                PROVE  pc # "rejected" /\ (pc = "done" => <<opts, ubi_bdev>> = saved)
    BY Zenon DEF SavedConfigRecreates
  <2>1. pc # "rejected" /\ saved = <<saved[1], saved[2]>>
    BY Zenon DEF IInv, SavedInv
  <2>2. ASSUME pc = "done" PROVE <<opts, ubi_bdev>> = saved
    <3>1. opts = saved[1]
      BY <2>2 DEF IInv, SavedInv
    <3>2. PICK n \in 0 .. 30 : saved[2] = Layout(cfg, opts, Shifted(n)) /\ BlocksAreShifted(cfg, opts, n)
      BY <3>1, Zenon DEF IInv, SavedInv
    <3>3. PICK p \in Nat \ {0}, a \in Nat, b \in Nat :
            p = cfg.blocklen /\ a = Shifted(stripe_shift) /\ b = Shifted(n)
      BY <2>2, Ready, ShiftedPositive, Zenon
    <3>4. a * p = b * p
      BY <2>2, <3>2, <3>3, Ready DEF BlocksAreShifted
    <3>5. a <= b /\ b <= a
      BY <3>4, Times
    <3>6. ubi_bdev = saved[2]
      BY <2>2, <3>2, <3>3, <3>5, Ready
    <3>. QED BY <2>1, <3>1, <3>6, Zenon
  <2>. QED BY <2>1, <2>2, Zenon
<1>. QED BY <1>1, Invariance, PTL
=============================================================================
