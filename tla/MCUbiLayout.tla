---------------------------- MODULE MCUbiLayout -----------------------------
(* Configurations for model checking UbiLayout, with the code's constants. *)
EXTENDS UbiLayout, TLC

BlockLengths == {512, 520, 768, 1024, 4096, 4160, 65536, 131072}
StripeSizes  == {63, 64, 96, 128, 256, 1000, 1024, 2048}
ImageSizes   == {0, 1, 511, 512, 4097, 1048576, 2097153}

Params(path, kb) ==
    [name |-> "ubi0", base_bdev |-> "base0", image_path |-> path, stripe_size_kb |-> kb]

\* Base bdevs one block too small for image and metadata, just large enough, and
\* larger.
Layouts == {[blocklen |-> l, params |-> Params(10, z), files |-> 10 :> i,
             blockcnt |-> (i + UBI_METADATA_SIZE + l - 1) \div l + extra] :
              l \in BlockLengths, z \in StripeSizes, i \in ImageSizes, extra \in {-1, 0, 7}}

\* Every choice of the optional parameters; one key missing, one unknown; paths of
\* UBI_PATH_LEN characters and one less, with a file by the name that is left of it.
Options == UNION {[O -> BOOLEAN] : O \in SUBSET {"no_sync", "copy_on_read", "directio"}}
Without(f, k) == [x \in DOMAIN f \ {k} |-> f[x]]
Requests == {Params(10, 64) @@ o : o \in Options}
            \cup {Without(Params(10, 64), k) : k \in DOMAIN Params(10, 64)}
            \cup {Params(10, 64) @@ ("uuid" :> 1)}
            \cup {Params(p, 64) : p \in {UBI_PATH_LEN - 1, UBI_PATH_LEN}}

Configs == Layouts \cup
    {[blocklen |-> 512, params |-> q, blockcnt |-> 32768,
      files |-> (10 :> 1048576) @@ ((UBI_PATH_LEN - 1) :> 65536)] : q \in Requests}
=============================================================================
