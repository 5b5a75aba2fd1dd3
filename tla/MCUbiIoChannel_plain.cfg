SPECIFICATION Spec
CONSTANTS
    Io <- Overlapping
    blockcnt = 6
    image_block_count = 4
    stripe_block_count = 2
    UBI_MAX_STRIPES = 3
    copy_on_read = FALSE
    no_sync = FALSE
    Slot = {k1}
    UBI_MAX_CONCURRENT_READS = 1
    UBI_URING_QUEUE_SIZE = 2
    Faults = {"image_read", "base_io", "stripe_submit", "read_submit", "get_buf", "buf_wait", "ring_submit"}
INVARIANTS IInv ActiveReadsExact SqeForFetch MetadataTracksFetches
PROPERTIES WrittenStays ImplementsVirtualDisk
