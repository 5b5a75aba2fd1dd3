SPECIFICATION Spec
CONSTANTS
    Io <- Mixed
    blockcnt = 6
    image_block_count = 4
    stripe_block_count = 2
    UBI_MAX_STRIPES = 3
    copy_on_read = TRUE
    no_sync = FALSE
    Slot = {k1, k2}
    UBI_MAX_CONCURRENT_READS = 1
    UBI_URING_QUEUE_SIZE = 3
    Faults = {"image_read", "base_io", "stripe_submit", "read_submit", "get_buf", "buf_wait"}
INVARIANTS SlotOwnsItsFetch StripeFetchedOnce FetchHasWaiter QueuedIsFetching
PROPERTIES SettledIsFinal ImplementsVirtualDisk
SYMMETRY SlotSymmetry
