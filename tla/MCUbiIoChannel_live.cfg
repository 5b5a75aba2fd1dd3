SPECIFICATION FairSpec
CONSTANTS
    Io <- Few
    blockcnt = 3
    image_block_count = 3
    stripe_block_count = 2
    UBI_MAX_STRIPES = 2
    copy_on_read = FALSE
    no_sync = TRUE
    Slot = {k1}
    UBI_MAX_CONCURRENT_READS = 1
    UBI_URING_QUEUE_SIZE = 2
    Faults = {"image_read", "base_io", "stripe_submit", "read_submit", "get_buf"}
PROPERTIES EveryIoCompletes
