SPECIFICATION Spec
CONSTANTS
    Io <- Straddling
    blockcnt = 6
    image_block_count = 3
    stripe_block_count = 2
    UBI_MAX_STRIPES = 3
    copy_on_read = TRUE
    no_sync = FALSE
    Slot = {k1}
    UBI_MAX_CONCURRENT_READS = 1
    UBI_URING_QUEUE_SIZE = 2
    Faults = {}
PROPERTIES WrittenStays
