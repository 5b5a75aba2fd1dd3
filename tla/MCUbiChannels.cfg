SPECIFICATION FairSpec
CONSTANTS
    c1 = c1
    c2 = c2
    s1 = s1
    s2 = s2
    Channel <- TwoChannels
    Stripe <- TwoStripes
    Io <- Shared
    Reactors = {"one", "many"}
    copy_on_read = FALSE
    UBI_MAX_ACTIVE_STRIPE_FETCHES = 1
    Faults = {"image_read", "stripe_write", "write_submit"}
INVARIANTS FetchedByOneChannel FetchHasWaiter CountExact NoOldData
PROPERTIES WrittenStays EveryIoServed
CHECK_DEADLOCK FALSE
