SPECIFICATION FairSpec
CONSTANTS
    s1 = s1
    s2 = s2
    Stripe <- TwoStripes
    Magic = Magic
    Flush <- Ranges
    MaxVersion = 1
    NoSync = {FALSE}
    write_cache = TRUE
    bounce = FALSE
    stale_headers = FALSE
    Ends = {}
    Faults = {"data_flush"}
PROPERTY FlushCompletes
