SPECIFICATION FairSpec
CONSTANTS
    s1 = s1
    s2 = s2
    Stripe <- TwoStripes
    Magic = Magic
    Flush <- Ranges
    MaxVersion = 1
    NoSync = {FALSE, TRUE}
    write_cache = FALSE
    bounce = FALSE
    stale_headers = FALSE
    Ends = {"power_loss", "kill", "delete"}
    Faults = {"data_submit", "md_submit", "md_write", "md_flush_submit", "md_flush", "stripe_write"}
INVARIANTS IInv FlushedSurvives ImageOrWritten
PROPERTIES FlushCompletes
