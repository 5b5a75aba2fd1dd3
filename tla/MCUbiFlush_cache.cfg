SPECIFICATION Spec
CONSTANTS
    s1 = s1
    s2 = s2
    Stripe <- TwoStripes
    Magic = Magic
    Flush <- Ranges
    MaxVersion = 1
    NoSync = {FALSE, TRUE}
    write_cache = TRUE
    bounce = FALSE
    stale_headers = FALSE
    Ends = {"power_loss"}
    Faults = {"data_flush", "md_write", "md_flush"}
INVARIANTS FlushedSurvives CleanIsDurable CountersAgree
PROPERTIES HeadersStay
