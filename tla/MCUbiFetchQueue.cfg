SPECIFICATION Spec
CONSTANTS
    UBI_FETCH_QUEUE_SIZE = 4
    Stripe = {0, 1, 2}
    MaxQueued = 3
INVARIANTS TypeOK DistanceIsLength
PROPERTIES RingIsFifo
