SPECIFICATION Spec
CONSTANTS
    Config <- Configs
    UBI_METADATA_SIZE = 8388608
    UBI_STRIPE_SIZE_MIN = 64
    UBI_STRIPE_SIZE_MAX = 1024
    UBI_PATH_LEN = 1024
    UBI_VERSION_MAJOR = 0
    UBI_VERSION_MINOR = 1
CHECK_DEADLOCK FALSE
INVARIANTS ImageInDisk AddressesAgree SavedConfigRecreates
