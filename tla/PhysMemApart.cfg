SPECIFICATION Spec
CONSTANTS
    PAGE_SIZE = 64
    WORD_BITS = 32
    KERNEL_END = 640
    MULTIBOOT_START = 704
    ModuleSize = {0, 8, 45, 52, 60, 244}
    Memory = {40, 70, 128}
    SbrkPages = {1, 2, 3}
INVARIANT PlacedApart
CHECK_DEADLOCK FALSE
