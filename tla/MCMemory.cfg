SPECIFICATION MemorySpec
CONSTANTS
    PoolAddrs = {b1, b2, b3}
    TagsPerPool = 2
    Window = 5
    KernelBase = 10
    MaxPages = 2
INVARIANTS
    TagsAreExact
    KernelBlocksAreSafe
PROPERTY
    KernelMemorySpec
SYMMETRY Symmetry
CHECK_DEADLOCK FALSE
