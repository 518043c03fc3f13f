SPECIFICATION Spec
CONSTANTS
    Window = 10
    KernelBase = 13
    Times <- MCTimes
    Epoch = 2000
    Caches <- MCCaches
    Kernels <- MCKernels
    Slides = {1}
    CommandPages = 1
    MaxFaults = 1
    TagsPerBlock = 4
    Plists <- MCPlists
    MaxBundles = 2
    FileSizes = {1, 2}
    MaxRefusals = 1
INVARIANTS
    SegmentsAreExact
    SlideIsUniform
    CacheIsFresh
    FallBackLoads
    TagsAreConserved
    ModulesAreTrue
    RangesAreAllocated
CHECK_DEADLOCK FALSE
