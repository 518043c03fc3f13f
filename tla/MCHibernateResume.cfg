SPECIFICATION ResumeSpec
CONSTANTS
    Header = 2
    MaxRead = 4
    MaxDecrypt = 2
    BlockSize = 2
    Images <- OnlyReal
    Graphics = 3
    CryptVars = 2
    PageSize = 8
    KeyStores <- AnyKeyStore
    DataSizes <- Sizes
INVARIANTS
    ImageIsExact
    ReadsFit
    ExtentEntryIsRead
    HandoffIsWhole
    KernelContinuesCipher
PROPERTIES
    PreviewIsReady
    LoopEnds
CHECK_DEADLOCK FALSE
