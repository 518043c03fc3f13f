SPECIFICATION BootSpec
CONSTANTS
    MaxImages = 0
    MaxCuts = 0
    HotKeys <- NoKeys
    OptionSets <- NoOptions
    MaxPanics = 6
    Gaps = {30}
INVARIANT PanicLoopIsStopped
