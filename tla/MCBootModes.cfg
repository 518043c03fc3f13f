SPECIFICATION FairBootSpec
CONSTANTS
    MaxImages = 2
    MaxCuts = 1
    HotKeys <- SomeKeys
    OptionSets <- SomeOptions
    MaxPanics = 1
    Gaps = {60}
INVARIANT CommandLineFollowsModes
PROPERTIES
    StaleImageIsNotResumed
    NoResetLoop
