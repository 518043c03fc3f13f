CONSTANTS
    Addresses <- MCAddresses
    Bytes <- MCBytes
    Int3 = 3
    TableSize = 2
    MaxStream = 2
SPECIFICATION BreakpointSpec
CHECK_DEADLOCK FALSE
INVARIANTS
    CodeIsRecoverable
    CodeIsRestored
PROPERTIES
    OneBreakpointIsHidden
