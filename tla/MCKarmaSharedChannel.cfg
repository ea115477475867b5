\* Two workers whose messages may be in the same channel; nothing fails.
CONSTANTS
    Workers = {1, 2}
    Silos = {1}
    Values <- MCValues
    NameOrder <- MCNameOrder
    Faults = {}
    MaxCrashes = 0
    Messages <- MCSmallMessages
    Author = "@me"
    Topics <- MCAnyChannel
    MaxMessages = 2
SPECIFICATION Spec
CHECK_DEADLOCK FALSE
INVARIANTS MemoryIsCopy
