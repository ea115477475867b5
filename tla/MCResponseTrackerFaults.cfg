\* Two partitions whose handlers interleave, every call may fail, a cache of
\* one entry, some answers in private.
CONSTANTS
    MaxEvents = 3
    Contents <- MCContents
    Lane <- MCTwoLanes
    Actions = {1, 2}
    Ephemeral <- MCSomeEphemeral
    CacheSize = 1
    Faults = {"send", "ack", "update", "delete"}
SPECIFICATION TrackerSpec
INVARIANTS TrackerTypeOK NoResponseForgotten TrackedResponsesExist TrackedResponsesAreFresh
INVARIANTS TrackedResponsesAreComplete EntriesBelongToTheirKey DeletedMessageForgotten
PROPERTIES RemovedForItsMessage
