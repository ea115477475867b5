\* Two partitions without buffers, fair goroutines and calls, failing updates:
\* the composition refines the tracker, and answers what it receives.
CONSTANTS
    MaxEvents = 3
    Contents <- MCContents
    PartitionCount = 2
    BufferSize = 0
    Hash <- MCHash
    TestMode = FALSE
    Actions = {1}
    Ephemeral <- MCNoneEphemeral
    CacheSize = 1
    Faults = {"update"}
SPECIFICATION FairBotSpec
INVARIANTS NoSharedMap
PROPERTIES HandlersRunInOrder EveryMessageAnswered
