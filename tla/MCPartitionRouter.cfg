\* Two partitions with buffers of one, three events, every way to stop, fair
\* goroutines.
CONSTANTS
    MaxEvents = 3
    Contents <- MCContents
    PartitionCount = 2
    BufferSize = 1
    Hash <- MCHash
    TestMode = TRUE
SPECIFICATION FairSpec
INVARIANTS TypeOK DrainLosesNothing BoundedBacklog
PROPERTIES PerMessageOrder PerPartitionOrder EveryEventProcessed GoodbyeTerminates
