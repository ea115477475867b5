\* The documented ordering of deletions, which own-timestamp routing breaks.
CONSTANTS
    MaxEvents = 2
    Contents <- MCContents
    PartitionCount = 2
    BufferSize = 1
    Hash <- MCHash
    TestMode = FALSE
SPECIFICATION Spec
INVARIANT DeletionsInOrder
