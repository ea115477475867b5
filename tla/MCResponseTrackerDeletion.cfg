\* The documented deletion of responses with their message.
CONSTANTS
    MaxEvents = 3
    Contents <- MCContents
    Lane <- MCOneLane
    Actions = {1}
    Ephemeral <- MCNoneEphemeral
    CacheSize = 3
    Faults = {}
SPECIFICATION TrackerSpec
INVARIANTS DeletedMessageHasNoResponses
