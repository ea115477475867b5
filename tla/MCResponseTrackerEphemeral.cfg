\* The documented privacy of ephemeral answers.
CONSTANTS
    MaxEvents = 2
    Contents <- MCContents
    Lane <- MCOneLane
    Actions = {1, 2}
    Ephemeral <- MCSomeEphemeral
    CacheSize = 2
    Faults = {}
SPECIFICATION TrackerSpec
INVARIANTS EphemeralAnswersStayPrivate
