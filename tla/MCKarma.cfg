\* Two workers, one of which is given messages of the other's channel as well,
\* every fault of the datastore, and one crash.
CONSTANTS
    Workers = {1, 2}
    Silos = {1, 2}
    Values <- MCValues
    NameOrder <- MCNameOrder
    Faults = {"reject", "lose", "unacknowledged", "connect"}
    MaxCrashes = 1
    Messages <- MCMessages
    Author = "@me"
    Topics <- MCTopics
    MaxMessages = 2
SPECIFICATION FairSpec
CHECK_DEADLOCK FALSE
INVARIANTS KarmaTypeOK MemoryIsCopyButForDoubt KarmaAddsUp ReportsRankByTotal
PROPERTIES KeepsWhatItAcknowledged EveryActionEnds
