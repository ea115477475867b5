\* A trigger with the letter that delimits silo and key is registered.
CONSTANTS
    Workers = {w1}
    Letters <- MCLetters
    Silos <- MCSilos
    Channels <- MCChannels
    globalSiloName <- MCNoSilo
    siloKeyDelimiter = "Uacute"
    emojiTriggerTypeID = "E"
    standardTriggerTypeID = "S"
    Names <- MCNames
    KnownNames <- MCKnownNames
    Values = {yes, empty}
    noString = empty
    MaxMessages = 1
SPECIFICATION Spec
SYMMETRY MCSymmetry
CHECK_DEADLOCK FALSE
INVARIANTS ScansSucceed
