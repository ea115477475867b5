\* Two workers in one channel, whatever is stored at the start, calls that
\* fail, and a trigger with the letter that delimits silo and key.
CONSTANTS
    Workers = {w1, w2}
    Letters <- MCLetters
    Silos <- MCSilos
    Channels <- MCChannels
    globalSiloName <- MCNoSilo
    siloKeyDelimiter = "Uacute"
    emojiTriggerTypeID = "E"
    standardTriggerTypeID = "S"
    Names <- MCNames
    KnownNames <- MCKnownNames
    Values = {yes, empty}
    noString = empty
    MaxMessages = 2
SPECIFICATION Spec
SYMMETRY MCSymmetry
CHECK_DEADLOCK FALSE
INVARIANTS ScansAgree ReactsAsRegistered NoTriggerMissed ForgetsOnlyOne AnswersAreTrue
