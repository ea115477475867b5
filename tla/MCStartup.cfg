\* Every way to build, start and end a bot of four plugins, and two events, of
\* which the second may be the bot's own message, or an edit.
CONSTANTS
    Chain <- MCChain
    Settings <- MCSettings
    Texts <- MCTexts
    OldThread = 10
    MaxEvents = 2
SPECIFICATION Spec
CHECK_DEADLOCK FALSE
INVARIANTS NeverAnswersItself OneAnswerPerAction CommandsAnswered RepliesInContext
INVARIANTS FirstErrorWins ReadyBeforeMessages HelpIsAccurate
INVARIANTS BadScheduleStopsNoOther
