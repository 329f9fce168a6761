SPECIFICATION FairSpec
CONSTANTS
    LoadKinds = {"html", "remote"}
    RunsUntilCommit = FALSE
    MaxLoads = 2
    MaxCalls = 2
    MaxCommands = 2
INVARIANTS
    CommandsRunOnTheirPage
    AnswerComesFromAHandler
PROPERTIES
    QueueIsFlushed
    ImplementsChannel
CHECK_DEADLOCK FALSE
