SPECIFICATION FairSpec
CONSTANTS
    Sends = {s1, s2}
    Imports = {k1}
    None = None
    LateEvents = TRUE
    MaxFlows = 2
INVARIANTS
    OneAtATime
    QuestionNotLost
    QuestionsAnsweredOnce
PROPERTIES
    SendIsReported
CHECK_DEADLOCK FALSE
