SPECIFICATION FairSpec
CONSTANTS
    QueueSize = 10
    Typed <- TimerKeys
    Foreign <- NoForeign
INVARIANTS TypeOK
PROPERTIES TimerRequestKept ResetDone ModeControlSpec ReportsSent EnterTaken
