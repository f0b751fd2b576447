SPECIFICATION Spec
CONSTANTS
    QueueSize = 10
    Typed <- WalkKeys
    Foreign <- NoForeign
PROPERTIES ReportRequestKept
