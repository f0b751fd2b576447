SPECIFICATION Spec
CONSTANTS
    QueueSize = 10
    Typed <- MenuKeys
    Foreign <- ForeignKey
VIEW View
INVARIANTS OneToken ResetFirst NmeaOnlyInGPS InitKeyTakenOnce DirectBothWays
PROPERTIES ResetComplete
