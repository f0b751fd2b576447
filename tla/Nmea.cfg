SPECIFICATION FairSpec
CONSTANTS
    N = 13
    Order <- MCOrder
    Sign <- MCSign
    Skip <- MCSkip
    Sep <- Comma
    Texts <- MCTexts
    Others <- NoOthers
    Lead = 1
    Layout <- MCLayout
    Says <- MCSays
    Burst = 1
INVARIANTS TypeOK InRange ScanRight
PROPERTIES ScanEnds
