SPECIFICATION Spec
CONSTANTS
    N = 16
    Order <- MCOrder
    Sign <- MCSign
    Skip <- MCSkip
    Sep <- Comma
    Texts <- MCTexts
    Others <- MCOthers
    Lead = 1
    Layout <- MCLayout
    Says <- MCSays
    Burst = 1
INVARIANTS FieldsTogether
