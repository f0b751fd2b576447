SPECIFICATION FairSpec
CONSTANTS
    PulseAt <- MCPulseAt
    RetryAt <- MCRetryAt
    ModemAt <- MCModemAt
    InitAt <- MCInitAt
    OnDelay <- MCOnDelay
    ATDelay <- MCATDelay
    Period <- MCPeriod
    Busy = 1
    AnswerMax = 1
INVARIANTS ModemSupplied ModemPowered
PROPERTIES ModemInitialised ReceiverComesUp
