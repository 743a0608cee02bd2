SPECIFICATION Spec
CONSTANTS
    MaxPayload = 2
    MaxFrames = 1
    MaxDamage = 0
    UartRead = 6
    TcpRead = 10
    Payloads <- MCPayloads
INVARIANT FramesOfEitherSurvive
CHECK_DEADLOCK FALSE
