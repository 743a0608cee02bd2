SPECIFICATION Spec
CONSTANTS
    MaxPayload = 2
    MaxFrames = 3
    MaxDamage = 2
    UartRead = 6
    TcpRead = 10
    Payloads <- MCPayloads
INVARIANTS
    IntactFramesSurvive
    DeliveredInOrder
    RestFits
CHECK_DEADLOCK FALSE
