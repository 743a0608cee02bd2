SPECIFICATION PathSpec
CONSTANTS
    Outputs = {"o"}
    Input = "i"
    ActiveLow = TRUE
    Retries = 1
    MaxCmds = 2
    MaxWire = 2
    MaxTasks = 2
    Duties = {6, 15}
    Periods = {2, 5}
    Full = 10
    Word = 32
INVARIANTS
    PwmNeverExceeds
    EventsAlternate
PROPERTIES
    
    RepeatCures
CHECK_DEADLOCK FALSE
