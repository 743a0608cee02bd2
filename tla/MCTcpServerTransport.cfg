SPECIFICATION ServerSpec
CONSTANT MaxConn = 3
INVARIANTS
    DescriptorsAccounted
    OnlyReplacementHurts
PROPERTIES
    ClientIsRead
    StopReturns
