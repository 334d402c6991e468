SPECIFICATION FairSpec
CONSTANTS
    Conns = {c1}
    Streams = {"stdout"}
    SendCap = 2
    BuffLen = 2
    StdinCap = 1
    MaxChunks = 2
    MaxLines = 1
INVARIANT TypeOK
INVARIANT ChannelDiscipline
INVARIANT TeardownOrder
INVARIANT NoAbandonedSandbox
INVARIANT InfoFirst
PROPERTY OutputInOrder
PROPERTY OutputNotOlder
PROPERTY ImplementsLife
PROPERTY Reaped
PROPERTY PumpEnds
CHECK_DEADLOCK FALSE
