SPECIFICATION FairSpec
CONSTANTS
    Conns = {c1}
    Streams = {"stdout"}
    SendCap = 1
    BuffLen = 1
    StdinCap = 1
    MaxChunks = 1
    MaxLines = 0
PROPERTY StopCleansUp
CHECK_DEADLOCK FALSE
