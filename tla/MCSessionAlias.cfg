SPECIFICATION Spec
CONSTANTS
    Conns = {c1}
    Streams = {"stdout"}
    SendCap = 1
    BuffLen = 1
    StdinCap = 1
    MaxChunks = 2
    MaxLines = 0
PROPERTY OutputIntact
CHECK_DEADLOCK FALSE
