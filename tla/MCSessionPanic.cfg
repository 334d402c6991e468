SPECIFICATION Spec
CONSTANTS
    Conns = {c1, c2}
    Streams = {"stdout"}
    SendCap = 1
    BuffLen = 1
    StdinCap = 1
    MaxChunks = 1
    MaxLines = 0
INVARIANT ShellKept
CHECK_DEADLOCK FALSE
