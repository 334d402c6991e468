SPECIFICATION SocketFairSpec
CONSTANTS
    Users = {u1, u2}
    Closers = {x1, x2}
    Kinds = {"read", "write", "tryread", "shutdown"}
    MaxReady = 1
INVARIANT SocketInv
INVARIANT DescriptorsValid
INVARIANT QuietHandover
INVARIANT NoStandoff
PROPERTY DisposedOnce
PROPERTY Evicted
PROPERTY CloserReturns
