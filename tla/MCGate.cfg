SPECIFICATION GateFairSpec
CONSTANTS
    Users = {u1, u2, u3}
    GateClosed = 4
INVARIANT GateInv
INVARIANT NoPanic
INVARIANT ClosedMeansEmpty
PROPERTY ImplementsAbstractGate
PROPERTY CloseReturns
