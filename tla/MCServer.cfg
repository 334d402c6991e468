SPECIFICATION ServerFairSpec
CONSTANTS
    Handlers = {h1, h2}
    Mod = 8
    Mult = 5
    Inc = 3
    Base = 3
INVARIANT ServerInv
INVARIANT DrawAtomic
INVARIANT UniqueDraws
INVARIANT SignalKept
PROPERTY SignalEnds
PROPERTY NameGiven
