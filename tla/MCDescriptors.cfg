SPECIFICATION DescSpec
CONSTANTS
    Threads = {p1, p2}
    MaxFds = 6
SYMMETRY Symmetry
INVARIANT DescInv
INVARIANT StillMine
INVARIANT PairRollsBack
PROPERTY OnlyOwnerCloses
