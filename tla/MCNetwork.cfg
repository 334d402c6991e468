SPECIFICATION NetSpec
CONSTANTS
    Names = {n1, n2, n3}
SYMMETRY Symmetry
INVARIANT NetInv
INVARIANT OwnLinkMoved
INVARIANT HostLinkOwner
INVARIANT Connected
INVARIANT CleanTeardown
PROPERTY ImplementsSandbox
PROPERTY LeftLinkBlocks
