SPECIFICATION NetSpec
CONSTANTS
    Names = {n1}
INVARIANT NewNSCleansUp
