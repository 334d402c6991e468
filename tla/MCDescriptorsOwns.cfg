SPECIFICATION DescSpec
CONSTANTS
    Threads = {p1}
    MaxFds = 3
INVARIANT NewSocketOwns
