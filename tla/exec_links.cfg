CONSTANTS
    s1 = s1
    c1 = c1
    c2 = c2
    w1 = w1
    v1 = v1
    Stops = {}
    Continues = {}
    Create = Create
    Recover = Recover
    Posts = {w1}
    Viewers = {}
    None = None
    MaxRev = 3
    MaxConns = 3
    MaxResults = 0
    MaxRestarts = 2

SPECIFICATION FairSpec
CHECK_DEADLOCK FALSE
PROPERTY RecoverySettles
