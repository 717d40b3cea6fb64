CONSTANTS
    s1 = s1
    c1 = c1
    c2 = c2
    w1 = w1
    v1 = v1
    Stops = {s1}
    Continues = {}
    Create = Create
    Recover = Recover
    Posts = {w1}
    Viewers = {}
    None = None
    MaxRev = 1
    MaxConns = 1
    MaxResults = 0
    MaxRestarts = 0

SPECIFICATION Spec
CHECK_DEADLOCK FALSE
PROPERTY StopSticks
