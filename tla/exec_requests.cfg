CONSTANTS
    s1 = s1
    c1 = c1
    c2 = c2
    w1 = w1
    v1 = v1
    Stops = {s1}
    Continues = {c1, c2}
    Create = Create
    Recover = Recover
    Posts = {w1}
    Viewers = {v1}
    None = None
    MaxRev = 2
    MaxConns = 2
    MaxResults = 1
    MaxRestarts = 0

SPECIFICATION MCSpec
CHECK_DEADLOCK FALSE
SYMMETRY Symmetry
INVARIANT TypeOK
PROPERTIES StopLasts ImplementsOneExecution
