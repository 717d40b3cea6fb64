CONSTANTS
    p1 = p1  p2 = p2  p3 = p3  l1 = l1  u1 = u1  g1 = g1  g2 = g2
    Nobody = Nobody
    Prompts = {p1, p3}
    Listers = {l1}
    Updaters = {u1}
    ScanOf <- MCScan
    MaxChanges = 0
    MaxCrashes = 1
SPECIFICATION FairSpec
CHECK_DEADLOCK FALSE
PROPERTIES EveryoneEnds ImplementsSharedProcess
