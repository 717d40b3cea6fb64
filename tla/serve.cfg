CONSTANTS
    p1 = p1  p2 = p2  p3 = p3  l1 = l1  u1 = u1  g1 = g1  g2 = g2
    Nobody = Nobody
    Prompts = {p1, p2, p3}
    Listers = {}
    Updaters = {}
    ScanOf <- MCScan
    MaxChanges = 1
    MaxCrashes = 1
SPECIFICATION Spec
CHECK_DEADLOCK FALSE
SYMMETRY SameScan
INVARIANTS TypeOK GraphsApart GraphStays
PROPERTIES BrokenIsReplaced OnOwnConfig
