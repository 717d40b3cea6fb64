CONSTANTS
    q1 = q1  q2 = q2  q3 = q3  a = a  b = b  off = off  Off = off
    Requests = {q1, q2}
    Idents = {a, b}
    Rows = {1, 2}
    Configs <- Changing
    Windowed = {2}
    Priority <- Equal
    Required <- MCRequired
    Strict <- Nobody
    Waits <- Everyone
    Budgeted = {q1}
    Planners = {}
    Grouped = {}
    MaxAttempts = 1
    MaxChanges = 2
SPECIFICATION Spec
CHECK_DEADLOCK FALSE
INVARIANTS EnsuredIsTheLoop
PROPERTIES ImplementsLeasePool HealthFence
