CONSTANTS
    q1 = q1  q2 = q2  q3 = q3  a = a  b = b  off = off  Off = off
    Requests = {q1, q2}
    Idents = {a}
    Rows = {1}
    Configs <- OneRow
    Windowed = {}
    Priority <- Equal
    Required <- Low
    Strict <- Everyone
    Waits <- Everyone
    Budgeted = {q1}
    Planners = {q1}
    Grouped = {}
    MaxAttempts = 2
    MaxChanges = 0
SPECIFICATION FairSpec
CHECK_DEADLOCK FALSE
PROPERTY WaitEnds
