CONSTANTS
    q1 = q1  q2 = q2  q3 = q3  a = a  b = b  off = off  Off = off
    Requests = {q1, q2, q3}
    Idents = {a, b}
    Rows = {1, 2}
    Configs <- TwoRows
    Windowed = {2}
    Priority <- MCPriority
    Required <- MCRequired
    Strict <- Everyone
    Waits <- MCWaits
    Budgeted = {q1, q2}
    Planners = {q1, q2, q3}
    Grouped = {q1, q2, q3}
    MaxAttempts = 1
    MaxChanges = 0
SPECIFICATION Spec
CHECK_DEADLOCK FALSE
INVARIANTS TypeOK SlotsMatchLeases QueueMatchesCallers
PROPERTIES NoOvertaking GroupOrder
