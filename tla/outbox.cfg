CONSTANTS
    audit = audit  finish = finish  task = task  s1 = s1
    p1 = p1  p2 = p2
    None = None
    Keys = {audit, task}
    Streams = {s1}
    StreamOf <- OneStream
    Callers = {p1}
    Captured = {task}
    WithCallback = {audit}
    Terminal = {}
    MaxReports = 3
    MaxFaults = 1
SPECIFICATION FairSpec
CHECK_DEADLOCK FALSE
INVARIANTS TypeOK OneDelivery CallbackAwaitsReport
PROPERTIES NoOvertaking CallbackOnce ImplementsMailbox GetsThrough
