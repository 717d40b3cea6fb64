CONSTANTS
    v1 = v1  v2 = v2
    Items = {v1, v2}
    Early = {}
    Concurrency = 1
    MaxJob = 2
    Manual = Manual  Final = Final  Nobody = Nobody
    Others = {Final}
    Stops = TRUE
SPECIFICATION Spec
CHECK_DEADLOCK FALSE
SYMMETRY ItemSymmetry
INVARIANTS TypeOK NoneForgotten NothingStranded OnceAtATime
