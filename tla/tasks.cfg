CONSTANTS
    t1 = t1  t2 = t2  t3 = t3  m1 = m1  s1 = s1
    Nobody = Nobody
    Tasks = {t1, t2, t3}
    Models = {m1}
    Slots <- TwoSlots
    Shared = {s1}
    SessionOf <- MCSession
    RunOf <- MCRun
    MaxRun = 2
    StopRun = 1
    Attempts <- MCAttempts
    Validations <- MCValidations
    Corrections <- MCCorrections
    Cancellers = {t1}
SPECIFICATION FairSpec
CHECK_DEADLOCK FALSE
INVARIANTS TypeOK SessionsSerial QuietIsQuiet
PROPERTIES EveryTaskEnds ImplementsTaskOutcome
