SPECIFICATION Spec
CONSTANTS
    m1 = m1
    m2 = m2
    w = w
    Received = {m1, m2}
    Written = {w}
    Ruled = {m1, m2}
    Modes = {"live", "invoke"}
    SilentDays = 1
    MaxPerRun = 1
    MaxAttempts = 2
    LastDay = 3
    MaxBox = 4
    MaxFaults = 2
INVARIANTS ForwardsAreAccounted
PROPERTIES SilenceIsEarned SilenceIsReported
CHECK_DEADLOCK FALSE
