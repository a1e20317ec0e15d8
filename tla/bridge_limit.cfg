\* A claim whose time ran out comes back beside another.
SPECIFICATION Spec
CONSTANTS
    m1 = m1  m2 = m2  t1 = t1  t2 = t2
    Nobody = Nobody  NoTask = NoTask
    Members = {m1}
    Tasks = {t1, t2}
    Pulls = {1}
    Shapes <- MCBranch
    LeaseSlots = 1
    Day = 1
    ClaimRate = 2
    MaxActive = 1
    MaxRequests = 2
    MaxLeases = 2
    MaxClock = 1
CHECK_DEADLOCK FALSE
INVARIANTS ClaimLimitKept
