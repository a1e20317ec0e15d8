\* Two members, two tasks, one pull request that names both, two requests in flight.
SPECIFICATION Spec
CONSTANTS
    m1 = m1  m2 = m2  t1 = t1  t2 = t2
    Nobody = Nobody  NoTask = NoTask
    Members = {m1, m2}
    Tasks = {t1, t2}
    Pulls = {1}
    Shapes <- MCText
    LeaseSlots = 1
    Day = 1
    ClaimRate = 2
    MaxActive = 2
    MaxRequests = 2
    MaxLeases = 2
    MaxClock = 1
SYMMETRY Symmetry
INVARIANTS TypeOK MergedOnce
PROPERTIES FollowsBoard
\* The clock and the claims are bounded: a behaviour ends.
CHECK_DEADLOCK FALSE
