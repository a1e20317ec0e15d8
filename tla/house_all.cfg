\* Two proposals, everything the process and the floor can do.
SPECIFICATION Spec
CONSTANTS
    p1 = p1  p2 = p2  NoId = NoId  NoStamp = NoStamp
    Ids = {p1, p2}
    Stamps = {1, 2, 3, 4}
    Delays <- OneRetry
    StaleAfter = 0
    Day = 2
    DraftLimit = 1
    DailyLimit = 1
SYMMETRY Symmetry
INVARIANTS TypeOK CapsKept
PROPERTIES DraftStands FollowsJobs
