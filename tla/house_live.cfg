\* Two proposals that share a worker whose process crashes.
SPECIFICATION LiveSpec
CONSTANTS
    p1 = p1  p2 = p2  NoId = NoId  NoStamp = NoStamp
    Ids = {p1, p2}
    Stamps = {1, 2, 3, 4}
    Delays <- OneRetry
    StaleAfter = 0
    Day = 1
    DraftLimit = 1
    DailyLimit = 1
PROPERTIES JobSettles
