SPECIFICATION Spec
CONSTANTS
    p1 = p1  p2 = p2  NoId = NoId  NoStamp = NoStamp
    Ids = {p1}
    Stamps = {1, 2, 3, 4}
    Delays <- OneRetry
    StaleAfter = 1
    Day = 2
    DraftLimit = 2
    DailyLimit = 2
PROPERTIES StopGivesBack
