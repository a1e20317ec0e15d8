\* Does a closed floor decide a vote nobody could cast a ballot in?
SPECIFICATION AloneSpec
CONSTANTS
    a1 = a1  a2 = a2  a3 = a3  b1 = b1  b2 = b2
    q1 = q1  p1 = p1  p2 = p2  r1 = r1  NoOne = NoOne  Ticker = Ticker
    Members = {b1, b2}
    Ids = {q1}
    Readers = {}
    Timers <- LongVotes
    MaxEdits = 0
    Lag = 0
    Punctual = TRUE
    MaxClock = 5
    MaxDeadline = 4
PROPERTIES NoUnheardVote
