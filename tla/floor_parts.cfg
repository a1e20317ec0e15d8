\* Votes of three, pauses, two proposals of one mover, periods: the constants of each are in
\* MCFloor; those below only give ProposeFloor's own theirs.
SPECIFICATION PartsSpec
CONSTANTS
    a1 = a1  a2 = a2  a3 = a3  b1 = b1  b2 = b2
    q1 = q1  p1 = p1  p2 = p2  r1 = r1  NoOne = NoOne  Ticker = Ticker
    Members = {b1, b2}
    Ids = {q1}
    Readers = {}
    Timers <- MCTimers
    MaxEdits = 0
    Lag = 0
    Punctual = FALSE
    MaxClock = 3
    MaxDeadline = 3
SYMMETRY Symmetry
INVARIANTS FloorSound
PROPERTIES NothingCutShort
