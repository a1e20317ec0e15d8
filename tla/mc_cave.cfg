SPECIFICATION CaveSpec
INVARIANTS TypesHold SeatHeld VoiceToldTrue DrawnTrue
PROPERTIES NothingOutOfTurn CaveSettles
CHECK_DEADLOCK FALSE
