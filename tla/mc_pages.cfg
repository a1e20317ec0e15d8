SPECIFICATION PagesSpec
INVARIANTS TypesHold ToldAsItIs ReadsInTurn
PROPERTIES NothingTakenBack PagesCatchUp
CHECK_DEADLOCK FALSE
