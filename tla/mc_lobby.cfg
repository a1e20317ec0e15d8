SPECIFICATION LobbySpec
INVARIANTS TypesHold LobbyInStep
PROPERTIES LobbyCatchesUp
CHECK_DEADLOCK FALSE
