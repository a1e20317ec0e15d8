SPECIFICATION ScreensSpec
INVARIANTS TypesHold ActsForThem ShownIsAsked SaidIsSo FilesKept WorkKept
PROPERTIES NothingUnasked
CHECK_DEADLOCK FALSE
