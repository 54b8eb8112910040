\* A source with a root that only the server has, a tile of the server that cannot be parsed, one
\* tile in the database and one nobody has, seen by three cameras, one of them in another copy of
\* the world.
CONSTANTS
    MinZoom = 0
    MaxZoom = 2
    Branches = {0, 1}
    OutOfBounds <- MCOutOfBounds
    Views <- MCViews
    NoView = NoView
    PrefetchDelta = 1
    Offline <- MCOffline
    Online <- MCOnline
    Broken <- MCBroken
    MaxMoves = 3
    Annotations = TRUE
    MaxCalls = 2
SPECIFICATION FairMapSpec
INVARIANTS RenderTilesRetained Covered
PROPERTIES EventuallyDrawn StillIsComplete StillAnswered
CHECK_DEADLOCK FALSE
