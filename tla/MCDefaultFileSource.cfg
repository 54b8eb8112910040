\* A tile that changes on the server and a style that must be revalidated compete for the one row
\* of the cache that a region leaves them.
CONSTANTS
    tile1 = tile1
    map = map
    Requestors = {tile1, map}
    Plain = {map}
    KeyOf <- TileAndStyle
    Keys = {"tile", "style", "kept"}
    RegionKeys = {"kept"}
    MaxRows = 2
    EvictBatch = 1
    Addresses = {1, 2}
    NoAddress = NoAddress
    Dead = Dead
    MustRevalidate = {"style"}
    Changing = {"tile"}
    MaxVersion = 2
    MaxLives = 2
    MaxChanges = 3
    MaxErrors = 1
    MaxInbox = 1
SPECIFICATION FairSpec
INVARIANTS TypeOK TasksFollowRequests
PROPERTIES NeverOlder RequiredIsRevalidated
CHECK_DEADLOCK FALSE
