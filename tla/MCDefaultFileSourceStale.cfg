\* A tile that changes on the server and must be revalidated.
CONSTANTS
    tile1 = tile1
    map = map
    Requestors = {tile1}
    Plain = {}
    KeyOf <- OneTile
    Keys = {"tile"}
    RegionKeys = {}
    MaxRows = 2
    EvictBatch = 1
    Addresses = {1}
    NoAddress = NoAddress
    Dead = Dead
    MustRevalidate = {"tile"}
    Changing = {"tile"}
    MaxVersion = 2
    MaxLives = 1
    MaxChanges = 1
    MaxErrors = 0
    MaxInbox = 1
SPECIFICATION Spec
INVARIANTS NotModifiedMeansCurrent
CHECK_DEADLOCK FALSE
