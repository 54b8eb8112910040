\* Four changes of the data, the layers or the collision boxes; parsing may throw.
SPECIFICATION FairSpec
CONSTANTS
    g1 = g1
    g2 = g2
    i1 = i1
    i2 = i2
    None = None
    Glyphs <- GlyphsTwo
    Images <- ImagesTwo
    Parses <- WithSymbols
    MaxOps = 4
INVARIANTS CoalescedInFlight LatestWhenComplete LaidOutWithDependencies ResultInFlight NothingLeftPending
PROPERTIES Settles
CHECK_DEADLOCK FALSE
