SPECIFICATION Spec
CONSTANTS
    g1 = g1
    g2 = g2
    i1 = i1
    i2 = i2
    None = None
    Glyphs <- GlyphsTwo
    Images <- ImagesTwo
    Parses <- SymbolsRemoved
    MaxOps = 3
INVARIANTS NothingLeftPending
CHECK_DEADLOCK FALSE
