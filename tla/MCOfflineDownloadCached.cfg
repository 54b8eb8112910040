\* The last resources of a download are found in the database.
CONSTANTS
    t1 = t1
    t2 = t2
    t3 = t3
    t4 = t4
    t5 = t5
    s1 = s1
    s2 = s2
    s3 = s3
    glyphs = glyphs
    Style = Style
    Sources <- SourcesOne
    InlineTiles <- InlineTwo
    SourceTiles <- TilesOfOne
    Files <- FilesOne
    MapboxTiles = {t2, t3}
    Ambient = {Style, s1, t1, t2, t3, t4, glyphs}
    TileLimits = {3}
    MaxConcurrent = 2
    BatchSize = 2
    MaxSessions = 1
    MaxFailures = 0
    Unknown = Unknown
SPECIFICATION Spec
INVARIANTS NotStranded
CHECK_DEADLOCK FALSE
