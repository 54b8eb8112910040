\* The first download of a region whose style the map has shown before; the tile limit changes
\* and a batch may fail.
CONSTANTS
    t1 = t1
    t2 = t2
    t3 = t3
    t4 = t4
    t5 = t5
    s1 = s1
    s2 = s2
    s3 = s3
    glyphs = glyphs
    Style = Style
    Sources <- SourcesThree
    InlineTiles <- InlineTwo
    SourceTiles <- TilesOfThree
    Files <- FilesOne
    MapboxTiles = {t2, t3, t5}
    Ambient = {Style, s1, glyphs}
    TileLimits = {1, 2, 4}
    MaxConcurrent = 2
    BatchSize = 3
    MaxSessions = 1
    MaxFailures = 1
    Unknown = Unknown
SPECIFICATION FairSpec
INVARIANTS TypeOK CompleteMeansStored Accounted SlotsMetered
PROPERTIES  LimitKept DownloadEnds
CHECK_DEADLOCK FALSE
