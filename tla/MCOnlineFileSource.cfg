\* A regular and two low priority requests, one of them with a ResourceTransform, for one or two
\* connections; everything may change.
CONSTANTS
    h1 = h1
    l1 = l1
    l2 = l2
    Requests = {h1, l1, l2}
    Regular = {h1}
    Transformed = {l2}
    Maxima = {1, 2}
    MaxReaching = 1
SPECIFICATION FairSpec
INVARIANTS TypeOK OneStateAtATime NeverMeansOffline
PROPERTIES SlotsUsed FifoByPriority RegularServed RetriedWhenReachable
CHECK_DEADLOCK FALSE
