\* Three requests, two pauses and a pool of two threads.
CONSTANTS
    w1 = w1
    w2 = w2
    Workers = {w1, w2}
    MaxSends = 3
    MaxPauses = 2
SPECIFICATION FairSpec
INVARIANTS PausedMeansHeld QueueProcessed
PROPERTIES EveryWaitEnds
CHECK_DEADLOCK FALSE
