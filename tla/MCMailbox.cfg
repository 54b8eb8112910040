\* A pool of two threads, an object that never closes its mailbox and one created by an AspiringActor.
CONSTANTS
    Mailboxes = {a, b}
    Holding = {b}
    Workers = {w1, w2}
    Senders = {s}
    Owners = {w1, w2, s}
    RunLoopScheduler = FALSE
    Closing = {b}
    MaxSends = 2
    Terse = {w1, w2}
    NoOne = NoOne
SPECIFICATION FairSpec
INVARIANTS TypeOK NoLostWakeup NoSpuriousWakeup ProcessedInOrderSent
PROPERTIES DeliveredToLiveObject DestructorWaitsForHandler ImplementsChannel ImplementsFairChannel
CHECK_DEADLOCK FALSE
