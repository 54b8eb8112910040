\* An OnlineFileRequest, whose mailbox is never closed, on the loop of the file source thread.
CONSTANTS
    Mailboxes = {a}
    Holding = {}
    Workers = {loop}
    Senders = {s}
    Owners = {loop}
    RunLoopScheduler = TRUE
    Closing = {}
    MaxSends = 2
    Terse = {}
    NoOne = NoOne
SPECIFICATION Spec
PROPERTIES SendingToTheDeadIsNoOp
CHECK_DEADLOCK FALSE
