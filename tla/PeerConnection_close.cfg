\* A message, wait_for_ready, close and wait_for_close, with room in the queue.
SPECIFICATION FairSpec
CONSTANTS
    u1 = u1
    u2 = u2
    u3 = u3
    u4 = u4
    User = {u1, u2, u3, u4}
    Op <- SendReadyCloseWait
    Reader = Reader
    Handler = Handler
    NoOne = NoOne
    Capacity = 4
    Indexes = 1
    MaxPings = 0
PROPERTY CloseReturns ReadyReturns WriterFollows
CHECK_DEADLOCK FALSE
