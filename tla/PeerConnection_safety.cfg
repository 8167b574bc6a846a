\* A request, wait_for_ready and close at the same time, a queue that fills up.
SPECIFICATION Spec
CONSTANTS
    u1 = u1
    u2 = u2
    u3 = u3
    u4 = u4
    User = {u1, u2, u3}
    Op <- GetReadyClose
    Reader = Reader
    Handler = Handler
    NoOne = NoOne
    Capacity = 2
    Indexes = 1
    MaxPings = 1
INVARIANTS TypeOK OneshotOwned SentMeansWritten
CHECK_DEADLOCK FALSE
