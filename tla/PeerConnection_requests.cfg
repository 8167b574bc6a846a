\* A request on a connection that closes.
SPECIFICATION FairSpec
CONSTANTS
    u1 = u1
    u2 = u2
    u3 = u3
    u4 = u4
    User = {u1, u2}
    Op <- GetClose
    Reader = Reader
    Handler = Handler
    NoOne = NoOne
    Capacity = 3
    Indexes = 1
    MaxPings = 0
PROPERTY RequestsAnswered
CHECK_DEADLOCK FALSE
