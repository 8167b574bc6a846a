\* Two tasks store rows of two files; the process ends twice.
SPECIFICATION Spec
CONSTANTS
    d1 = d1
    d2 = d2
    x = x
    y = y
    n1 = n1
    n2 = n2
    Device = {d1, d2}
    Name = {n1, n2}
    Block = {x, y}
    Zero = x
    Caller = {t1, t2}
    Row <- Rows
    MaxRows = 2
    MaxCrashes = 2
INVARIANTS TypeOK StoreInv OneTornRowPerCrash
PROPERTY ReadsAreAtomic HistorySurvives
CHECK_DEADLOCK FALSE
