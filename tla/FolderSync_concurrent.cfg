\* Two devices, concurrent creation, edits and removals, files of one and two blocks.
SPECIFICATION Spec
CONSTANTS
    d1 = d1
    d2 = d2
    d3 = d3
    x = x
    y = y
    z = z
    w1 = w1
    w2 = w2
    Device = {d1, d2}
    Name = {f}
    Block = {x, y, z}
    Zero = z
    Link <- Pair
    Worker = {w1}
    Editor = {d1, d2}
    UserContent <- MixedBlockOrRemoved
    OneEditAtATime = FALSE
    MaxEdits = 3
    MaxVersions = 2
    MaxFaults = 0
INVARIANTS HistoriesWellFormed AuthorsHaveTheirVersions BlocksInPlace
PROPERTY HistoryAppendOnly
SYMMETRY Alike
CHECK_DEADLOCK FALSE
