\* Two devices, one edit, a file of two blocks.
SPECIFICATION Spec
CONSTANTS
    d1 = d1
    d2 = d2
    d3 = d3
    x = x
    y = y
    z = z
    w1 = w1
    w2 = w2
    Device = {d1, d2}
    Name = {f}
    Block = {x, y, z}
    Zero = z
    Link <- Pair
    Worker = {w1}
    Editor = {d1}
    UserContent <- TwoBlock
    OneEditAtATime = TRUE
    MaxEdits = 1
    MaxVersions = 4
    MaxFaults = 0
INVARIANTS VersionsPerEdit
CHECK_DEADLOCK FALSE
