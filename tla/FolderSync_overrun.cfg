\* Two devices, concurrent edits.
SPECIFICATION Spec
CONSTANTS
    d1 = d1
    d2 = d2
    d3 = d3
    x = x
    y = y
    z = z
    w1 = w1
    w2 = w2
    Device = {d1, d2}
    Name = {f}
    Block = {x, y, z}
    Zero = z
    Link <- Pair
    Worker = {w1}
    Editor = {d1, d2}
    UserContent <- OneBlock
    OneEditAtATime = FALSE
    MaxEdits = 2
    MaxVersions = 4
    MaxFaults = 0
INVARIANTS NoOverrun
CHECK_DEADLOCK FALSE
