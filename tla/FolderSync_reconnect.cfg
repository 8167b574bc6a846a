\* Two devices, both edit and remove, one action at a time; one fault.
SPECIFICATION Spec
CONSTANTS
    d1 = d1
    d2 = d2
    d3 = d3
    x = x
    y = y
    z = z
    w1 = w1
    w2 = w2
    Device = {d1, d2}
    Name = {f}
    Block = {x, y, z}
    Zero = z
    Link <- Pair
    Worker = {w1, w2}
    Editor = {d1, d2}
    UserContent <- OneBlockOrRemoved
    OneEditAtATime = TRUE
    MaxEdits = 2
    MaxVersions = 3
    MaxFaults = 1
INVARIANTS HistoriesAgree Inv NoOverrun AuthorsHaveTheirVersions
SYMMETRY AllAlike
CHECK_DEADLOCK FALSE
