\* Three devices in a chain, the first one edits, one edit at a time.
SPECIFICATION FairSpec
CONSTANTS
    d1 = d1
    d2 = d2
    d3 = d3
    x = x
    y = y
    z = z
    w1 = w1
    w2 = w2
    Device = {d1, d2, d3}
    Name = {f}
    Block = {x, y, z}
    Zero = z
    Link <- Chain
    Worker = {w1, w2}
    Editor = {d1}
    UserContent <- OneBlock
    OneEditAtATime = TRUE
    MaxEdits = 2
    MaxVersions = 4
    MaxFaults = 0
INVARIANTS NoOverrun VersionsPerEdit LastEditEverywhere VersionNamesContent
PROPERTY Settles
CHECK_DEADLOCK FALSE
