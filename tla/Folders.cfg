\* Two devices that may both add the folder; one connection is lost, or one
\* folder taken away.
SPECIFICATION FairSpec
CONSTANTS
    d1 = d1
    d2 = d2
    f1 = f1
    Device = {d1, d2}
    Folder = {f1}
    Link <- Pair
    Owner <- Both
    Author = {d1}
    Paired <- OneKnows
    Watching <- WatchOne
    AcceptWhenQuiet = TRUE
    ShareWhenDown = TRUE
    MaxDials = 2
    MaxUpsets = 1
INVARIANTS OffersFromPeers IndexedIsKnown 
PROPERTY FilesFollow
CHECK_DEADLOCK FALSE
