SPECIFICATION FairSpec
CONSTANTS
    Apps = 2
    Pieces = 2
    Images = {"factory", "new", "newer"}
    Factory = "factory"
    MaxUploads = 5
    MaxLosses = 2
CHECK_DEADLOCK FALSE
INVARIANTS
    TypeOK
    RunsWhole
PROPERTIES
    NeverFurtherBack
    Activates
